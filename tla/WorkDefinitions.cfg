SPECIFICATION Spec
CONSTANTS
  Texts = {t1, t2}
  Definitions = {d1, d2}
  Transactions = {x1, x2}
  Requests = {r1, r2}
  None = None
SYMMETRY Symmetry
INVARIANTS OnlyApprovedWork ToldWhatWasDecided WithdrawnIsEnding EveryAgentIsTold
CHECK_DEADLOCK FALSE

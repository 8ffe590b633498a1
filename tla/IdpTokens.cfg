SPECIFICATION Spec
CONSTANTS
  Grants = {g1, g2}
  Offline = {g1}
  DpopBound = {g2}
  Requests = {r1, r2, r3}
  MaxFaults = 1
SYMMETRY Symmetry
INVARIANTS SpentOnce QuietRevocationIsFinal NothingBehindTheEnd NeverStranded
CHECK_DEADLOCK FALSE

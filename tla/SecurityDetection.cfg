SPECIFICATION Spec
CONSTANTS
  l1 = l1
  l2 = l2
  f1 = f1
  a1 = a1
  Lines = {l1, l2}
  Findings = {f1}
  Agents = {a1}
  FindingOf <- OneWindow
  AgentOf <- OneAgent
  RiskOf <- GraveThenLow
  Reviewers = {r1, r2}
  Answers <- EveryKind
  MaxFaults = 1
SYMMETRY Symmetry
INVARIANTS EvidenceIsKept UnjudgedWaits DisruptionIsApproved DecisionIsTrue ToldIsTrue
CHECK_DEADLOCK FALSE

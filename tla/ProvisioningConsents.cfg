SPECIFICATION FairSpec
CONSTANTS
  Agents = {a1}
  Full <- Nobody
  Bridged <- Everyone
  Capacity = 1
  First = first
  Resumes = {r1, r2, r3}
  Callbacks = {c1, c2}
  MaxStarts = 1
  MaxFaults = 1
INVARIANTS AgentHasItsDelegation OneStoppableExecution RolledBackCannotObtainGrants
CHECK_DEADLOCK FALSE
PROPERTY EveryTransactionEnds

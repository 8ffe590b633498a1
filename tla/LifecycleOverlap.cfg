SPECIFICATION Spec
CONSTANTS
  NumAgents = 1
  NumSteps = 2
  IssuanceStep = 1
  BridgeStep = 1
  FirstDue = "soon"
  MaxAttempts = 1
  SweepBatch = 50
  Ticks = {t1}
  Requests = {r1}
  Answers <- AnyAnswer
  Targets <- FullLadder
  StopReasons <- DetectorReason
  MaxFaults = 1
INVARIANTS NothingOutlivesTheRecord ClaimsAreTrue
PROPERTY LifePromise
CHECK_DEADLOCK FALSE

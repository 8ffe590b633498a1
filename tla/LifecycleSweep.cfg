SPECIFICATION FairSpec
CONSTANTS
  NumAgents = 2
  NumSteps = 2
  IssuanceStep = 1
  BridgeStep = 1
  FirstDue = "later"
  MaxAttempts = 2
  SweepBatch = 50
  Ticks = {t1}
  Requests = {}
  Answers <- Answered
  Targets <- Escalations
  StopReasons <- DetectorReason
  MaxFaults = 1
PROPERTIES FailedCleanupIsRetried ExpiryIsActedOn
CHECK_DEADLOCK FALSE

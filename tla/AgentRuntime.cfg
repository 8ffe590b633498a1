SPECIFICATION RunSpec
CONSTANTS
  MaxSteps = 3
  MaxInstructions = 3
INVARIANTS OneTrueEnding TrialIsTrue
PROPERTIES EveryRunIsClosed NoTrialQueuedForever
CHECK_DEADLOCK FALSE

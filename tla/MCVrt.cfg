SPECIFICATION Spec
CONSTANT Cases <- MCCases
CHECK_DEADLOCK FALSE
INVARIANTS
  ResultsRight
  FaultFreeSucceeds
  KernelOnItsImage
  SlotsDrained
  FollowerInStep
  NothingLeftRunning
PROPERTY
  RunsEnd

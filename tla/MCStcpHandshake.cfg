SPECIFICATION Spec
CONSTANTS
  Reliable = FALSE
  MaxFaults = 3
  InitialSeqs <- SmallSeqs
INVARIANTS AssertsHold EstablishedAgree StaleSynIsOld Consistent
PROPERTY SetUpCompletes
CHECK_DEADLOCK FALSE

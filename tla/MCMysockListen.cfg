SPECIFICATION ListenSpec
CONSTANTS
  Conns = {c1, c2, c3, c4}
  None = None
  Zeroed = Zeroed
  MaxLen = 2
  Width = 8
INVARIANTS AcceptedInOrder SlotsHeld
PROPERTIES CompletedAccepted
CHECK_DEADLOCK FALSE

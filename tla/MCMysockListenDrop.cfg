SPECIFICATION ListenSpec
CONSTANTS
  Conns = {c1, c2, c3}
  None = None
  Zeroed = Zeroed
  MaxLen = 1
  Width = 8
INVARIANTS SocketHandedOn
CHECK_DEADLOCK FALSE

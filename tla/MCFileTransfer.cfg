SPECIFICATION Spec
CONSTANTS
  Clients = {"user", "one"}
  Names = {"long", "empty", "missing"}
  FileLen <- MCFileLen
  Failing = {"long"}
  Asks <- MCAsks
  OneFile = {"one"}
  Window = 5
  MaxData = 4
  ReadSize = 6
  LineSize = 3
 
 
INVARIANT StreamKept
 
CHECK_DEADLOCK FALSE

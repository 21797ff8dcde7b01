SPECIFICATION Spec
CONSTANTS
  Threads = {"t1", "t2"}
  Channels = {"c1", "c2"}
  Locks <- ChircLock
  Rank <- ChircRank
  Programs <- Command
INVARIANTS MutualExclusion NoDeadlock InOrder
PROPERTY CommandsEnd
CHECK_DEADLOCK FALSE

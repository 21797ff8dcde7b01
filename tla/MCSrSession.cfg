SPECIFICATION SessionSpec
CONSTANTS
  Bits = {1, 2}
  Ifaces = {"eth1", "eth2", "eth9"}
  MaxRoutes = 2
  MaxPackets = 1
  None = None
  Lines <- SomeLines
  Infos <- SomeInfos
  Packets <- SomePackets
CHECK_DEADLOCK FALSE
INVARIANTS SortedMeansLongest ReceivedInOrder InterfacesAnnounced SentByKnownPort
PROPERTIES PassedWhenReady SessionSettles LoadsTable

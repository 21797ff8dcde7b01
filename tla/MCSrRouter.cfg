SPECIFICATION Spec
CONSTANTS
  Slots = 1
  Lifetime = 1
  MaxSent = 1
  Ifaces = {"e1", "e2"}
  Hops = {"h1", "h2"}
  Macs = {"m1", "m2"}
  Packets = {1, 2, 3, 4, 5}
  Header <- MCHeader
  RouteOf <- MCRouteOf
INVARIANTS OnePlace OneRequestPerHop SentToNextHop
PROPERTIES  Settled

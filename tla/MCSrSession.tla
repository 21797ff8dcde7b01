----------------------------- MODULE MCSrSession -----------------------------
(***************************************************************************)
(* An instance of SrSession: a switch with two ports whose table files     *)
(* have routes of every prefix length over addresses of two bits.          *)
(***************************************************************************)
EXTENDS SrSession

PrefixMask(n) == 1..n

Line(d, n, i) == [dest |-> d, mask |-> PrefixMask(n), iface |-> i]

\* A default route, a network, hosts, and one by an interface no switch has.
SomeLines == {Line({}, 0, "eth1"), Line({1, 2}, 1, "eth2"), Line({1}, 2, "eth1"), Line({2}, 2, "eth9")}

Eth1 == [name |-> "eth1", mac |-> 1, ip |-> 11]
Eth2 == [name |-> "eth2", mac |-> 2, ip |-> 12]

SomeInfos == {<<Eth1, Eth2>>, <<>>}

Packet(i, s, a) == [type |-> "PACKET", iface |-> i, size |-> s, asks |-> a]

\* Packets with and without room for ARP, a request for another, an oversize one.
SomePackets == {Packet("eth1", "full", None), Packet("eth2", "full", 11),
                Packet("eth2", "short", None), Packet("eth1", "huge", None)}
=============================================================================

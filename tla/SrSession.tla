------------------------------ MODULE SrSession ------------------------------
(***************************************************************************)
(* A session of the router with the server that emulates its network:      *)
(* main() and sr_connect_to_server(), the messages the router reads with   *)
(* sr_read_from_server_expect(), and the two threads of the server: the    *)
(* reactor, which answers the router, and POX, which learns the interfaces *)
(* of the switch and broadcasts the packets that arrive there.  The        *)
(* routing table is that of SrRouteLookup.                                 *)
(*                                                                         *)
(* A message travels as cells that the router's calls of recv() may cut    *)
(* anywhere; the first LenSize cells of a message are its length field.    *)
(***************************************************************************)
EXTENDS SrRouteLookup, SequencesExt

CONSTANTS
  Infos,       \* the interface lists a switch may have: Seq([name, mac, ip])
  Packets,     \* the packets that may arrive at the switch
  None,        \* no interfaces yet, no address yet
  MaxPackets   \* bound: packets broadcast to the router

ASSUME SessionAssumption ==
  /\ \A info \in Infos : info \in Seq([name : Ifaces, mac : Nat, ip : Nat])
  /\ Packets \subseteq [type : {"PACKET"}, iface : Ifaces, size : {"short", "full", "huge"},
                        asks : Nat \cup {None}]
  /\ None \notin Nat /\ None \notin Infos
  /\ MaxPackets \in Nat

VARIABLES
  \* the router
  pc,          \* where main() is: "loading", "connecting", a message it expects, ...
  template,    \* a topology template was asked for, of a server that has them
  ifs,         \* sr->if_list
  buf,         \* the cells of the current message read so far
  \* the server and the connection
  conn,        \* what the server did with the connection
  interfaces,  \* self.interfaces, None before the first RouterInfo
  ports,       \* the names intfname_to_port has a port for
  wire,        \* the cells sent to the router and not yet read
  toServer,    \* the messages sent to the server and not yet read
  \* history
  sent,        \* the messages sent to the router
  received,    \* the messages the router read completely
  passed,      \* the packets given to sr_handlepacket()
  early        \* OPEN was read before there were interfaces: no HWINFO follows

routerVars  == <<pc, template, ifs, buf, received, passed>>
serverVars  == <<conn, interfaces, ports, sent, early>>
sessionVars == <<table, cleared, routerVars, serverVars, wire, toServer>>

SessionInit ==
  /\ Init
  /\ template \in BOOLEAN
  /\ pc = IF template THEN "connecting" ELSE "loading"
  /\ ifs = <<>> /\ buf = <<>>
  /\ conn = "none" /\ interfaces = None /\ ports = {}
  /\ wire = <<>> /\ toServer = <<>>
  /\ sent = <<>> /\ received = <<>> /\ passed = {} /\ early = FALSE
-----------------------------------------------------------------------------
(* Messages                                                                *)

LenSize == 2   \* the length field, in cells
MaxLen  == 3   \* the longest message the router takes, in cells

\* A packet is shorter than the headers of Ethernet and ARP, longer, or of more
\* than 10,000 bytes, which the switch may pass on and the router does not take.
Size(m) == IF m.type = "PACKET" /\ m.size = "huge" THEN MaxLen + 1 ELSE MaxLen

Cells(m) == [i \in 1..Size(m) |-> [msg |-> m, at |-> i]]

\* VNSInterface.pack(): the entries of one interface, the router's keys only.
Packed(i) == << [key |-> "HWINTERFACE", value |-> i.name],
                [key |-> "HWETHER",     value |-> i.mac],
                [key |-> "HWETHIP",     value |-> i.ip] >>

\* VNSHardwareInfo.pack()
HardwareInfo(info) ==
  [type |-> "HWINFO", entries |-> FlattenSeq([i \in DOMAIN info |-> Packed(info[i])])]

AuthStatus(ok) == [type |-> "AUTH_STATUS", ok |-> ok]

\* The server sends messages in the order of the calls, whatever the thread.
Send(ms) == /\ sent' = sent \o ms
            /\ wire' = wire \o FlattenSeq([i \in DOMAIN ms |-> Cells(ms[i])])
-----------------------------------------------------------------------------
(* sr_if.c                                                                 *)

\* sr_add_interface(): a new interface at the end of the list.
AddInterface(l, n) == Append(l, [name |-> n, mac |-> None, ip |-> None])

\* Mutant: the first interface of the list is changed.
SetFirst(l, field, v) == [l EXCEPT ![1][field] = v]

\* sr_set_ether_addr(), sr_set_ether_ip(): of the last interface.
SetLast(l, field, v) == [l EXCEPT ![Len(l)][field] = v]

Named(l, n) == {i \in DOMAIN l : l[i].name = n}

\* sr_get_interface(): the first of that name.
GetInterface(l, n) == l[CHOOSE i \in Named(l, n) : \A j \in Named(l, n) : i <= j]

\* One entry.
HandleEntry(l, e) == CASE e.key = "HWINTERFACE" -> AddInterface(l, e.value)
                       [] e.key = "HWETHER"     -> SetLast(l, "mac", e.value)
                       [] e.key = "HWETHIP"     -> SetLast(l, "ip", e.value)

\* sr_handle_hwinfo(): the entries in their order.
HandleHwinfo(l, m) ==
  LET after[n \in 0..Len(m.entries)] ==
        IF n = 0 THEN l ELSE HandleEntry(after[n - 1], m.entries[n])
  IN  after[Len(m.entries)]

\* Mutant: a route without an interface is counted only if it is the first.
VerifiedFirst(l, t) == l # <<>> /\ t # <<>> /\ Named(l, t[1].iface) # {}

\* sr_verify_routing_table() = 0
Verified(l, t) == l # <<>> /\ t # <<>> /\ \A i \in DOMAIN t : Named(l, t[i].iface) # {}
-----------------------------------------------------------------------------
(* main() and sr_load_rt()                                                 *)

\* The table is read before the connection, not with a template, and again after.
Loading == pc \in {"loading", "reloading"}

ReadLine == /\ Loading
            /\ \E r \in Lines : LoadLine(r)
            /\ UNCHANGED <<routerVars, serverVars, wire, toServer>>

\* Mutant: the second load starts from an empty table.
ReadsAllEmptied == /\ Loading
                   /\ table' = <<>> /\ cleared' = FALSE
                   /\ pc' = IF pc = "loading" THEN "connecting" ELSE "loop"
                   /\ UNCHANGED <<template, ifs, buf, received, passed, serverVars, wire, toServer>>

\* The end of the file; an empty one leaves the table as it was.
ReadsAll == /\ Loading
            /\ IF cleared THEN Load ELSE UNCHANGED <<table, cleared>>
            /\ pc' = IF pc = "loading" THEN "connecting" ELSE "loop"
            /\ UNCHANGED <<template, ifs, buf, received, passed, serverVars, wire, toServer>>

\* Any failure before the main loop, and every result but 1 in it, ends main().
Ends(running) == /\ running
                 /\ pc' = "ended"
                 /\ UNCHANGED <<table, cleared, template, ifs, buf, received, passed,
                                serverVars, wire, toServer>>

\* The file cannot be read, or one of its lines not be converted.
LoadFails == Ends(Loading)

\* gethostbyname(), socket() or connect() fails.
ConnectFails == Ends(pc = "connecting")

\* connect(): the connection waits for the server to accept it.
Connect == /\ pc = "connecting"
           /\ pc' = "AUTH_REQUEST" /\ conn' = "waiting"
           /\ UNCHANGED <<table, cleared, template, ifs, buf, received, passed,
                          interfaces, ports, sent, early, wire, toServer>>
-----------------------------------------------------------------------------
(* sr_read_from_server_expect()                                            *)

\* The server closed the connection, or it was reset.
Lost == conn \in {"closed", "reset"}

Reading == pc \in {"AUTH_REQUEST", "AUTH_STATUS", "RTABLE", "loop"}

\* len: the length field of the message, once it is there.
Announced == Size(buf[1].msg)

\* Mutant: the length field is taken not to count itself.
WantedBody == IF Len(buf) < LenSize THEN LenSize - Len(buf)
              ELSE Announced + LenSize - Len(buf)

Wanted == IF Len(buf) < LenSize THEN LenSize - Len(buf) ELSE Announced - Len(buf)

TooLong == Len(buf) >= LenSize /\ Announced > MaxLen

\* recv() and read() return any number of the bytes that arrived, and are called
\* again until all are there; at the end of the stream they return 0, for ever.
Recv == /\ Reading /\ ~TooLong
        /\ \E n \in 1..Wanted :
             /\ n <= Len(wire)
             /\ buf' = buf \o SubSeq(wire, 1, n)
             /\ wire' = SubSeq(wire, n + 1, Len(wire))
        /\ UNCHANGED <<table, cleared, pc, template, ifs, received, passed, serverVars, toServer>>

\* A length above 10,000 ends the session, and so does an error of recv().
ReadFails == Ends(Reading /\ (TooLong \/ conn = "reset"))

\* The message in the buffer.  Cells of two messages make none of the protocol's.
Message == IF buf = Cells(buf[1].msg) THEN buf[1].msg ELSE [type |-> "GARBLED"]

\* A whole message of one of the types; the router is then at p and frees it.
Take(types, p) == /\ Reading /\ Len(buf) >= LenSize /\ Wanted = 0
                  /\ Message.type \in types
                  /\ received' = Append(received, Message)
                  /\ buf' = <<>>
                  /\ pc' = p

\* The server sends the other types only where the router waits for them.
Expected == IF pc = "loop" THEN {"HWINFO", "PACKET", "BANNER", "CLOSE", "GARBLED"} ELSE {pc}

Quiet == UNCHANGED <<table, cleared, template, ifs, passed, serverVars, wire>>

\* Another message than the one main() waits for; VNSCLOSE in every state.
Refuse == /\ Take({Message.type}, "ended")
          /\ Message.type = "CLOSE" \/ Message.type \notin Expected
          /\ Quiet /\ UNCHANGED toServer

\* VNSBANNER and unknown types are printed.
Show == /\ Take({"BANNER", "GARBLED"} \cap Expected, "loop")
        /\ Quiet /\ UNCHANGED toServer

\* Mutant: the reply is built and not sent.
HandleAuthRequestUnsent == /\ pc = "AUTH_REQUEST"
                           /\ Take({"AUTH_REQUEST"}, "AUTH_STATUS")
                           /\ Quiet /\ UNCHANGED toServer

\* sr_handle_auth_request(): the reply is sent, unless auth_key cannot be read
\* or the reply not be sent.
HandleAuthRequest ==
  /\ pc = "AUTH_REQUEST"
  /\ \/ /\ Take({"AUTH_REQUEST"}, "AUTH_STATUS")
        /\ toServer' = Append(toServer, [type |-> "AUTH_REPLY"])
     \/ /\ Take({"AUTH_REQUEST"}, "ended")
        /\ UNCHANGED toServer
  /\ Quiet

\* sr_handle_auth_status(), and sr_connect_to_server() then opens the topology.
HandleAuthStatus ==
  /\ pc = "AUTH_STATUS"
  /\ \/ /\ Take({"AUTH_STATUS"}, IF template THEN "RTABLE" ELSE "reloading")
        /\ Message.ok
        /\ toServer' = Append(toServer, [type |-> IF template THEN "OPEN_TEMPLATE" ELSE "OPEN"])
     \/ /\ Take({"AUTH_STATUS"}, "ended")
        /\ ~Message.ok \/ Lost
        /\ UNCHANGED toServer
  /\ Quiet

\* sr_handle_rtable(): the file is written, or cannot be.
HandleRtable == /\ pc = "RTABLE"
                /\ \E p \in {"reloading", "ended"} : Take({"RTABLE"}, p)
                /\ Quiet /\ UNCHANGED toServer

\* VNSHWINFO: the interfaces, and the check of the routing table against them.
ReadHwinfo ==
  /\ pc = "loop"
  /\ Take({"HWINFO"}, IF Verified(HandleHwinfo(ifs, Message), table) THEN "loop" ELSE "ended")
  /\ ifs' = HandleHwinfo(ifs, Message)
  /\ UNCHANGED <<table, cleared, template, passed, serverVars, wire, toServer>>
-----------------------------------------------------------------------------
(* VNSPACKET                                                               *)

Exists(m) == Named(ifs, m.iface) # {}

\* sr_arp_req_not_for_us(): a request for another address than the interface's.
\* It asserts that the interface exists, unless the packet is shorter.
NotForUs(m) == m.size # "short" /\ m.asks # None /\ m.asks # GetInterface(ifs, m.iface).ip

Aborts(m) == m.size # "short" /\ ~Exists(m)

\* Mutant: an interface that does not exist matches every source.
AddrsMatchAny(n, mac) == Named(ifs, n) # {} => GetInterface(ifs, n).mac = mac

\* sr_ether_addrs_match_interface(): the interface exists and the source is its own.
AddrsMatch(n, mac) == Named(ifs, n) # {} /\ GetInterface(ifs, n).mac = mac

\* sr_send_packet(), on any interface with any source address.
SendPacket == \E n \in Ifaces, i \in DOMAIN ifs :
                /\ AddrsMatch(n, ifs[i].mac)
                /\ toServer' = Append(toServer, [type |-> "PACKET", iface |-> n, mac |-> ifs[i].mac])

\* A packet that is not another's goes to sr_handlepacket(), which may send one.
ReadPacket ==
  /\ pc = "loop"
  /\ \/ /\ Take({"PACKET"}, "aborted")
        /\ Aborts(Message)
        /\ UNCHANGED <<passed, toServer>>
     \/ /\ Take({"PACKET"}, "loop")
        /\ ~Aborts(Message) /\ NotForUs(Message)
        /\ UNCHANGED <<passed, toServer>>
     \/ /\ Take({"PACKET"}, "loop")
        /\ ~Aborts(Message) /\ ~NotForUs(Message)
        /\ passed' = passed \cup {Message}
        /\ SendPacket \/ UNCHANGED toServer
  /\ UNCHANGED <<table, cleared, template, ifs, serverVars, wire>>

Router == \/ ReadLine \/ ReadsAll \/ LoadFails \/ ConnectFails \/ Connect
          \/ Recv \/ ReadFails \/ Refuse \/ Show
          \/ HandleAuthRequest \/ HandleAuthStatus \/ HandleRtable \/ ReadHwinfo \/ ReadPacket
-----------------------------------------------------------------------------
(* The server's reactor thread                                             *)

ToRouter(ms) == /\ Send(ms)
                /\ UNCHANGED <<table, cleared, routerVars, interfaces, ports>>

\* _handle_new_client(): the client is listed first,
ListClient == /\ conn = "waiting"
              /\ conn' = "listed"
              /\ ToRouter(<<>>) /\ UNCHANGED <<early, toServer>>

\* and then asked to authenticate.
AskClient == /\ conn = "listed"
             /\ conn' = "asked"
             /\ ToRouter(<<[type |-> "AUTH_REQUEST"]>>) /\ UNCHANGED <<early, toServer>>

\* _handle_recv_msg(): the next message, of one type.
Demux(type) == /\ conn = "asked" /\ toServer # <<>> /\ Head(toServer).type = type
               /\ toServer' = Tail(toServer)
               /\ UNCHANGED conn

\* _handle_auth_reply(): always authenticated; a server of templates may refuse.
RecvAuthReply == /\ Demux("AUTH_REPLY")
                 /\ \E ok \in IF template THEN BOOLEAN ELSE {TRUE} : ToRouter(<<AuthStatus(ok)>>)
                 /\ UNCHANGED early

\* _handle_open_msg(): nothing is sent before the interfaces are known.
RecvOpen == /\ Demux("OPEN")
            /\ ToRouter(IF interfaces = None THEN <<>> ELSE <<HardwareInfo(interfaces)>>)
            /\ early' = (interfaces = None)

\* The server of templates: the new routing table and the hardware.
RecvOpenTemplate == /\ Demux("OPEN_TEMPLATE") /\ interfaces # None
                    /\ ToRouter(<<[type |-> "RTABLE"], HardwareInfo(interfaces)>>)
                    /\ UNCHANGED early

\* _handle_packet_msg(): the packet goes out through the port of its interface.
RecvPacket == /\ Demux("PACKET")
              /\ ToRouter(<<>>) /\ UNCHANGED early

\* The server of templates may show a text (once, a bound), and close the session.
Banner == /\ template /\ conn = "asked"
          /\ \A i \in DOMAIN sent : sent[i].type # "BANNER"
          /\ ToRouter(<<[type |-> "BANNER"]>>) /\ UNCHANGED <<conn, early, toServer>>

Close == /\ template /\ conn = "asked"
         /\ conn' = "closed"
         /\ ToRouter(<<[type |-> "CLOSE"]>>) /\ UNCHANGED <<early, toServer>>

Reactor == ListClient \/ AskClient \/ RecvAuthReply \/ RecvOpen \/ RecvOpenTemplate \/ RecvPacket
-----------------------------------------------------------------------------
(* The server's POX thread                                                 *)

\* _handle_RouterInfo(): a switch came up; ports only ever grow.  (Bound: not once
\* the connection is lost, when it makes no difference to the router.)
RouterInfo == /\ ~Lost
              /\ \E info \in Infos \ {interfaces} :
                   /\ interfaces' = info
                   /\ ports' = ports \cup {info[i].name : i \in DOMAIN info}
              /\ UNCHANGED <<table, cleared, routerVars, conn, sent, early, wire, toServer>>

\* _handle_SRPacketIn(): a packet at a port with a name is broadcast to the
\* clients listed, whether they are authenticated and know their interfaces or not.
PacketIn == /\ conn \in {"listed", "asked"}
            /\ Len(SelectSeq(sent, LAMBDA m : m.type = "PACKET")) < MaxPackets
            /\ \E m \in Packets : m.iface \in ports /\ ToRouter(<<m>>)
            /\ UNCHANGED <<conn, early, toServer>>

\* The connection breaks: what was not yet read may be lost.
ConnectionBreaks == /\ conn \in {"listed", "asked"}
                    /\ conn' \in {"closed", "reset"}
                    /\ \E n \in 0..Len(wire) : wire' = SubSeq(wire, 1, n)
                    /\ UNCHANGED <<table, cleared, routerVars, interfaces, ports, sent, early, toServer>>

SessionNext == \/ Router \/ Reactor
               \/ RouterInfo \/ PacketIn \/ Banner \/ Close
               \/ ConnectionBreaks

\* The router and the server's reactor run on; packets need not arrive.
SessionSpec == /\ SessionInit /\ [][SessionNext]_sessionVars
               /\ WF_sessionVars(Router) /\ WF_sessionVars(Reactor)
-----------------------------------------------------------------------------
(* Properties                                                              *)

\* However recv() cuts the stream, the router reads the messages the server
\* sent, each whole and in their order.
ReceivedInOrder == IsPrefix(received, sent)

\* Every route leads to an interface the router has.
RoutesLead == \A i \in DOMAIN table : Named(ifs, table[i].iface) # {}

\* A packet long enough for an ARP header reaches sr_handlepacket() only at a
\* router that has the interface it came by and those of all its routes, although
\* the server broadcasts packets to routers that have no interfaces yet.
PassedWhenReady ==
  [][\A m \in passed' \ passed : m.size # "short" => Exists(m) /\ RoutesLead]_sessionVars

\* An interface of the router has the addresses the server announced for the name.
InterfacesAnnounced ==
  \A i \in DOMAIN ifs :
    \E m \in Range(received) :
      /\ m.type = "HWINFO"
      /\ \E info \in Infos : HardwareInfo(info) = m /\ GetInterface(ifs, ifs[i].name) \in Range(info)

\* The server has a port for every interface the router sends a packet by: its
\* handler, which logs a port it has not looked up otherwise, never fails.
SentByKnownPort ==
  \A i \in DOMAIN toServer : toServer[i].type = "PACKET" => toServer[i].iface \in ports

\* The session loads its table as SrRouteLookup says.
LoadsTable == Spec

\* A session comes to rest: the router stopped, or it read all that was sent and
\* knows its interfaces.  It waits for them for ever when it opened the topology
\* before the switch came up, and reads the end of the stream for ever when the
\* server closed the connection without VNSCLOSE.
Settled == \/ pc \in {"ended", "aborted"}
           \/ pc = "loop" /\ received = sent /\ (ifs # <<>> \/ early)
           \/ conn = "closed" /\ wire = <<>>

SessionSettles == <>[](Settled \/ (template /\ interfaces = None))
=============================================================================

------------------------------ MODULE SrRouter ------------------------------
(***************************************************************************)
(* The router of proj3Router: sr_handlepacket() on the thread that reads   *)
(* from the server, the ARP cache with its queue of requests, and the      *)
(* thread that wakes up once a second to expire entries and to resend or   *)
(* give up requests.  The mutex of the cache covers each of its functions  *)
(* and the whole of a wake-up, so those are the atomic steps; the reading  *)
(* thread is interrupted between them.                                     *)
(***************************************************************************)
EXTENDS Integers, Sequences, FiniteSets

CONSTANTS
  Slots,      \* SR_ARPCACHE_SZ
  Lifetime,   \* SR_ARPCACHE_TO, in seconds
  MaxSent,    \* an ARP request is sent this often before it is given up
  Ifaces,     \* the interfaces
  Hops,       \* next-hop addresses
  Macs,       \* the Ethernet addresses of the hosts around
  Packets,    \* the IP packets that arrive
  Header,     \* Header[p]: what sr_handlepacket() reads of p
  RouteOf     \* RouteOf[d]: sr_rtentry_for_ip() for the routed destinations d

\* What the router does with p, besides routing it: proto is that of a packet
\* for one of the router's own addresses.
Headers == [in : Ifaces, src : Macs, dst : DOMAIN RouteOf \cup {"own", "unknown"},
            ttl : 0..255, proto : {"echo", "icmp", "other"}]

ASSUME RouterAssumption ==
  /\ Slots \in Nat \ {0} /\ Lifetime \in Nat /\ MaxSent \in Nat
  /\ Header \in [Packets -> Headers]
  /\ RouteOf \in [DOMAIN RouteOf -> [hop : Hops, iface : Ifaces]]

VARIABLES
  entries,    \* entries[i]: the i-th entry of the cache; Free when not valid
  requests,   \* the ARP requests on the list; their order decides nothing
  main,       \* what the reading thread is doing
  unseen,     \* packets that have not arrived yet
  frames,     \* what was sent on behalf of a packet
  answers,    \* answers[p]: how many frames ended p's way, two standing for more
  announced   \* announced[<<h, m>>]: seconds since h's last ARP reply with m, capped,
              \* or Never

vars == <<entries, requests, main, unseen, frames, answers, announced>>

Free == [ip |-> "none", mac |-> "none", age |-> 0]
Idle == [pc |-> "idle"]
MinOf(x, y) == IF x < y THEN x ELSE y
Never == Lifetime + 2

\* "our" is any address of the router's own interfaces.
Frame == [kind : {"forward", "echo_reply", "time_exceeded", "net_unreachable",
                  "port_unreachable", "host_unreachable"},
          pkt : Packets, iface : Ifaces, dmac : Macs \cup {"our"}, ttl : 0..255]

Init == /\ entries = [i \in 1..Slots |-> Free]
        /\ requests = {}
        /\ main = Idle
        /\ unseen = Packets
        /\ frames = {}
        /\ answers = [p \in Packets |-> 0]
        /\ announced = [x \in Hops \X Macs |-> Never]

\* p's way ends with a frame.
Answer(fs) ==
  /\ frames' = frames \cup fs
  /\ answers' = [p \in Packets |->
                   MinOf(2, answers[p] + Cardinality({f \in fs : f.pkt = p}))]

Hop(p) == RouteOf[Header[p].dst].hop
OutIface(p) == RouteOf[Header[p].dst].iface

\* ip_ttl -= 1 on an unsigned byte.
TtlLeft(p) == (Header[p].ttl - 1) % 256

-----------------------------------------------------------------------------
(* The cache                                                               *)

\* The last valid entry for h, if any.
Matches(h) == {i \in 1..Slots : entries[i] # Free /\ entries[i].ip = h}
Found(h) == LET i == CHOOSE i \in Matches(h) : \A j \in Matches(h) : j <= i
            IN  entries[i].mac

\* The new mapping goes into the first free entry, or nowhere.
FreeSlots == {i \in 1..Slots : entries[i] = Free}
Inserted(h, m) ==
  IF FreeSlots = {} THEN entries
  ELSE LET i == CHOOSE i \in FreeSlots : \A j \in FreeSlots : i <= j
       IN  [entries EXCEPT ![i] = [ip |-> h, mac |-> m, age |-> 0]]

\* Mutant: an entry never gets older.
AgedNever(x, d) == x

\* d seconds later: an entry older than Lifetime is invalidated.
Aged(x, d) == IF x = Free \/ x.age + d > Lifetime THEN Free ELSE [x EXCEPT !.age = @ + d]

\* Requests, the field `sent' as the seconds since then: 2 for two or more.
NewRequest(h, p) == [hop |-> h, since |-> 2, times |-> 0, packets |-> <<p>>]

\* Mutant: any request will do.
IsForAny(r, h) == TRUE

IsFor(r, h) == r.hop = h
Queued(h) == \E r \in requests : IsFor(r, h)

\* Mutant: a packet always makes a request of its own.
WithPacketAlone(h, p) == requests \cup {NewRequest(h, p)}

\* p joins the request for h, in front of its packets, or makes a new one.
WithPacket(h, p) ==
  IF Queued(h)
  THEN {IF IsFor(r, h) THEN [r EXCEPT !.packets = <<p>> \o @] ELSE r : r \in requests}
  ELSE requests \cup {NewRequest(h, p)}

\* Mutant: the answered request stays on the list.
RequestsWithoutNone(h) == requests

\* The list without the request for h, and the packets that waited on it.
RequestsWithout(h) == {r \in requests : ~IsFor(r, h)}
WaitingFor(h) ==
  IF Queued(h) THEN (CHOOSE r \in requests : IsFor(r, h)).packets ELSE <<>>

-----------------------------------------------------------------------------
(* The reading thread: sr_handlepacket()                                   *)

\* sr_send_t3_icmp(): the frame goes back to where the packet's Ethernet header
\* says it came from, through the given interface.
Icmp(kind, p, iface, shost) ==
  {[kind |-> kind, pkt |-> p, iface |-> iface, dmac |-> shost, ttl |-> 64]}

Arrives(p) == /\ main = Idle /\ p \in unseen
              /\ unseen' = unseen \ {p}

\* ICMP for the router itself, other than an echo request, is dropped.
Dropped(p) == Header[p].dst = "own" /\ Header[p].proto = "icmp"
ReceiveDropped(p) ==
  /\ Arrives(p) /\ Dropped(p)
  /\ UNCHANGED <<entries, requests, main, frames, answers, announced>>

\* An echo request is answered with the packet turned around; what is not ICMP
\* is refused.
ReceiveLocal(p) ==
  LET h == Header[p] IN
  /\ Arrives(p) /\ h.dst = "own" /\ ~Dropped(p)
  /\ Answer(IF h.proto = "echo"
            THEN {[kind |-> "echo_reply", pkt |-> p, iface |-> h.in, dmac |-> h.src,
                   ttl |-> h.ttl]}
            ELSE Icmp("port_unreachable", p, h.in, h.src))
  /\ UNCHANGED <<entries, requests, main, announced>>

\* A packet that cannot be routed: its time to live has run out, or no route.
ReceiveUnroutable(p) ==
  LET h == Header[p] IN
  /\ Arrives(p) /\ h.dst # "own"
  /\ TtlLeft(p) = 0 \/ h.dst = "unknown"
  /\ Answer(Icmp(IF TtlLeft(p) = 0 THEN "time_exceeded" ELSE "net_unreachable",
                 p, h.in, h.src))
  /\ UNCHANGED <<entries, requests, main, announced>>

\* A packet to route: sr_arpcache_lookup() returns a copy of an entry, or NULL.
ReceiveRouted(p) ==
  LET h == Header[p] IN
  /\ Arrives(p) /\ h.dst \notin {"own", "unknown"} /\ TtlLeft(p) # 0
  /\ main' = IF Matches(Hop(p)) = {} THEN [pc |-> "missed", pkt |-> p]
             ELSE [pc |-> "found", pkt |-> p, mac |-> Found(Hop(p))]
  /\ UNCHANGED <<entries, requests, frames, answers, announced>>

Forwarded(p, m) == [kind |-> "forward", pkt |-> p, iface |-> OutIface(p), dmac |-> m,
                    ttl |-> TtlLeft(p)]

\* The entry was found: the packet leaves with the address copied then.
Forward ==
  /\ main.pc = "found"
  /\ Answer({Forwarded(main.pkt, main.mac)})
  /\ main' = Idle
  /\ UNCHANGED <<entries, requests, unseen, announced>>

\* It was not: sr_arpcache_queuereq().
QueueRequest ==
  /\ main.pc = "missed"
  /\ requests' = WithPacket(Hop(main.pkt), main.pkt)
  /\ main' = Idle
  /\ UNCHANGED <<entries, unseen, frames, answers, announced>>

\* handle_arpresp(): an ARP reply, asked for or not, is cached and takes the
\* request for its address off the list...
ReceiveReply(h, m) ==
  /\ main = Idle
  /\ entries' = Inserted(h, m)
  /\ requests' = RequestsWithout(h)
  /\ main' = IF Queued(h) THEN [pc |-> "answering", mac |-> m, waiting |-> WaitingFor(h)]
             ELSE Idle
  /\ announced' = [announced EXCEPT ![<<h, m>>] = 0]
  /\ UNCHANGED <<unseen, frames, answers>>

\* ... whose packets are then sent, one by one and without the lock, before the
\* request is freed.
SendWaiting ==
  /\ main.pc = "answering"
  /\ Answer({Forwarded(Head(main.waiting), main.mac)})
  /\ main' = IF Len(main.waiting) = 1 THEN Idle ELSE [main EXCEPT !.waiting = Tail(@)]
  /\ UNCHANGED <<entries, requests, unseen, announced>>

-----------------------------------------------------------------------------
(* The timeout thread: one wake-up of sr_arpcache_timeout()                *)

\* difftime(now, req->sent) > 1.0
Due(r) == r.since > 1

GivenUp(r) == Due(r) /\ r.times >= MaxSent

\* Mutant: a request that is sent again is not counted.
ResentUncounted(r) == IF Due(r) THEN [r EXCEPT !.since = 0] ELSE r

Resent(r) == IF Due(r) THEN [r EXCEPT !.since = 0, !.times = @ + 1] ELSE r

Later(r, d) == [r EXCEPT !.since = MinOf(2, @ + d)]

\* Host unreachable for a packet in the queue: line 158 of sr_router.c has put
\* the address of the outgoing interface in place of the sender's by then.
Unreachable(p) == Icmp("host_unreachable", p, OutIface(p), "our")

Elapsed(n, d) == IF n = Never THEN Never ELSE MinOf(Lifetime + 1, n + d)

\* handle_arpreq() for every request, d seconds after the last wake-up.
WakeUp(d) ==
  LET later == {Later(r, d) : r \in requests}
      over  == {r \in later : GivenUp(r)}
  IN
  /\ entries' = [i \in 1..Slots |-> Aged(entries[i], d)]
  /\ requests' = {Resent(r) : r \in later \ over}
  /\ Answer(UNION {UNION {Unreachable(r.packets[i]) : i \in DOMAIN r.packets} : r \in over})
  /\ announced' = [x \in Hops \X Macs |-> Elapsed(announced[x], d)]
  /\ UNCHANGED <<main, unseen>>

\* A sleep of one second ends in the next second, or in the one after.
Timeout == \E d \in {1, 2} : WakeUp(d)

ReceivePacket == \E p \in Packets :
  ReceiveDropped(p) \/ ReceiveLocal(p) \/ ReceiveUnroutable(p) \/ ReceiveRouted(p)

Step == Forward \/ QueueRequest \/ SendWaiting

Next == \/ ReceivePacket
        \/ Step
        \/ \E h \in Hops, m \in Macs : ReceiveReply(h, m)
        \/ Timeout

\* Both threads go on; which packets and replies arrive is up to the network.
Spec == Init /\ [][Next]_vars /\ WF_vars(Step) /\ WF_vars(Timeout)
-----------------------------------------------------------------------------
(* Properties                                                              *)

\* What a slot of the cache holds.
Entry == {Free} \cup [ip : Hops, mac : Macs, age : 0..Lifetime]

\* How often p waits: with the reading thread, or on a request.
Positions(p, s) == {i \in DOMAIN s : s[i] = p}
AtMain(p) ==
  IF main.pc \in {"missed", "found"} /\ main.pkt = p THEN 1
  ELSE IF main.pc = "answering" THEN Cardinality(Positions(p, main.waiting)) ELSE 0
OnRequests(p) ==
  Cardinality(UNION {{<<r, k>> : k \in Positions(p, r.packets)} : r \in requests})

\* A packet is in one place at a time: not yet here, held by the reading thread,
\* waiting on one request, or answered by one frame.  It is never both sent by a
\* late reply and reported unreachable, sent twice, or freed without an answer.
OnePlace == \A p \in Packets :
  AtMain(p) + OnRequests(p) + answers[p] = IF p \in unseen \/ Dropped(p) THEN 0 ELSE 1

\* One request per next hop, holding only packets routed there, so that an answer
\* to it releases them all; and it is sent no more than MaxSent times.
OneRequestPerHop ==
  /\ \A r, s \in requests : r.hop = s.hop => r = s
  /\ \A r \in requests : \A k \in DOMAIN r.packets : Hop(r.packets[k]) = r.hop
  /\ \A r \in requests : r.times <= MaxSent

\* A lookup never returns a mapping its owner has not announced within Lifetime,
\* whatever duplicates and expired entries the table holds.
FreshMac ==
  [][\A p \in Packets :
       main' # main /\ main'.pc = "found" /\ main'.pkt = p
         => announced[<<Hop(p), main'.mac>>] <= Lifetime]_vars

\* A forwarded packet, sent at once or released by a reply long after, goes to an
\* address that the next hop of its route has announced, out of the interface of
\* that route.
SentToNextHop ==
  \A f \in frames : f.kind = "forward" =>
    /\ announced[<<Hop(f.pkt), f.dmac>>] # Never
    /\ f.iface = OutIface(f.pkt)

\* A packet never waits forever: every one that arrives is sent on or reported.
Settled == \A p \in Packets : (p \notin unseen /\ ~Dropped(p)) ~> (answers[p] = 1)
=============================================================================

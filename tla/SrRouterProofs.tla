--------------------------- MODULE SrRouterProofs ---------------------------
(***************************************************************************)
(* Proofs about the router, for any number of slots, hosts, packets and    *)
(* seconds.  Every valid entry of the cache stands for an announcement at  *)
(* least as recent as the entry, so a lookup never returns a mapping older *)
(* than Lifetime; there is one request per next hop; what is forwarded     *)
(* goes to an address its next hop has announced; and every packet is in   *)
(* one place.                                                              *)
(***************************************************************************)
EXTENDS SrRouter, ListLemmas, SequenceTheorems, FiniteSetTheorems

USE RouterAssumption DEF RouterAssumption

EntriesTyped == entries \in [1..Slots -> Entry]

AnnouncedTyped == announced \in [Hops \X Macs -> 0..Never]

\* The reading thread's state is a record that says what it does.
MainHasPc == "pc" \in DOMAIN main

\* A valid entry is no younger than the last announcement of its mapping.
EntriesAnnounced ==
  \A i \in 1..Slots : entries[i] # Free =>
    announced[<<entries[i].ip, entries[i].mac>>] <= entries[i].age

\* The inductive invariant.  FreshMac speaks of the announcement and the lookup
\* of the table; EntriesAnnounced relates the two, whatever the duplicates.
IInv == /\ EntriesTyped
        /\ AnnouncedTyped
        /\ MainHasPc
        /\ EntriesAnnounced

-----------------------------------------------------------------------------
(* The table                                                               *)

\* A lookup that finds something returns the address of some entry for the hop.
LEMMA FoundIsEntry ==
  ASSUME NEW h, Matches(h) # {}
  PROVE  \E i \in 1..Slots : entries[i] # Free /\ entries[i].ip = h /\ entries[i].mac = Found(h)
<1>1. Matches(h) \in SUBSET (1..Slots)
  BY DEF Matches
<1>2. \E i \in Matches(h) : \A j \in Matches(h) : j <= i
  BY <1>1, LargestOf, Zenon
<1>3. \E i \in Matches(h) : entries[i].mac = Found(h)
  BY <1>2, Zenon DEF Found
<1> QED
  BY <1>3 DEF Matches

\* Inserting a mapping keeps the others; the slot it takes, if any, holds it.
LEMMA InsertedEntry ==
  ASSUME EntriesTyped, NEW h \in Hops, NEW m \in Macs, NEW i \in 1..Slots
  PROVE  /\ Inserted(h, m) \in [1..Slots -> Entry]
         /\ \/ Inserted(h, m)[i] = entries[i]
            \/ Inserted(h, m)[i] = [ip |-> h, mac |-> m, age |-> 0]
<1> DEFINE new == [ip |-> h, mac |-> m, age |-> 0]
<1>1. new \in Entry
  BY DEF Entry
<1> HIDE DEF new
<1>2. \A k : [entries EXCEPT ![k] = new] \in [1..Slots -> Entry]
  BY <1>1 DEF EntriesTyped
<1>3. \A k : [entries EXCEPT ![k] = new][i] \in {entries[i], new}
  BY DEF EntriesTyped
<1>4. \/ Inserted(h, m) = entries
      \/ \E k : Inserted(h, m) = [entries EXCEPT ![k] = new]
  BY Zenon DEF Inserted, new
<1> QED
  BY <1>2, <1>3, <1>4 DEF EntriesTyped, new

\* An entry that gets older either expires or keeps its mapping, d seconds older.
LEMMA AgedEntry ==
  ASSUME NEW x \in Entry, NEW d \in {1, 2}
  PROVE  /\ Aged(x, d) \in Entry
         /\ Aged(x, d) # Free =>
              /\ x # Free
              /\ Aged(x, d).ip = x.ip /\ Aged(x, d).mac = x.mac
              /\ Aged(x, d).age = x.age + d
<1>1. CASE x = Free
  BY <1>1 DEF Aged, Entry
<1>2. CASE x \in [ip : Hops, mac : Macs, age : 0..Lifetime]
  BY <1>2 DEF Aged, Entry
<1> QED
  BY <1>1, <1>2 DEF Entry

\* What a valid entry of the table holds.
LEMMA ValidEntry ==
  ASSUME EntriesTyped, NEW i \in 1..Slots, entries[i] # Free
  PROVE  /\ entries[i].ip \in Hops /\ entries[i].mac \in Macs
         /\ entries[i].age \in 0..Lifetime
         /\ <<entries[i].ip, entries[i].mac>> \in Hops \X Macs
  BY DEF EntriesTyped, Entry

-----------------------------------------------------------------------------
(* The invariant                                                           *)

\* Initially the table is empty and nothing has been announced.
LEMMA InitInvariant == Init => IInv
<1> SUFFICES ASSUME Init PROVE IInv
  OBVIOUS
<1>1. EntriesTyped
  BY DEF Init, EntriesTyped, Entry
<1>2. AnnouncedTyped
  BY DEF Init, AnnouncedTyped, Never
<1>3. MainHasPc
  BY DEF Init, MainHasPc, Idle
<1>4. EntriesAnnounced
  BY DEF Init, EntriesAnnounced
<1> QED
  BY <1>1, <1>2, <1>3, <1>4 DEF IInv

\* A reply announces its mapping now, and the entry it may make is as young.
LEMMA ReplyInvariant ==
  ASSUME IInv, NEW h \in Hops, NEW m \in Macs, ReceiveReply(h, m)
  PROVE  IInv'
<1> USE DEF IInv
<1>1. EntriesTyped'
  <2>1. 1 \in 1..Slots
    OBVIOUS
  <2> QED
    BY <2>1, InsertedEntry DEF ReceiveReply, EntriesTyped
<1>2. AnnouncedTyped'
  BY DEF ReceiveReply, AnnouncedTyped, Never
<1>3. MainHasPc'
  BY DEF ReceiveReply, MainHasPc, Idle
<1>4. EntriesAnnounced'
  <2> SUFFICES ASSUME NEW i \in 1..Slots, entries'[i] # Free
               PROVE  announced'[<<entries'[i].ip, entries'[i].mac>>] <= entries'[i].age
    BY DEF EntriesAnnounced
  <2>1. announced'[<<h, m>>] = 0
    BY DEF ReceiveReply, AnnouncedTyped, Never
  <2>2. \A x \in Hops \X Macs : announced'[x] <= announced[x]
    BY DEF ReceiveReply, AnnouncedTyped, Never
  <2>3. \A x \in Hops \X Macs : announced[x] \in Nat /\ announced'[x] \in Nat
    BY <1>2 DEF AnnouncedTyped
  <2>4. entries'[i] = entries[i] \/ entries'[i] = [ip |-> h, mac |-> m, age |-> 0]
    BY InsertedEntry DEF ReceiveReply
  <2>5. CASE entries'[i] = entries[i]
    <3>1. announced[<<entries[i].ip, entries[i].mac>>] <= entries[i].age
      BY <2>5 DEF EntriesAnnounced
    <3>2. <<entries[i].ip, entries[i].mac>> \in Hops \X Macs /\ entries[i].age \in Nat
      BY <2>5, ValidEntry
    <3> QED
      BY <2>2, <2>3, <2>5, <3>1, <3>2
  <2>6. CASE entries'[i] = [ip |-> h, mac |-> m, age |-> 0]
    BY <2>1, <2>6
  <2> QED
    BY <2>4, <2>5, <2>6
<1> QED
  BY <1>1, <1>2, <1>3, <1>4

\* d seconds later, entries and announcements are d seconds older; what expires
\* is an entry.
LEMMA WakeUpInvariant ==
  ASSUME IInv, NEW d \in {1, 2}, WakeUp(d)
  PROVE  IInv'
<1> USE DEF IInv
<1>a. entries' = [i \in 1..Slots |-> Aged(entries[i], d)]
  BY DEF WakeUp
<1>b. announced' = [x \in Hops \X Macs |-> Elapsed(announced[x], d)]
  BY DEF WakeUp
<1>1. EntriesTyped'
  <2>1. \A i \in 1..Slots : Aged(entries[i], d) \in Entry
    BY AgedEntry DEF EntriesTyped
  <2> QED
    BY <1>a, <2>1 DEF EntriesTyped
<1>2. AnnouncedTyped'
  BY <1>b DEF AnnouncedTyped, Elapsed, Never, MinOf
<1>3. MainHasPc'
  BY DEF WakeUp, MainHasPc
<1>4. EntriesAnnounced'
  <2> SUFFICES ASSUME NEW i \in 1..Slots, entries'[i] # Free
               PROVE  announced'[<<entries'[i].ip, entries'[i].mac>>] <= entries'[i].age
    BY DEF EntriesAnnounced
  <2>1. entries[i] \in Entry /\ entries'[i] = Aged(entries[i], d)
    BY <1>a DEF EntriesTyped
  <2>2. /\ entries[i] # Free
        /\ entries'[i].ip = entries[i].ip /\ entries'[i].mac = entries[i].mac
        /\ entries'[i].age = entries[i].age + d
    BY <2>1, AgedEntry
  <2> DEFINE x == <<entries[i].ip, entries[i].mac>>
  <2>3. x \in Hops \X Macs /\ entries[i].age \in Nat
    BY <2>2, ValidEntry
  <2>4. announced[x] <= entries[i].age
    BY <2>2 DEF EntriesAnnounced
  <2> HIDE DEF x
  <2>5. announced[x] \in Nat /\ announced'[x] = Elapsed(announced[x], d)
    BY <1>b, <2>3 DEF AnnouncedTyped
  <2>6. announced'[x] <= entries[i].age + d
    BY <2>3, <2>4, <2>5 DEF Elapsed, Never, MinOf
  <2> QED
    BY <2>2, <2>6 DEF x
<1> QED
  BY <1>1, <1>2, <1>3, <1>4

\* Every other step leaves the table and the announcements alone.
LEMMA OtherStepInvariant ==
  ASSUME IInv, ReceivePacket \/ Step
  PROVE  IInv'
<1>1. UNCHANGED <<entries, announced>>
  BY DEF ReceivePacket, ReceiveDropped, ReceiveLocal, ReceiveUnroutable, ReceiveRouted,
         Step, Forward, QueueRequest, SendWaiting
<1>2. MainHasPc'
  <2>1. CASE ReceivePacket
    BY <2>1 DEF ReceivePacket, ReceiveDropped, ReceiveLocal, ReceiveUnroutable,
                ReceiveRouted, IInv, MainHasPc
  <2>2. CASE Step
    BY <2>2 DEF Step, Forward, QueueRequest, SendWaiting, IInv, MainHasPc, Idle
  <2> QED
    BY <2>1, <2>2
<1> QED
  BY <1>1, <1>2 DEF IInv, EntriesTyped, AnnouncedTyped, EntriesAnnounced

\* Every step keeps the invariant.
LEMMA StepInvariant == IInv /\ [Next]_vars => IInv'
<1> SUFFICES ASSUME IInv, [Next]_vars PROVE IInv'
  OBVIOUS
<1>1. CASE ReceivePacket \/ Step
  BY <1>1, OtherStepInvariant
<1>2. ASSUME NEW h \in Hops, NEW m \in Macs, ReceiveReply(h, m)
      PROVE  IInv'
  BY <1>2, ReplyInvariant
<1>3. ASSUME NEW d \in {1, 2}, WakeUp(d)
      PROVE  IInv'
  BY <1>3, WakeUpInvariant
<1>4. CASE UNCHANGED vars
  BY <1>4 DEF vars, IInv, EntriesTyped, AnnouncedTyped, MainHasPc, EntriesAnnounced
<1> QED
  BY <1>1, <1>2, <1>3, <1>4 DEF Next, Timeout

-----------------------------------------------------------------------------
(* Theorems                                                                *)

\* The cache's entries are backed by announcements, always.
THEOREM CacheInvariant == Spec => []IInv
  BY InitInvariant, StepInvariant, PTL DEF Spec

\* What a lookup hands to sr_handlepacket() is the address of an entry.
LEMMA LookupFinds ==
  ASSUME IInv, [Next]_vars, NEW p \in Packets,
         main' # main, main'.pc = "found", main'.pkt = p
  PROVE  \E i \in 1..Slots :
           entries[i] # Free /\ entries[i].ip = Hop(p) /\ entries[i].mac = main'.mac
<1>1. ReceivePacket \/ Step \/ (\E h \in Hops, m \in Macs : ReceiveReply(h, m))
  BY DEF Next, Timeout, WakeUp, vars
<1>2. ~Step
  BY DEF Step, Forward, QueueRequest, SendWaiting, IInv, MainHasPc, Idle
<1>3. \A h \in Hops, m \in Macs : ~ReceiveReply(h, m)
  BY DEF ReceiveReply, Idle
<1>4. PICK q \in Packets : ReceiveRouted(q)
  BY <1>1, <1>2, <1>3 DEF ReceivePacket, ReceiveDropped, ReceiveLocal, ReceiveUnroutable
<1>5. Matches(Hop(q)) # {} /\ main' = [pc |-> "found", pkt |-> q, mac |-> Found(Hop(q))]
  BY <1>4 DEF ReceiveRouted
<1>6. q = p /\ main'.mac = Found(Hop(p))
  BY <1>5
<1> QED
  BY <1>5, <1>6, FoundIsEntry, Zenon

\* sr_arpcache_lookup() never hands out a mapping its owner has not announced
\* within SR_ARPCACHE_TO seconds.
THEOREM RouterFreshMac == Spec => FreshMac
<1> DEFINE A == \A p \in Packets :
                  main' # main /\ main'.pc = "found" /\ main'.pkt = p
                    => announced[<<Hop(p), main'.mac>>] <= Lifetime
<1>1. ASSUME IInv, [Next]_vars PROVE A
  <2> SUFFICES ASSUME NEW p \in Packets,
                      main' # main, main'.pc = "found", main'.pkt = p
               PROVE  announced[<<Hop(p), main'.mac>>] <= Lifetime
    BY Zenon
  <2>1. PICK i \in 1..Slots :
          entries[i] # Free /\ entries[i].ip = Hop(p) /\ entries[i].mac = main'.mac
    BY <1>1, LookupFinds, Zenon
  <2>2. /\ <<Hop(p), main'.mac>> \in Hops \X Macs /\ entries[i].age \in 0..Lifetime
        /\ announced[<<Hop(p), main'.mac>>] <= entries[i].age
    BY <1>1, <2>1, ValidEntry DEF IInv, EntriesAnnounced
  <2> HIDE DEF A
  <2>3. announced[<<Hop(p), main'.mac>>] \in Nat
    BY <1>1, <2>2 DEF IInv, AnnouncedTyped
  <2> QED
    BY <2>2, <2>3
<1> HIDE DEF A
<1>2. Spec => [][A]_vars
  BY <1>1, CacheInvariant, PTL DEF Spec
<1> QED
  BY <1>2 DEF FreshMac, A

-----------------------------------------------------------------------------
(* The requests and the frames                                             *)

\* The packets that a route leads somewhere.
Routed == {p \in Packets : Header[p].dst \in DOMAIN RouteOf}

Request == [hop : Hops, since : 0..2, times : Nat, packets : Seq(Routed) \ {<<>>}]

\* A list of requests on which OneRequestPerHop holds.
WellFormed(R) ==
  /\ R \subseteq Request
  /\ \A r, s \in R : r.hop = s.hop => r = s
  /\ \A r \in R : \A k \in DOMAIN r.packets : Hop(r.packets[k]) = r.hop
  /\ \A r \in R : r.times <= MaxSent

MainTyped ==
  main \in {Idle} \cup [pc : {"missed"}, pkt : Routed]
          \cup [pc : {"found"}, pkt : Routed, mac : Macs]
          \cup [pc : {"answering"}, mac : Macs, waiting : Seq(Routed) \ {<<>>}]

\* h has announced m, however long ago.
HasAnnounced(h, m) == h \in Hops /\ m \in Macs /\ announced[<<h, m>>] # Never

\* The address the reading thread is about to use is the next hop's, although it
\* was copied from the table or from a reply under a lock released since.
MainRouted ==
  /\ main.pc = "found" => HasAnnounced(Hop(main.pkt), main.mac)
  /\ main.pc = "answering" =>
       \A k \in DOMAIN main.waiting : HasAnnounced(Hop(main.waiting[k]), main.mac)

FramesRouted ==
  \A f \in frames : f.kind = "forward" =>
    HasAnnounced(Hop(f.pkt), f.dmac) /\ f.iface = OutIface(f.pkt)

\* The inductive invariant of the two properties of packets: a forwarded frame
\* is traced back through the reading thread to an entry or a request.
RInv == /\ IInv
        /\ WellFormed(requests)
        /\ MainTyped
        /\ MainRouted
        /\ FramesRouted

\* A routed packet has its next hop among Hops.
LEMMA RoutedHop == ASSUME NEW p \in Routed PROVE p \in Packets /\ Hop(p) \in Hops
  BY DEF Routed, Hop

\* A request list stays well formed when a packet joins the request of its hop.
LEMMA WithPacketWellFormed ==
  ASSUME WellFormed(requests), NEW p \in Routed
  PROVE  WellFormed(WithPacket(Hop(p), p))
<1>0. Hop(p) \in Hops
  BY RoutedHop
<1>1. CASE ~Queued(Hop(p))
  <2> DEFINE n == NewRequest(Hop(p), p)
  <2>1. n \in Request /\ n.hop = Hop(p) /\ n.times = 0 /\ n.packets = <<p>>
    BY <1>0 DEF NewRequest, Request
  <2>2. \A r \in requests : r.hop # n.hop
    BY <1>1, <2>1 DEF Queued, IsFor
  <2>3. \A k \in DOMAIN n.packets : Hop(n.packets[k]) = n.hop
    BY <2>1
  <2>4. WithPacket(Hop(p), p) = requests \cup {n}
    BY <1>1 DEF WithPacket
  <2> HIDE DEF n
  <2> QED
    BY <2>1, <2>2, <2>3, <2>4 DEF WellFormed
<1>2. CASE Queued(Hop(p))
  <2> DEFINE j(r) == IF IsFor(r, Hop(p)) THEN [r EXCEPT !.packets = <<p>> \o @] ELSE r
  <2>1. ASSUME NEW r \in requests
        PROVE  /\ j(r) \in Request /\ j(r).hop = r.hop /\ j(r).times = r.times
               /\ \A k \in DOMAIN j(r).packets : Hop(j(r).packets[k]) = r.hop
    <3>1. r \in Request /\ \A k \in DOMAIN r.packets : Hop(r.packets[k]) = r.hop
      BY DEF WellFormed
    <3>2. CASE IsFor(r, Hop(p))
      <4> DEFINE q == <<p>> \o r.packets
      <4>1. r.packets \in Seq(Routed)
        BY <3>1 DEF Request
      <4>2. q \in Seq(Routed) /\ DOMAIN q = 1..(Len(r.packets) + 1)
        BY <4>1
      <4>3. q # <<>> /\ \A k \in DOMAIN q : Hop(q[k]) = r.hop
        <5>1. q[1] = p
          BY <4>1
        <5>2. \A k \in DOMAIN q : k # 1 =>
                k - 1 \in DOMAIN r.packets /\ q[k] = r.packets[k - 1]
          BY <4>1
        <5>3. Len(q) = Len(r.packets) + 1 /\ Len(r.packets) \in Nat
          BY <4>1
        <5> HIDE DEF q
        <5>4. q # <<>>
          BY <5>3, EmptySeq
        <5> QED
          BY <3>1, <3>2, <5>1, <5>2, <5>4 DEF IsFor
      <4>4. j(r) = [r EXCEPT !.packets = q]
        BY <3>2
      <4> HIDE DEF q, j
      <4> QED
        BY <3>1, <4>2, <4>3, <4>4 DEF Request
    <3>3. CASE ~IsFor(r, Hop(p))
      BY <3>1, <3>3
    <3> QED
      BY <3>2, <3>3
  <2>2. WithPacket(Hop(p), p) = {j(r) : r \in requests}
    BY <1>2, Zenon DEF WithPacket
  <2> HIDE DEF j
  <2> QED
    BY <2>1, <2>2 DEF WellFormed
<1> QED
  BY <1>1, <1>2

\* A wake-up counts and drops requests; those it keeps keep hop and packets.
LEMMA WakeUpWellFormed ==
  ASSUME WellFormed(requests), NEW d \in {1, 2}, WakeUp(d)
  PROVE  WellFormed(requests')
<1> DEFINE later == {Later(r, d) : r \in requests}
           over  == {r \in later : GivenUp(r)}
<1>1. WellFormed(later)
  <2>1. ASSUME NEW r \in requests
        PROVE  /\ Later(r, d) \in Request /\ Later(r, d).hop = r.hop
               /\ Later(r, d).times = r.times /\ Later(r, d).packets = r.packets
    <3>1. r \in Request
      BY DEF WellFormed
    <3> QED
      BY <3>1 DEF Request, Later, MinOf
  <2> QED
    BY <2>1 DEF WellFormed
<1>2. requests' = {Resent(r) : r \in later \ over}
  BY DEF WakeUp
<1>3. ASSUME NEW r \in later \ over
      PROVE  /\ Resent(r) \in Request /\ Resent(r).hop = r.hop
             /\ Resent(r).times <= MaxSent /\ Resent(r).packets = r.packets
  <2>1. r \in Request /\ r.times <= MaxSent /\ ~GivenUp(r)
    BY <1>1 DEF WellFormed
  <2>2. CASE Due(r)
    <3>1. r.times \in Nat /\ r.times < MaxSent
      BY <2>1, <2>2 DEF Request, GivenUp
    <3> DEFINE s == [r EXCEPT !.since = 0]
    <3>2. s \in Request /\ s.hop = r.hop /\ s.times = r.times /\ s.packets = r.packets
      BY <2>1 DEF Request
    <3>3. Resent(r) = [s EXCEPT !.times = r.times + 1]
      BY <2>2, <3>2 DEF Resent
    <3> HIDE DEF s
    <3> QED
      BY <3>1, <3>2, <3>3 DEF Request
  <2>3. CASE ~Due(r)
    BY <2>1, <2>3 DEF Resent
  <2> QED
    BY <2>2, <2>3
<1> HIDE DEF later, over
<1> QED
  BY <1>1, <1>2, <1>3 DEF WellFormed

\* A request holds a packet from the start.
LEMMA WaitingSome ==
  ASSUME WellFormed(requests), NEW h, Queued(h)
  PROVE  WaitingFor(h) # <<>>
<1>1. PICK r \in requests : WaitingFor(h) = r.packets
  BY Zenon DEF Queued, WaitingFor
<1> QED
  BY <1>1 DEF WellFormed, Request

\* What waits for h is routed by way of h.
LEMMA WaitingRouted ==
  ASSUME WellFormed(requests), NEW h, Queued(h)
  PROVE  /\ WaitingFor(h) \in Seq(Routed)
         /\ \A k \in DOMAIN WaitingFor(h) : Hop(WaitingFor(h)[k]) = h
<1>1. PICK r \in requests : IsFor(r, h) /\ WaitingFor(h) = r.packets
  BY Zenon DEF Queued, WaitingFor
<1> QED
  BY <1>1 DEF WellFormed, Request, IsFor

\* What was announced stays announced, for each step but a reply's mapping, which
\* is announced by it.
LEMMA AnnouncementsStay ==
  ASSUME IInv, [Next]_vars
  PROVE  \A h, m : HasAnnounced(h, m) => HasAnnounced(h, m)'
<1>1. CASE UNCHANGED announced
  BY <1>1 DEF HasAnnounced
<1>2. ASSUME NEW h \in Hops, NEW m \in Macs, ReceiveReply(h, m)
      PROVE  \A x \in Hops \X Macs : announced'[x] = announced[x] \/ announced'[x] = 0
  BY <1>2 DEF ReceiveReply, IInv, AnnouncedTyped
<1>3. ASSUME NEW d \in {1, 2}, WakeUp(d)
      PROVE  \A x \in Hops \X Macs : announced[x] # Never => announced'[x] # Never
  BY <1>3 DEF WakeUp, Elapsed, Never, MinOf, IInv, AnnouncedTyped
<1>4. \/ UNCHANGED announced
      \/ \E h \in Hops, m \in Macs : ReceiveReply(h, m)
      \/ \E d \in {1, 2} : WakeUp(d)
  BY DEF Next, ReceivePacket, ReceiveDropped, ReceiveLocal, ReceiveUnroutable,
         ReceiveRouted, Step, Forward, QueueRequest, SendWaiting, Timeout, vars
<1>5. 0 # Never
  BY DEF Never
<1> QED
  BY <1>1, <1>2, <1>3, <1>4, <1>5 DEF HasAnnounced

\* Frames that are no forwarded packets, or none, keep FramesRouted.
LEMMA OtherFrames ==
  ASSUME IInv, [Next]_vars, FramesRouted,
         \A f \in frames' : f \in frames \/ f.kind # "forward"
  PROVE  FramesRouted'
  BY AnnouncementsStay DEF FramesRouted, OutIface, Hop

\* A packet forwarded as the reading thread's state says keeps FramesRouted.
LEMMA ForwardedFrame ==
  ASSUME IInv, [Next]_vars, FramesRouted, NEW p \in Packets, NEW m \in Macs,
         HasAnnounced(Hop(p), m), Answer({Forwarded(p, m)})
  PROVE  FramesRouted'
<1>1. frames' = frames \cup {Forwarded(p, m)}
  BY DEF Answer
<1>2. /\ Forwarded(p, m).pkt = p /\ Forwarded(p, m).dmac = m
      /\ Forwarded(p, m).iface = OutIface(p)
  BY DEF Forwarded
<1>3. \A f \in frames' : f.kind = "forward" =>
        HasAnnounced(Hop(f.pkt), f.dmac) /\ f.iface = OutIface(f.pkt)
  BY <1>1, <1>2, Zenon DEF FramesRouted
<1> QED
  BY <1>3, AnnouncementsStay DEF FramesRouted, OutIface, Hop

\* Receiving an IP packet: it is answered at once, dropped, or looked up; an entry
\* that a lookup finds was announced.
LEMMA ReceiveRInv ==
  ASSUME RInv, ReceivePacket
  PROVE  RInv'
<1>0. IInv' /\ [Next]_vars
  BY StepInvariant DEF RInv, Next
<1>1. WellFormed(requests)'
  <2>1. UNCHANGED requests
    BY DEF ReceivePacket, ReceiveDropped, ReceiveLocal, ReceiveUnroutable, ReceiveRouted
  <2> QED
    BY <2>1 DEF RInv
<1>2. \A f \in frames' : f \in frames \/ f.kind # "forward"
  BY DEF ReceivePacket, ReceiveDropped, ReceiveLocal, ReceiveUnroutable, ReceiveRouted,
         Answer, Icmp
<1>3. FramesRouted'
  BY <1>0, <1>2, OtherFrames DEF RInv
<1>4. CASE \E p \in Packets : ReceiveDropped(p) \/ ReceiveLocal(p) \/ ReceiveUnroutable(p)
  <2>1. UNCHANGED <<main, announced>>
    BY <1>4 DEF ReceiveDropped, ReceiveLocal, ReceiveUnroutable
  <2> QED
    BY <1>0, <1>1, <1>3, <2>1 DEF RInv, MainTyped, MainRouted, HasAnnounced
<1>5. ASSUME NEW p \in Packets, ReceiveRouted(p)
      PROVE  RInv'
  <2>1. p \in Routed /\ Hop(p) \in Hops /\ announced' = announced
    <3>1. Header[p].dst \in DOMAIN RouteOf
      <4>1. Header[p].dst \in DOMAIN RouteOf \cup {"own", "unknown"}
        BY DEF Headers
      <4> QED
        BY <1>5, <4>1 DEF ReceiveRouted
    <3>2. announced' = announced
      BY <1>5 DEF ReceiveRouted
    <3> QED
      BY <3>1, <3>2, RoutedHop DEF Routed
  <2>2. CASE Matches(Hop(p)) = {}
    <3>1. main' = [pc |-> "missed", pkt |-> p]
      BY <1>5, <2>2 DEF ReceiveRouted
    <3>2. MainTyped' /\ MainRouted'
      BY <2>1, <3>1 DEF MainTyped, MainRouted
    <3> QED
      BY <1>0, <1>1, <1>3, <3>2 DEF RInv
  <2>3. CASE Matches(Hop(p)) # {}
    <3>1. main' = [pc |-> "found", pkt |-> p, mac |-> Found(Hop(p))]
      BY <1>5, <2>3 DEF ReceiveRouted
    <3>2. PICK i \in 1..Slots : /\ entries[i] # Free /\ entries[i].ip = Hop(p)
                                /\ entries[i].mac = Found(Hop(p))
      BY <2>3, FoundIsEntry, Zenon
    <3>3. /\ Found(Hop(p)) \in Macs /\ entries[i].age \in 0..Lifetime
          /\ announced[<<Hop(p), Found(Hop(p))>>] <= entries[i].age
      BY <3>2, ValidEntry DEF RInv, IInv, EntriesAnnounced
    <3>4. HasAnnounced(Hop(p), Found(Hop(p)))
      BY <2>1, <3>3 DEF HasAnnounced, Never, RInv, IInv, AnnouncedTyped
    <3>5. MainTyped'
      BY <2>1, <3>1, <3>3 DEF MainTyped
    <3>6. MainRouted'
      BY <2>1, <3>1, <3>4 DEF MainRouted, HasAnnounced, Hop
    <3> QED
      BY <1>0, <1>1, <1>3, <3>5, <3>6 DEF RInv
  <2> QED
    BY <2>2, <2>3
<1> QED
  BY <1>4, <1>5 DEF ReceivePacket

\* What is left of a sequence of several elements without the first.
LEMMA TailOf ==
  ASSUME NEW S, NEW w \in Seq(S), w # <<>>, Len(w) # 1
  PROVE  /\ Tail(w) \in Seq(S) /\ Tail(w) # <<>>
         /\ \A k \in DOMAIN Tail(w) : k + 1 \in DOMAIN w /\ Tail(w)[k] = w[k + 1]
<1> DEFINE t == Tail(w)
<1>1. Len(w) \in Nat \ {0} /\ DOMAIN w = 1..Len(w)
  BY EmptySeq, LenProperties
<1>2. /\ t \in Seq(S) /\ Len(t) = Len(w) - 1
      /\ \A k \in 1..Len(t) : t[k] = w[k + 1]
  BY HeadTailProperties, Zenon
<1> HIDE DEF t
<1>3. DOMAIN t = 1..Len(t)
  BY <1>2, LenProperties
<1>4. t # <<>>
  BY <1>1, <1>2, EmptySeq
<1> QED
  BY <1>1, <1>2, <1>3, <1>4 DEF t

\* The three steps the reading thread takes with a packet in its hands.
LEMMA StepRInv ==
  ASSUME RInv, Step
  PROVE  RInv'
<1>0. IInv' /\ [Next]_vars
  BY StepInvariant DEF RInv, Next
<1>1. CASE Forward
  <2>1. main \in [pc : {"found"}, pkt : Routed, mac : Macs]
    BY <1>1 DEF Forward, RInv, MainTyped, Idle
  <2>2. main.pkt \in Packets /\ main.mac \in Macs /\ HasAnnounced(Hop(main.pkt), main.mac)
    BY <1>1, <2>1, RoutedHop DEF Forward, RInv, MainRouted
  <2>3. FramesRouted'
    BY <1>0, <1>1, <2>2, ForwardedFrame DEF Forward, RInv
  <2>4. MainTyped' /\ MainRouted'
    BY <1>1 DEF Forward, Idle, MainTyped, MainRouted
  <2>5. WellFormed(requests)'
    BY <1>1 DEF Forward, RInv
  <2> QED
    BY <1>0, <2>3, <2>4, <2>5 DEF RInv
<1>2. CASE QueueRequest
  <2>1. main.pkt \in Routed
    BY <1>2 DEF QueueRequest, RInv, MainTyped, Idle
  <2>2. WellFormed(requests)'
    <3>1. WellFormed(WithPacket(Hop(main.pkt), main.pkt))
      BY <2>1, WithPacketWellFormed DEF RInv
    <3>2. requests' = WithPacket(Hop(main.pkt), main.pkt)
      BY <1>2 DEF QueueRequest
    <3> QED
      BY <3>1, <3>2 DEF WellFormed, Hop
  <2>3. FramesRouted'
    BY <1>0, <1>2, OtherFrames DEF QueueRequest, RInv
  <2>4. MainTyped' /\ MainRouted'
    BY <1>2 DEF QueueRequest, Idle, MainTyped, MainRouted
  <2> QED
    BY <1>0, <2>2, <2>3, <2>4 DEF RInv
<1>3. CASE SendWaiting
  <2> DEFINE w == main.waiting
  <2>1. main \in [pc : {"answering"}, mac : Macs, waiting : Seq(Routed) \ {<<>>}]
    BY <1>3 DEF SendWaiting, RInv, MainTyped, Idle
  <2>2. w \in Seq(Routed) /\ w # <<>> /\ main.mac \in Macs
    BY <2>1
  <2>3. \A k \in DOMAIN w : HasAnnounced(Hop(w[k]), main.mac)
    BY <1>3 DEF SendWaiting, RInv, MainRouted
  <2>4. FramesRouted'
    <3> DEFINE p == Head(w)
    <3>1. p \in Packets /\ HasAnnounced(Hop(p), main.mac)
      BY <2>2, <2>3, RoutedHop
    <3>2. Answer({Forwarded(p, main.mac)})
      BY <1>3 DEF SendWaiting
    <3> HIDE DEF p, w
    <3> QED
      BY <1>0, <2>2, <3>1, <3>2, ForwardedFrame DEF RInv
  <2>5. MainTyped' /\ MainRouted'
    <3>1. CASE Len(w) = 1
      BY <1>3, <3>1 DEF SendWaiting, Idle, MainTyped, MainRouted
    <3>2. CASE Len(w) # 1
      <4> DEFINE t == Tail(w)
      <4>1. /\ t \in Seq(Routed) /\ t # <<>>
            /\ \A k \in DOMAIN t : k + 1 \in DOMAIN w /\ t[k] = w[k + 1]
        BY <2>2, <3>2, TailOf
      <4>2. main' = [main EXCEPT !.waiting = t] /\ announced' = announced
        BY <1>3, <3>2 DEF SendWaiting
      <4> HIDE DEF w, t
      <4>3. /\ main'.pc = "answering" /\ main'.mac = main.mac /\ main'.waiting = t
            /\ main' \in [pc : {"answering"}, mac : Macs, waiting : Seq(Routed) \ {<<>>}]
        BY <2>1, <4>1, <4>2
      <4>4. \A k \in DOMAIN t : HasAnnounced(Hop(t[k]), main.mac)
        BY <2>3, <4>1
      <4> QED
        BY <4>2, <4>3, <4>4 DEF MainTyped, MainRouted, HasAnnounced, Hop
    <3> QED
      BY <3>1, <3>2
  <2>6. WellFormed(requests)'
    BY <1>3 DEF SendWaiting, RInv
  <2> QED
    BY <1>0, <2>4, <2>5, <2>6 DEF RInv
<1> QED
  BY <1>1, <1>2, <1>3 DEF Step

\* A reply's mapping is announced before the packets that waited for it go out.
LEMMA ReplyRInv ==
  ASSUME RInv, NEW h \in Hops, NEW m \in Macs, ReceiveReply(h, m)
  PROVE  RInv'
<1>0. IInv' /\ [Next]_vars
  BY StepInvariant DEF RInv, Next
<1>1. WellFormed(requests)'
  <2>1. requests' = RequestsWithout(h)
    BY DEF ReceiveReply
  <2> QED
    BY <2>1 DEF RequestsWithout, WellFormed, RInv, Hop
<1>2. FramesRouted'
  BY <1>0, OtherFrames DEF ReceiveReply, RInv
<1>3. HasAnnounced(h, m)'
  <2>1. announced'[<<h, m>>] = 0
    BY DEF ReceiveReply, RInv, IInv, AnnouncedTyped
  <2> QED
    BY <2>1 DEF HasAnnounced, Never
<1>4. CASE ~Queued(h)
  <2>1. main' = Idle
    BY <1>4 DEF ReceiveReply
  <2>2. MainTyped' /\ MainRouted'
    BY <2>1 DEF MainTyped, MainRouted, Idle
  <2> QED
    BY <1>0, <1>1, <1>2, <2>2 DEF RInv
<1>5. CASE Queued(h)
  <2> DEFINE w == WaitingFor(h)
  <2>1. w \in Seq(Routed) /\ \A k \in DOMAIN w : Hop(w[k]) = h
    BY <1>5, WaitingRouted DEF RInv
  <2>2. w # <<>>
    BY <1>5, WaitingSome DEF RInv
  <2>3. main' = [pc |-> "answering", mac |-> m, waiting |-> w]
    BY <1>5 DEF ReceiveReply
  <2> HIDE DEF w
  <2>4. MainTyped'
    BY <2>1, <2>2, <2>3 DEF MainTyped
  <2>5. MainRouted'
    BY <1>3, <2>1, <2>3 DEF MainRouted, Hop
  <2> QED
    BY <1>0, <1>1, <1>2, <2>4, <2>5 DEF RInv
<1> QED
  BY <1>4, <1>5

\* Every step keeps the invariant of the requests and frames.
LEMMA StepRInvariant == RInv /\ [Next]_vars => RInv'
<1> SUFFICES ASSUME RInv, [Next]_vars PROVE RInv'
  OBVIOUS
<1>0. IInv'
  BY StepInvariant DEF RInv
<1>1. ASSUME NEW d \in {1, 2}, WakeUp(d)
      PROVE  RInv'
  <2>1. WellFormed(requests)'
    <3>1. WellFormed(requests')
      BY <1>1, WakeUpWellFormed DEF RInv
    <3> QED
      BY <3>1 DEF WellFormed, Hop
  <2>2. \A f \in frames' : f \in frames \/ f.kind # "forward"
    BY <1>1 DEF WakeUp, Answer, Unreachable, Icmp
  <2>3. FramesRouted'
    BY <2>2, OtherFrames DEF RInv
  <2>4. main' = main
    BY <1>1 DEF WakeUp
  <2>5. MainTyped' /\ MainRouted'
    BY <2>4, AnnouncementsStay DEF RInv, MainTyped, MainRouted, Hop
  <2> QED
    BY <1>0, <2>1, <2>3, <2>5 DEF RInv
<1>2. CASE UNCHANGED vars
  BY <1>0, <1>2 DEF vars, RInv, WellFormed, MainTyped, MainRouted, FramesRouted,
                    HasAnnounced, Hop, OutIface
<1>3. CASE \E h \in Hops, m \in Macs : ReceiveReply(h, m)
  BY <1>3, ReplyRInv
<1> QED
  BY <1>1, <1>2, <1>3, ReceiveRInv, StepRInv DEF Next, Timeout

\* Initially nothing is queued and nothing was sent.
LEMMA InitRInvariant == Init => RInv
<1> SUFFICES ASSUME Init PROVE RInv
  OBVIOUS
<1>1. IInv
  BY InitInvariant
<1>2. WellFormed(requests) /\ FramesRouted
  BY DEF Init, WellFormed, FramesRouted
<1>3. MainTyped /\ MainRouted
  BY DEF Init, MainTyped, MainRouted, Idle
<1> QED
  BY <1>1, <1>2, <1>3 DEF RInv

\* Requests, the packets in the reading thread's hands and the frames sent belong
\* together, always.
THEOREM RouterInvariant == Spec => []RInv
  BY InitRInvariant, StepRInvariant, PTL DEF Spec

\* sr_arpcache_queuereq() keeps one request per next hop, with packets routed
\* there, that is sent no more than MaxSent times, for any number of packets.
THEOREM RouterOneRequest == Spec => []OneRequestPerHop
<1>1. RInv => OneRequestPerHop
  BY DEF RInv, WellFormed, OneRequestPerHop
<1> QED
  BY <1>1, RouterInvariant, PTL

\* What is forwarded goes to an address its next hop has announced, whichever
\* copies, expired entries and released requests it came by.
THEOREM RouterNextHop == Spec => []SentToNextHop
<1>1. RInv => SentToNextHop
  BY DEF RInv, FramesRouted, HasAnnounced, SentToNextHop
<1> QED
  BY <1>1, RouterInvariant, PTL

-----------------------------------------------------------------------------
(* Where a packet is                                                       *)

\* p is at no position of s, or at one.
NoPos(s, p) == \A k \in DOMAIN s : s[k] # p
OnePos(s, p) == \E k \in DOMAIN s : s[k] = p /\ \A l \in DOMAIN s : s[l] = p => l = k

\* p waits on no request of R, or at one position of one of them.
NoWait(R, p) == \A r \in R : NoPos(r.packets, p)
OneWait(R, p) ==
  \E r \in R : OnePos(r.packets, p) /\ \A s \in R : s # r => NoPos(s.packets, p)

\* The reading thread, doing m, does not hold p, or holds it once.
NoMain(m, p) == /\ m.pc \in {"missed", "found"} => m.pkt # p
                /\ m.pc = "answering" => NoPos(m.waiting, p)
OneMain(m, p) == \/ m.pc \in {"missed", "found"} /\ m.pkt = p
                 \/ m.pc = "answering" /\ OnePos(m.waiting, p)

Nowhere(p) == NoMain(main, p) /\ NoWait(requests, p) /\ answers[p] = 0
InOnePlace(p) == \/ OneMain(main, p) /\ NoWait(requests, p) /\ answers[p] = 0
                 \/ NoMain(main, p) /\ OneWait(requests, p) /\ answers[p] = 0
                 \/ NoMain(main, p) /\ NoWait(requests, p) /\ answers[p] = 1

Gone(p) == p \in unseen \/ Dropped(p)

\* OnePlace without its counts, which is inductive with RInv.
Placed(p) == IF Gone(p) THEN Nowhere(p) ELSE InOnePlace(p)

PInv == /\ RInv
        /\ answers \in [Packets -> Nat]
        /\ \A p \in Packets : Placed(p)

\* Being nowhere in a place and being once there exclude each other.
LEMMA Excluded ==
  /\ \A s, p : ~(NoPos(s, p) /\ OnePos(s, p))
  /\ \A m, p : ~(NoMain(m, p) /\ OneMain(m, p))
  BY DEF NoPos, OnePos, NoMain, OneMain

\* A packet in front of a sequence moves the others by one position.
LEMMA InFront ==
  ASSUME NEW S, NEW s \in Seq(S), NEW p \in S, NEW q
  PROVE  /\ NoPos(s, p) => OnePos(<<p>> \o s, p)
         /\ q # p /\ NoPos(s, q) => NoPos(<<p>> \o s, q)
         /\ q # p /\ OnePos(s, q) => OnePos(<<p>> \o s, q)
<1> DEFINE t == <<p>> \o s
<1>1. /\ DOMAIN t = 1..(Len(s) + 1) /\ DOMAIN s = 1..Len(s) /\ Len(s) \in Nat
      /\ t[1] = p
  OBVIOUS
<1>2. \A k \in 2..(Len(s) + 1) : t[k] = s[k - 1]
  OBVIOUS
<1>3. \A k \in DOMAIN s : k + 1 \in DOMAIN t /\ t[k + 1] = s[k]
  BY <1>1, <1>2
<1>4. \A k \in DOMAIN t : k # 1 => k - 1 \in DOMAIN s /\ t[k] = s[k - 1]
  BY <1>1, <1>2
<1> HIDE DEF t
<1>5. NoPos(s, p) => OnePos(t, p)
  BY <1>1, <1>4 DEF NoPos, OnePos
<1>6. q # p /\ NoPos(s, q) => NoPos(t, q)
  BY <1>1, <1>4 DEF NoPos
<1>7. ASSUME q # p, OnePos(s, q) PROVE OnePos(t, q)
  <2>1. PICK k \in DOMAIN s : s[k] = q /\ \A l \in DOMAIN s : s[l] = q => l = k
    BY <1>7 DEF OnePos
  <2>2. k + 1 \in DOMAIN t /\ t[k + 1] = q
    BY <1>3, <2>1
  <2>3. ASSUME NEW l \in DOMAIN t, t[l] = q PROVE l = k + 1
    <3>1. l # 1 /\ l \in Nat /\ k \in Nat
      BY <1>1, <1>7, <2>3
    <3>2. l - 1 = k
      BY <1>4, <2>1, <2>3, <3>1
    <3> QED
      BY <3>1, <3>2
  <2> QED
    BY <2>2, <2>3 DEF OnePos
<1> QED
  BY <1>5, <1>6, <1>7 DEF t

\* Without the first element, its packet is gone and the others are as often there.
LEMMA WithoutFirst ==
  ASSUME NEW S, NEW s \in Seq(S), s # <<>>, Len(s) # 1, NEW q
  PROVE  /\ OnePos(s, Head(s)) => NoPos(Tail(s), Head(s))
         /\ NoPos(s, q) => NoPos(Tail(s), q)
         /\ q # Head(s) /\ OnePos(s, q) => OnePos(Tail(s), q)
<1> DEFINE t == Tail(s)
<1>1. /\ Len(s) \in Nat \ {0} /\ DOMAIN s = 1..Len(s) /\ Head(s) = s[1]
      /\ DOMAIN t = 1..(Len(s) - 1)
  BY EmptySeq, LenProperties, HeadTailProperties
<1>2. \A k \in DOMAIN t : k + 1 \in DOMAIN s /\ t[k] = s[k + 1]
  BY TailOf
<1> HIDE DEF t
<1>3. OnePos(s, Head(s)) => NoPos(t, Head(s))
  <2> SUFFICES ASSUME OnePos(s, s[1]), NEW k \in DOMAIN t, t[k] = s[1] PROVE FALSE
    BY <1>1 DEF NoPos
  <2>1. k + 1 \in DOMAIN s /\ s[k + 1] = s[1] /\ 1 \in DOMAIN s
    BY <1>1, <1>2
  <2>2. k + 1 = 1
    BY <2>1 DEF OnePos
  <2> QED
    BY <1>1, <2>2
<1>4. NoPos(s, q) => NoPos(t, q)
  BY <1>2 DEF NoPos
<1>5. ASSUME q # Head(s), OnePos(s, q) PROVE OnePos(t, q)
  <2>1. PICK k \in DOMAIN s : s[k] = q /\ \A l \in DOMAIN s : s[l] = q => l = k
    BY <1>5 DEF OnePos
  <2>2. k - 1 \in DOMAIN t /\ k \in Nat /\ (k - 1) + 1 = k
    BY <1>1, <1>5, <2>1
  <2>3. t[k - 1] = q
    BY <1>2, <2>1, <2>2
  <2>4. ASSUME NEW l \in DOMAIN t, t[l] = q PROVE l = k - 1
    <3>1. l + 1 = k /\ l \in Nat
      BY <1>1, <1>2, <2>1, <2>4
    <3> QED
      BY <2>2, <3>1
  <2> QED
    BY <2>2, <2>3, <2>4 DEF OnePos
<1> QED
  BY <1>3, <1>4, <1>5 DEF t

\* A packet queued while it waits nowhere waits once then, and the others as before.
LEMMA WaitsWithPacket ==
  ASSUME WellFormed(requests), NEW p \in Routed, NEW q
  PROVE  LET R == WithPacket(Hop(p), p) IN
         /\ NoWait(requests, p) => OneWait(R, p)
         /\ q # p /\ NoWait(requests, q) => NoWait(R, q)
         /\ q # p /\ OneWait(requests, q) => OneWait(R, q)
<1> DEFINE R == WithPacket(Hop(p), p)
<1>1. CASE ~Queued(Hop(p))
  <2> DEFINE n == NewRequest(Hop(p), p)
  <2>1. R = requests \cup {n} /\ n.packets = <<p>> /\ n.hop = Hop(p)
    BY <1>1 DEF WithPacket, NewRequest
  <2>2. n \notin requests
    BY <1>1, <2>1 DEF Queued, IsFor
  <2>3. OnePos(n.packets, p) /\ (q # p => NoPos(n.packets, q))
    BY <2>1 DEF OnePos, NoPos
  <2> HIDE DEF n, R
  <2>4. NoWait(requests, p) => OneWait(R, p)
    BY <2>1, <2>3, Zenon DEF NoWait, OneWait
  <2>5. q # p /\ NoWait(requests, q) => NoWait(R, q)
    BY <2>1, <2>3, Zenon DEF NoWait
  <2>6. q # p /\ OneWait(requests, q) => OneWait(R, q)
    BY <2>1, <2>3, Zenon DEF OneWait
  <2> QED
    BY <2>4, <2>5, <2>6 DEF R
<1>2. CASE Queued(Hop(p))
  <2> DEFINE j(r) == IF IsFor(r, Hop(p)) THEN [r EXCEPT !.packets = <<p>> \o @] ELSE r
  <2>1. PICK r0 \in requests : IsFor(r0, Hop(p))
    BY <1>2 DEF Queued
  <2>2. \A r \in requests : r # r0 => ~IsFor(r, Hop(p))
    BY <2>1 DEF IsFor, WellFormed
  <2>3. j(r0).packets = <<p>> \o r0.packets /\ r0.packets \in Seq(Routed)
    BY <2>1 DEF WellFormed, Request
  <2>4. \A r \in requests : r # r0 => j(r) = r
    BY <2>2
  <2>5. R = {j(r) : r \in requests}
    BY <1>2, Zenon DEF WithPacket
  <2> HIDE DEF j, R
  <2>6. /\ NoPos(r0.packets, p) => OnePos(j(r0).packets, p)
        /\ q # p /\ NoPos(r0.packets, q) => NoPos(j(r0).packets, q)
        /\ q # p /\ OnePos(r0.packets, q) => OnePos(j(r0).packets, q)
    BY <2>3, InFront
  <2>7. ASSUME NoWait(requests, p) PROVE OneWait(R, p)
    <3>1. OnePos(j(r0).packets, p) /\ j(r0) \in R
      BY <2>1, <2>5, <2>6, <2>7 DEF NoWait
    <3>2. \A t \in R : t # j(r0) => NoPos(t.packets, p)
      BY <2>4, <2>5, <2>7 DEF NoWait
    <3> QED
      BY <3>1, <3>2 DEF OneWait
  <2>8. ASSUME q # p, NoWait(requests, q) PROVE NoWait(R, q)
    BY <2>1, <2>4, <2>5, <2>6, <2>8 DEF NoWait
  <2>9. ASSUME q # p, OneWait(requests, q) PROVE OneWait(R, q)
    <3>1. PICK r \in requests :
            OnePos(r.packets, q) /\ \A t \in requests : t # r => NoPos(t.packets, q)
      BY <2>9 DEF OneWait
    <3>2. OnePos(j(r).packets, q) /\ j(r) \in R
      BY <2>4, <2>5, <2>6, <2>9, <3>1
    <3>3. \A t \in requests : j(t) # j(r) => NoPos(j(t).packets, q)
      BY <2>4, <2>6, <2>9, <3>1
    <3> QED
      BY <2>5, <3>2, <3>3 DEF OneWait
  <2> QED
    BY <2>7, <2>8, <2>9 DEF R
<1> QED
  BY <1>1, <1>2

\* Requests that are changed otherwise keep what waits on them; of those that are
\* taken off, the one with p takes it along.
LEMMA WaitsWithout ==
  ASSUME NEW R, NEW Q \in SUBSET R, NEW p
  PROVE  /\ NoWait(R, p) => NoWait(Q, p)
         /\ OneWait(R, p) =>
              \/ OneWait(Q, p) /\ NoWait(R \ Q, p)
              \/ NoWait(Q, p) /\ OneWait(R \ Q, p)
<1>1. NoWait(R, p) => NoWait(Q, p)
  BY DEF NoWait
<1>2. ASSUME OneWait(R, p)
      PROVE  \/ OneWait(Q, p) /\ NoWait(R \ Q, p)
             \/ NoWait(Q, p) /\ OneWait(R \ Q, p)
  <2>1. PICK r \in R : OnePos(r.packets, p) /\ \A s \in R : s # r => NoPos(s.packets, p)
    BY <1>2 DEF OneWait
  <2>2. CASE r \in Q
    BY <2>1, <2>2 DEF OneWait, NoWait
  <2>3. CASE r \notin Q
    BY <2>1, <2>3 DEF OneWait, NoWait
  <2> QED
    BY <2>2, <2>3
<1> QED
  BY <1>1, <1>2

-----------------------------------------------------------------------------
(* The steps                                                               *)

\* A single frame adds one to the answers of its packet.
LEMMA OneAnswer ==
  ASSUME answers \in [Packets -> Nat], NEW f, f.pkt \in Packets, Answer({f})
  PROVE  /\ answers' \in [Packets -> Nat]
         /\ answers[f.pkt] = 0 => answers'[f.pkt] = 1
         /\ \A q \in Packets : q # f.pkt /\ answers[q] <= 1 => answers'[q] = answers[q]
<1>1. answers' = [q \in Packets |->
                    MinOf(2, answers[q] + Cardinality({g \in {f} : g.pkt = q}))]
  BY DEF Answer
<1>2. {g \in {f} : g.pkt = f.pkt} = {f}
  OBVIOUS
<1>3. \A q : q # f.pkt => {g \in {f} : g.pkt = q} = {}
  OBVIOUS
<1>4. \A q \in Packets : Cardinality({g \in {f} : g.pkt = q}) = IF q = f.pkt THEN 1 ELSE 0
  <2> SUFFICES ASSUME NEW q \in Packets
               PROVE  Cardinality({g \in {f} : g.pkt = q}) = IF q = f.pkt THEN 1 ELSE 0
    OBVIOUS
  <2>1. CASE q = f.pkt
    BY <1>2, <2>1, FS_Singleton
  <2>2. CASE q # f.pkt
    BY <1>3, <2>2, FS_EmptySet
  <2> QED
    BY <2>1, <2>2
<1>5. answers' = [q \in Packets |-> MinOf(2, answers[q] + (IF q = f.pkt THEN 1 ELSE 0))]
  BY <1>1, <1>4
<1> QED
  BY <1>5 DEF MinOf

\* A packet that is once somewhere, or nowhere, has at most one answer.
LEMMA PlacedAnswers ==
  ASSUME NEW p \in Packets, Placed(p)
  PROVE  answers[p] <= 1
  BY DEF Placed, Nowhere, InOnePlace

\* If a step changes nothing about the place of p, p stays where it is.
LEMMA PlaceKept ==
  ASSUME NEW p \in Packets, Placed(p), Gone(p)' <=> Gone(p), answers'[p] = answers[p],
         NoMain(main, p) => NoMain(main', p), OneMain(main, p) => OneMain(main', p),
         NoWait(requests, p) => NoWait(requests', p),
         OneWait(requests, p) => OneWait(requests', p)
  PROVE  Placed(p)'
  BY DEF Placed, Nowhere, InOnePlace, NoMain, OneMain, NoWait, OneWait, NoPos, OnePos

\* A packet that arrives is answered, dropped, or held by the reading thread.
LEMMA ReceivePlaced ==
  ASSUME PInv, NEW p \in Packets,
         ReceiveDropped(p) \/ ReceiveLocal(p) \/ ReceiveUnroutable(p) \/ ReceiveRouted(p)
  PROVE  answers' \in [Packets -> Nat] /\ \A q \in Packets : Placed(q)'
<1>1. /\ main = Idle /\ p \in unseen /\ unseen' = unseen \ {p} /\ requests' = requests
      /\ Nowhere(p)
  BY DEF ReceiveDropped, ReceiveLocal, ReceiveUnroutable, ReceiveRouted, Arrives,
         PInv, Placed, Gone
<1>2. \A q \in Packets : q # p => (Gone(q)' <=> Gone(q))
  BY <1>1 DEF Gone, Dropped
<1>3. \A q : NoMain(Idle, q) /\ ~OneMain(Idle, q)
  BY DEF NoMain, OneMain, Idle
<1>4. CASE ReceiveDropped(p)
  <2>1. UNCHANGED <<main, answers>> /\ Gone(p)'
    BY <1>4 DEF ReceiveDropped, Gone, Dropped
  <2>2. \A q \in Packets : q # p => Placed(q)'
    BY <1>1, <1>2, <2>1, PlaceKept DEF PInv
  <2>3. Placed(p)'
    BY <1>1, <2>1 DEF Placed, Nowhere, NoMain, NoWait, NoPos
  <2> QED
    BY <2>1, <2>2, <2>3 DEF PInv
<1>5. CASE ReceiveLocal(p) \/ ReceiveUnroutable(p)
  <2>1. main' = main /\ ~Gone(p)'
    BY <1>1, <1>5 DEF ReceiveLocal, ReceiveUnroutable, Gone, Dropped
  <2>2. PICK f : f.pkt = p /\ Answer({f})
    <3>1. CASE ReceiveLocal(p) /\ Header[p].proto = "echo"
      <4> DEFINE f == [kind |-> "echo_reply", pkt |-> p, iface |-> Header[p].in,
                       dmac |-> Header[p].src, ttl |-> Header[p].ttl]
      <4>1. f.pkt = p /\ Answer({f})
        BY <3>1 DEF ReceiveLocal
      <4> QED
        BY <4>1
    <3> DEFINE icmp(k) == [kind |-> k, pkt |-> p, iface |-> Header[p].in,
                           dmac |-> Header[p].src, ttl |-> 64]
    <3>2. \A k : icmp(k).pkt = p
      OBVIOUS
    <3>3. CASE ReceiveLocal(p) /\ Header[p].proto # "echo"
      <4>1. Answer({icmp("port_unreachable")})
        BY <3>3 DEF ReceiveLocal, Icmp
      <4> QED
        BY <3>2, <4>1
    <3>4. CASE ReceiveUnroutable(p)
      <4>1. PICK k : Answer({icmp(k)})
        BY <3>4 DEF ReceiveUnroutable, Icmp
      <4> QED
        BY <3>2, <4>1
    <3> QED
      BY <1>5, <3>1, <3>3, <3>4
  <2>3. /\ answers' \in [Packets -> Nat] /\ answers'[p] = 1
        /\ \A q \in Packets : q # p => answers'[q] = answers[q]
    BY <1>1, <2>2, OneAnswer, PlacedAnswers DEF PInv, Nowhere
  <2>4. \A q \in Packets : q # p => Placed(q)'
    BY <1>1, <1>2, <2>1, <2>3, PlaceKept DEF PInv
  <2>5. Placed(p)'
    BY <1>1, <2>1, <2>3 DEF Placed, Nowhere, InOnePlace, NoMain, NoWait, NoPos
  <2> QED
    BY <2>3, <2>4, <2>5
<1>6. CASE ReceiveRouted(p)
  <2>1. answers' = answers /\ ~Gone(p)'
    BY <1>1, <1>6 DEF ReceiveRouted, Gone, Dropped
  <2>2. main'.pc \in {"missed", "found"} /\ main'.pkt = p
    BY <1>6 DEF ReceiveRouted
  <2>3. OneMain(main', p) /\ \A q : q # p => NoMain(main', q)
    BY <2>2 DEF OneMain, NoMain
  <2>4. \A q \in Packets : q # p => Placed(q)'
    BY <1>1, <1>2, <1>3, <2>1, <2>3, PlaceKept DEF PInv
  <2>5. Placed(p)'
    BY <1>1, <2>1, <2>3 DEF Placed, Nowhere, InOnePlace, OneMain, NoWait, NoPos, OnePos
  <2> QED
    BY <2>1, <2>4, <2>5 DEF PInv
<1> QED
  BY <1>4, <1>5, <1>6

\* The reading thread's own steps move the packet it holds to its frame or onto a
\* request, and no other.
LEMMA StepPlaced ==
  ASSUME PInv, Step
  PROVE  answers' \in [Packets -> Nat] /\ \A q \in Packets : Placed(q)'
<1>0. /\ \A q \in Packets : Gone(q)' <=> Gone(q)
      /\ \A q : NoMain(Idle, q)
  BY DEF Step, Forward, QueueRequest, SendWaiting, Gone, Dropped, NoMain, Idle
<1>1. CASE Forward
  <2>p. PICK p : p = main.pkt
    OBVIOUS
  <2> DEFINE f == Forwarded(p, main.mac)
  <2>1. /\ p \in Packets /\ f.pkt = p /\ Answer({f})
        /\ main' = Idle /\ requests' = requests
    BY <1>1, <2>p DEF Forward, Forwarded, PInv, RInv, MainTyped, Routed, Idle
  <2>2. OneMain(main, p) /\ \A q : q # p => NoMain(main, q)
    BY <1>1, <2>p DEF Forward, OneMain, NoMain
  <2> HIDE DEF f
  <2>3. ~Gone(p) /\ NoWait(requests, p) /\ answers[p] = 0
    BY <2>1, <2>2, Excluded DEF PInv, Placed, Nowhere, InOnePlace
  <2>4. /\ answers' \in [Packets -> Nat] /\ answers'[p] = 1
        /\ \A q \in Packets : q # p => answers'[q] = answers[q]
    BY <2>1, <2>3, OneAnswer, PlacedAnswers DEF PInv
  <2>5. \A q \in Packets : q # p => Placed(q)'
    BY <1>0, <2>1, <2>2, <2>4, Excluded, PlaceKept DEF PInv
  <2>6. Placed(p)'
    <3>1. NoMain(main', p) /\ NoWait(requests', p) /\ answers'[p] = 1 /\ ~Gone(p)'
      BY <1>0, <2>1, <2>3, <2>4
    <3> QED
      BY <3>1 DEF Placed, InOnePlace, NoMain, NoWait, NoPos
  <2> QED
    BY <2>4, <2>5, <2>6
<1>2. CASE QueueRequest
  <2>p. PICK p : p = main.pkt
    OBVIOUS
  <2>1. /\ p \in Routed /\ main' = Idle /\ requests' = WithPacket(Hop(p), p)
        /\ answers' = answers
    BY <1>2, <2>p DEF QueueRequest, PInv, RInv, MainTyped, Idle
  <2>2. OneMain(main, p) /\ \A q : q # p => NoMain(main, q)
    BY <1>2, <2>p DEF QueueRequest, OneMain, NoMain
  <2>3. ~Gone(p) /\ NoWait(requests, p) /\ answers[p] = 0 /\ p \in Packets
    BY <2>1, <2>2, Excluded, RoutedHop DEF PInv, Placed, Nowhere, InOnePlace
  <2>4. /\ OneWait(requests', p)
        /\ \A q : q # p => /\ NoWait(requests, q) => NoWait(requests', q)
                           /\ OneWait(requests, q) => OneWait(requests', q)
    BY <2>1, <2>3, WaitsWithPacket DEF PInv, RInv
  <2>5. \A q \in Packets : q # p => Placed(q)'
    BY <1>0, <2>1, <2>2, <2>4, Excluded, PlaceKept DEF PInv
  <2>6. Placed(p)'
    <3>1. NoMain(main', p) /\ OneWait(requests', p) /\ answers'[p] = 0 /\ ~Gone(p)'
      BY <1>0, <2>1, <2>3, <2>4
    <3> QED
      BY <3>1 DEF Placed, InOnePlace, NoMain, OneWait, OnePos, NoPos
  <2> QED
    BY <2>1, <2>5, <2>6 DEF PInv
<1>3. CASE SendWaiting
  <2>w. PICK w, p : w = main.waiting /\ p = Head(w)
    OBVIOUS
  <2> DEFINE f == Forwarded(p, main.mac)
  <2>1. /\ main \in [pc : {"answering"}, mac : Macs, waiting : Seq(Routed) \ {<<>>}]
        /\ w \in Seq(Routed) /\ w # <<>>
    BY <1>3, <2>w DEF SendWaiting, PInv, RInv, MainTyped, Idle
  <2>2. /\ p \in Packets /\ f.pkt = p /\ Answer({f})
        /\ main' = IF Len(w) = 1 THEN Idle ELSE [main EXCEPT !.waiting = Tail(w)]
        /\ requests' = requests
    BY <1>3, <2>1, <2>w, RoutedHop DEF SendWaiting, Forwarded
  <2>3. \A q : /\ NoMain(main, q) <=> NoPos(w, q)
               /\ OneMain(main, q) <=> OnePos(w, q)
    BY <2>1, <2>w DEF NoMain, OneMain
  <2>4. 1 \in DOMAIN w /\ p = w[1]
    BY <2>1, <2>w, EmptySeq, LenProperties, HeadTailProperties
  <2> HIDE DEF f
  <2>5. ~Gone(p) /\ OnePos(w, p) /\ NoWait(requests, p) /\ answers[p] = 0
    BY <2>2, <2>3, <2>4 DEF PInv, Placed, Nowhere, InOnePlace, NoPos
  <2>6. /\ NoMain(main', p)
        /\ \A q : q # p => /\ NoPos(w, q) => NoMain(main', q)
                           /\ OnePos(w, q) => OneMain(main', q)
    <3>1. CASE Len(w) = 1
      <4>1. DOMAIN w = {1}
        BY <2>1, <3>1, LenProperties
      <4>2. \A q : q # p => ~OnePos(w, q)
        BY <2>4, <4>1 DEF OnePos
      <4> QED
        BY <1>0, <2>2, <3>1, <4>2
    <3>2. CASE Len(w) # 1
      <4>1. main'.pc = "answering" /\ main'.waiting = Tail(w)
        BY <2>1, <2>2, <3>2
      <4>2. \A q : /\ NoMain(main', q) <=> NoPos(Tail(w), q)
                   /\ OneMain(main', q) <=> OnePos(Tail(w), q)
        BY <4>1 DEF NoMain, OneMain
      <4> QED
        BY <2>1, <2>5, <2>w, <3>2, <4>2, WithoutFirst
    <3> QED
      BY <3>1, <3>2
  <2>7. /\ answers' \in [Packets -> Nat] /\ answers'[p] = 1
        /\ \A q \in Packets : q # p => answers'[q] = answers[q]
    BY <2>2, <2>5, OneAnswer, PlacedAnswers DEF PInv
  <2>8. \A q \in Packets : q # p => Placed(q)'
    BY <1>0, <2>2, <2>3, <2>6, <2>7, PlaceKept DEF PInv
  <2>9. Placed(p)'
    <3>1. NoMain(main', p) /\ NoWait(requests', p) /\ answers'[p] = 1 /\ ~Gone(p)'
      BY <1>0, <2>2, <2>5, <2>6, <2>7
    <3> QED
      BY <3>1 DEF Placed, InOnePlace, NoMain, NoWait, NoPos
  <2> QED
    BY <2>7, <2>8, <2>9
<1> QED
  BY <1>1, <1>2, <1>3 DEF Step

\* A reply takes the packets of one request over to the reading thread.
LEMMA ReplyPlaced ==
  ASSUME PInv, NEW h \in Hops, NEW m \in Macs, ReceiveReply(h, m)
  PROVE  answers' \in [Packets -> Nat] /\ \A q \in Packets : Placed(q)'
<1>1. /\ main = Idle /\ answers' = answers /\ requests' = RequestsWithout(h)
      /\ \A q \in Packets : Gone(q)' <=> Gone(q)
  BY DEF ReceiveReply, Gone, Dropped
<1>2. \A q : NoMain(Idle, q) /\ ~OneMain(Idle, q)
  BY DEF NoMain, OneMain, Idle
<1>3. CASE ~Queued(h)
  <2>1. requests' = requests /\ main' = main
    BY <1>1, <1>3 DEF ReceiveReply, RequestsWithout, Queued
  <2> QED
    BY <1>1, <2>1, PlaceKept DEF PInv
<1>4. CASE Queued(h)
  <2>1. PICK r \in requests : IsFor(r, h) /\ WaitingFor(h) = r.packets
    BY <1>4, Zenon DEF Queued, WaitingFor
  <2>2. main'.pc = "answering" /\ main'.waiting = r.packets
    BY <1>4, <2>1 DEF ReceiveReply
  <2>3. \A q : /\ NoMain(main', q) <=> NoPos(r.packets, q)
               /\ OneMain(main', q) <=> OnePos(r.packets, q)
    BY <2>2 DEF NoMain, OneMain
  <2>4. requests' = requests \ {r}
    BY <1>1, <2>1 DEF RequestsWithout, IsFor, PInv, RInv, WellFormed
  <2> SUFFICES ASSUME NEW q \in Packets PROVE Placed(q)'
    BY <1>1 DEF PInv
  <2>5. ~OneMain(main, q) /\ Placed(q)
    BY <1>1, <1>2 DEF PInv
  <2>6. CASE NoWait(requests, q)
    <3>1. NoMain(main', q) /\ NoWait(requests', q)
      BY <2>1, <2>3, <2>4, <2>6 DEF NoWait
    <3>2. NoWait(requests, q) /\ ~OneWait(requests, q)
      BY <2>6, Excluded DEF NoWait, OneWait
    <3> QED
      BY <1>1, <2>5, <3>1, <3>2, PlaceKept
  <2>7. CASE ~NoWait(requests, q)
    <3>1. ~Gone(q) /\ OneWait(requests, q) /\ answers[q] = 0
      BY <2>5, <2>7 DEF Placed, Nowhere, InOnePlace
    <3>2. PICK t \in requests :
            OnePos(t.packets, q) /\ \A s \in requests : s # t => NoPos(s.packets, q)
      BY <3>1 DEF OneWait
    <3>3. \/ OneMain(main', q) /\ NoWait(requests', q)
          \/ NoMain(main', q) /\ OneWait(requests', q)
      <4>1. CASE t = r
        BY <2>3, <2>4, <3>2, <4>1 DEF NoWait
      <4>2. CASE t # r
        BY <2>1, <2>3, <2>4, <3>2, <4>2 DEF OneWait
      <4> QED
        BY <4>1, <4>2
    <3>4. ~Gone(q)' /\ answers'[q] = 0
      BY <1>1, <3>1
    <3> QED
      BY <3>3, <3>4 DEF Placed, InOnePlace, NoMain, OneMain, NoWait, OneWait, NoPos, OnePos
  <2> QED
    BY <2>6, <2>7
<1> QED
  BY <1>3, <1>4

\* A wake-up answers the packets of the requests it gives up, each once.
LEMMA WakeUpPlaced ==
  ASSUME PInv, NEW d \in {1, 2}, WakeUp(d)
  PROVE  answers' \in [Packets -> Nat] /\ \A q \in Packets : Placed(q)'
<1> DEFINE later == {Later(r, d) : r \in requests}
           over == {r \in later : GivenUp(r)}
           fs == UNION {UNION {Unreachable(r.packets[i]) : i \in DOMAIN r.packets} : r \in over}
           frame(p) == [kind |-> "host_unreachable", pkt |-> p, iface |-> OutIface(p),
                        dmac |-> "our", ttl |-> 64]
<1>1. /\ main' = main /\ requests' = {Resent(r) : r \in later \ over} /\ Answer(fs)
      /\ \A q \in Packets : Gone(q)' <=> Gone(q)
  BY DEF WakeUp, Gone, Dropped
<1>2. \A g : g \in fs <=> \E r \in over : \E i \in DOMAIN r.packets : g = frame(r.packets[i])
  BY DEF Unreachable, Icmp
<1>3. \A q : /\ NoWait(requests, q) => NoWait(later, q)
             /\ OneWait(requests, q) => OneWait(later, q)
  <2> DEFINE f == [r \in requests |-> Later(r, d)]
  <2>1. \A r \in requests : Later(r, d).packets = r.packets
    BY DEF Later, PInv, RInv, WellFormed, Request
  <2>2. (\A r \in requests : f[r].packets = r.packets) /\ later = {f[r] : r \in requests}
    BY <2>1
  <2> HIDE DEF f, later
  <2>3. \A q : /\ NoWait(requests, q) => NoWait({f[r] : r \in requests}, q)
               /\ OneWait(requests, q) => OneWait({f[r] : r \in requests}, q)
    BY <2>2 DEF NoWait, OneWait
  <2> QED
    BY <2>2, <2>3, Zenon
<1>4. \A q : /\ NoWait(later \ over, q) => NoWait(requests', q)
             /\ OneWait(later \ over, q) => OneWait(requests', q)
  <2> DEFINE f == [r \in later \ over |-> Resent(r)]
  <2>1. \A r \in requests : Resent(Later(r, d)).packets = r.packets /\ Later(r, d).packets = r.packets
    BY DEF Later, Resent, PInv, RInv, WellFormed, Request
  <2>2. \A r \in later \ over : f[r].packets = r.packets
    BY <2>1
  <2>3. requests' = {f[r] : r \in later \ over}
    BY <1>1
  <2> HIDE DEF f, later, over
  <2>4. \A q : /\ NoWait(later \ over, q) => NoWait({f[r] : r \in later \ over}, q)
               /\ OneWait(later \ over, q) => OneWait({f[r] : r \in later \ over}, q)
    BY <2>2 DEF NoWait, OneWait
  <2> QED
    BY <2>3, <2>4, Zenon
<1> HIDE DEF later, fs
<1>5. answers' = [q \in Packets |-> MinOf(2, answers[q] + Cardinality({g \in fs : g.pkt = q}))]
  BY <1>1 DEF Answer
<1>6. \A q : NoWait(over, q) => {g \in fs : g.pkt = q} = {}
  BY <1>2 DEF NoWait, NoPos
<1>7. \A q : OneWait(over, q) => {g \in fs : g.pkt = q} = {frame(q)}
  BY <1>2 DEF OneWait, OnePos
<1>8. ASSUME NEW q \in Packets
      PROVE  /\ NoWait(over, q) => answers'[q] = MinOf(2, answers[q])
             /\ OneWait(over, q) => answers'[q] = MinOf(2, answers[q] + 1)
  <2>1. answers'[q] = MinOf(2, answers[q] + Cardinality({g \in fs : g.pkt = q}))
    BY <1>5
  <2>2. answers[q] \in Nat
    BY DEF PInv
  <2>3. ASSUME NoWait(over, q) PROVE Cardinality({g \in fs : g.pkt = q}) = 0
    <3>1. {g \in fs : g.pkt = q} = {}
      BY <1>6, <2>3, Zenon
    <3>2. Cardinality({}) = 0
      BY FS_EmptySet, Zenon
    <3> QED
      BY <3>1, <3>2
  <2>4. ASSUME OneWait(over, q) PROVE Cardinality({g \in fs : g.pkt = q}) = 1
    <3>0. {g \in fs : g.pkt = q} = {frame(q)}
      BY <1>7, <2>4, Zenon
    <3>1. \E x : {g \in fs : g.pkt = q} = {x}
      BY <3>0, Zenon
    <3> QED
      BY <3>1, FS_Singleton, Zenon
  <2> QED
    BY <2>1, <2>2, <2>3, <2>4
<1>9. ASSUME NEW q \in Packets
      PROVE  \/ /\ answers'[q] = MinOf(2, answers[q])
                /\ NoWait(requests, q) => NoWait(requests', q)
                /\ OneWait(requests, q) => OneWait(requests', q)
             \/ /\ answers'[q] = MinOf(2, answers[q] + 1)
                /\ ~NoWait(requests, q) /\ NoWait(requests', q)
  <2>1. over \in SUBSET later
    OBVIOUS
  <2> HIDE DEF over
  <2>2. NoWait(requests, q) \/ OneWait(requests, q)
    BY DEF PInv, Placed, Nowhere, InOnePlace
  <2>3. CASE NoWait(requests, q)
    <3>1. NoWait(later, q)
      BY <1>3, <2>3
    <3>2. NoWait(over, q) /\ NoWait(later \ over, q)
      BY <2>1, <3>1 DEF NoWait
    <3>3. ~OneWait(requests, q)
      BY <2>3, Excluded DEF NoWait, OneWait
    <3> QED
      BY <1>4, <1>8, <3>2, <3>3
  <2>4. CASE OneWait(requests, q)
    <3>1. OneWait(later, q) /\ ~NoWait(requests, q)
      BY <1>3, <2>4, Excluded DEF NoWait, OneWait
    <3>2. \/ OneWait(over, q) /\ NoWait(later \ over, q)
          \/ NoWait(over, q) /\ OneWait(later \ over, q)
      BY <2>1, <3>1, WaitsWithout
    <3> QED
      BY <1>4, <1>8, <3>1, <3>2
  <2> QED
    BY <2>2, <2>3, <2>4
<1>10. answers' \in [Packets -> Nat]
  <2>1. \A q \in Packets : answers'[q] \in Nat
    BY <1>9 DEF PInv, MinOf
  <2> QED
    BY <1>5, <2>1
<1>11. ASSUME NEW q \in Packets PROVE Placed(q)'
  <2>1. Placed(q) /\ answers[q] \in Nat /\ answers[q] <= 1
    BY PlacedAnswers DEF PInv
  <2>2. MinOf(2, answers[q]) = answers[q] /\ (answers[q] = 0 => MinOf(2, answers[q] + 1) = 1)
    BY <2>1 DEF MinOf
  <2>3. CASE /\ answers'[q] = MinOf(2, answers[q])
             /\ NoWait(requests, q) => NoWait(requests', q)
             /\ OneWait(requests, q) => OneWait(requests', q)
    BY <1>1, <2>1, <2>2, <2>3, PlaceKept
  <2>4. CASE /\ answers'[q] = MinOf(2, answers[q] + 1)
             /\ ~NoWait(requests, q) /\ NoWait(requests', q)
    <3>1. ~Gone(q) /\ NoMain(main, q) /\ answers[q] = 0
      BY <2>1, <2>4 DEF Placed, Nowhere, InOnePlace
    <3>2. ~Gone(q)' /\ NoMain(main', q) /\ NoWait(requests', q) /\ answers'[q] = 1
      BY <1>1, <2>2, <2>4, <3>1
    <3> QED
      BY <3>2 DEF Placed, InOnePlace, NoMain, NoWait, NoPos
  <2> QED
    BY <1>9, <2>3, <2>4
<1> QED
  BY <1>10, <1>11

\* Every step keeps every packet in one place.
LEMMA StepPInvariant == PInv /\ [Next]_vars => PInv'
<1> SUFFICES ASSUME PInv, [Next]_vars PROVE PInv'
  OBVIOUS
<1>1. RInv'
  BY StepRInvariant DEF PInv
<1>2. CASE UNCHANGED vars
  BY <1>1, <1>2 DEF vars, PInv, Placed, Gone, Dropped, Nowhere, InOnePlace, NoMain, OneMain,
                    NoWait, OneWait, NoPos, OnePos
<1>3. CASE Next
  <2>1. answers' \in [Packets -> Nat] /\ \A q \in Packets : Placed(q)'
    BY <1>3, ReceivePlaced, StepPlaced, ReplyPlaced, WakeUpPlaced
       DEF Next, ReceivePacket, Timeout
  <2> QED
    BY <1>1, <2>1 DEF PInv
<1> QED
  BY <1>2, <1>3

\* Initially no packet has arrived.
LEMMA InitPInvariant == Init => PInv
<1> SUFFICES ASSUME Init PROVE PInv
  OBVIOUS
<1>1. RInv /\ answers \in [Packets -> Nat]
  BY InitRInvariant DEF Init
<1>2. \A p \in Packets : Placed(p)
  BY DEF Init, Placed, Gone, Nowhere, NoMain, NoWait, Idle
<1> QED
  BY <1>1, <1>2 DEF PInv

\* The counts of OnePlace, from the places.
LEMMA PlacesCounted ==
  ASSUME PInv
  PROVE  OnePlace
<1> SUFFICES ASSUME NEW p \in Packets
             PROVE  AtMain(p) + OnRequests(p) + answers[p] = IF Gone(p) THEN 0 ELSE 1
  BY DEF OnePlace, Gone
<1>1. \A s : /\ NoPos(s, p) => Cardinality(Positions(p, s)) = 0
             /\ OnePos(s, p) => Cardinality(Positions(p, s)) = 1
  <2> TAKE s
  <2>1. ASSUME NoPos(s, p) PROVE Positions(p, s) = {}
    BY <2>1 DEF NoPos, Positions
  <2>2. ASSUME OnePos(s, p) PROVE \E k : Positions(p, s) = {k}
    BY <2>2 DEF OnePos, Positions
  <2>3. ASSUME OnePos(s, p) PROVE Cardinality(Positions(p, s)) = 1
    BY <2>2, <2>3, FS_Singleton, Zenon
  <2>4. ASSUME NoPos(s, p) PROVE Cardinality(Positions(p, s)) = 0
    BY <2>1, <2>4, FS_EmptySet, Zenon
  <2> QED
    BY <2>3, <2>4
<1>2. NoMain(main, p) => AtMain(p) = 0
  BY <1>1 DEF NoMain, AtMain
<1>3. OneMain(main, p) => AtMain(p) = 1
  BY <1>1 DEF OneMain, AtMain
<1> DEFINE waits == UNION {{<<r, k>> : k \in Positions(p, r.packets)} : r \in requests}
<1>4. NoWait(requests, p) => OnRequests(p) = 0
  <2> SUFFICES ASSUME NoWait(requests, p) PROVE OnRequests(p) = 0
    OBVIOUS
  <2>1. waits = {}
    BY DEF NoWait, NoPos, Positions
  <2> QED
    BY <2>1, FS_EmptySet DEF OnRequests
<1>5. OneWait(requests, p) => OnRequests(p) = 1
  <2> SUFFICES ASSUME OneWait(requests, p) PROVE OnRequests(p) = 1
    OBVIOUS
  <2>1. PICK r \in requests :
          OnePos(r.packets, p) /\ \A s \in requests : s # r => NoPos(s.packets, p)
    BY DEF OneWait
  <2>2. PICK k : Positions(p, r.packets) = {k}
    BY <2>1 DEF OnePos, Positions
  <2>3. \A s \in requests : s # r => Positions(p, s.packets) = {}
    BY <2>1 DEF NoPos, Positions
  <2>4. waits = {<<r, k>>}
    BY <2>2, <2>3
  <2> QED
    BY <2>4, FS_Singleton DEF OnRequests
<1> QED
  BY <1>2, <1>3, <1>4, <1>5 DEF PInv, Placed, Nowhere, InOnePlace

\* No packet is lost, sent twice, or both sent and reported unreachable, however
\* the reading thread and the timeout thread interleave.
THEOREM RouterOnePlace == Spec => []OnePlace
<1>1. Spec => []PInv
  BY InitPInvariant, StepPInvariant, PTL DEF Spec
<1> QED
  BY <1>1, PlacesCounted, PTL
=============================================================================

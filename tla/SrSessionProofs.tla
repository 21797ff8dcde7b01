--------------------------- MODULE SrSessionProofs ---------------------------
(***************************************************************************)
(* Proofs about the router's session with its server and the routing table *)
(* it loads there, whatever messages the server sends and however recv()   *)
(* cuts them: the session loads its table as SrRouteLookup says, and the   *)
(* last match is the longest one of a sorted table, of any width and       *)
(* length; the router reads the messages that were sent, each whole and in *)
(* their order; it hands no packet on before it knows its interfaces, and  *)
(* those are the interfaces the server announced, all with a port.         *)
(***************************************************************************)
EXTENDS SrSession, ListLemmas

\* The table holds whole lines of a file: a line appended to a list of lines
\* leaves a list of lines.
LEMMA TypeInvariant == Spec => []TypeOK
<1>1. Init => TypeOK
  BY EmptySeq, Zenon DEF Init, TypeOK
<1>2. TypeOK /\ [Next]_vars => TypeOK'
  <2> SUFFICES ASSUME TypeOK, [Next]_vars
               PROVE  TypeOK'
    OBVIOUS
  <2>1. CASE Load
    BY <2>1 DEF Load, TypeOK
  <2>2. ASSUME NEW r \in Lines, LoadLine(r)
        PROVE  TypeOK'
    <3>1. (IF cleared THEN table ELSE <<>>) \in Seq(Lines)
      BY DEF TypeOK
    <3> QED
      BY <2>2, <3>1 DEF LoadLine, Added, TypeOK
  <2>3. CASE UNCHANGED vars
    BY <2>3 DEF vars, TypeOK
  <2> QED
    BY <2>1, <2>2, <2>3 DEF Next
<1> QED
  BY <1>1, <1>2, PTL DEF Spec

\* A masked comparison of two addresses says that the network contains one.
LEMMA MatchesInNetwork ==
  ASSUME NEW r, NEW ip
  PROVE  Matches(r, ip) <=> InNetwork(ip, r)
BY DEF Matches, InNetwork

\* The lookup returns the largest position that matches.
LEMMA LookupIsLast ==
  ASSUME TypeOK, NEW ip, Matching(ip) # {}
  PROVE  /\ Lookup(ip) \in Matching(ip)
         /\ \A j \in Matching(ip) : j <= Lookup(ip)
<1>1. Len(table) \in Nat /\ Matching(ip) \in SUBSET (1..Len(table))
  BY DEF TypeOK, Matching
<1>2. \E i \in Matching(ip) : \A j \in Matching(ip) : j <= i
  BY <1>1, LargestOf, Zenon
<1> QED
  BY <1>2, Zenon DEF Lookup

\* The positions that match are those of the networks that contain the address.
LEMMA MatchingInNetwork ==
  ASSUME NEW ip, NEW i \in DOMAIN table
  PROVE  i \in Matching(ip) <=> InNetwork(ip, table[i])
<1>1. Matches(table[i], ip) <=> InNetwork(ip, table[i])
  BY MatchesInNetwork, Zenon
<1> QED
  BY <1>1, Zenon DEF Matching

\* A table that lists longer masks after shorter ones makes sr_rtentry_for_ip()
\* a longest-prefix match, whatever the addresses and the number of routes.
THEOREM LastIsLongest == Spec => []SortedMeansLongest
<1>1. TypeOK => SortedMeansLongest
  <2> SUFFICES ASSUME TypeOK, Sorted, NEW ip \in SUBSET Bits
               PROVE  IsLongestMatch(ip)
    BY Zenon DEF SortedMeansLongest
  <2>1. CASE Matching(ip) = {}
    <3>1. Lookup(ip) = 0
      BY <2>1, Zenon DEF Lookup
    <3>2. \A i \in DOMAIN table : ~InNetwork(ip, table[i])
      BY <2>1, MatchingInNetwork, Zenon
    <3> QED
      BY <3>1, <3>2, Zenon DEF IsLongestMatch
  <2>2. CASE Matching(ip) # {}
    <3> DEFINE l == Lookup(ip)
    <3>1. l \in Matching(ip) /\ \A j \in Matching(ip) : j <= l
      BY <2>2, LookupIsLast, Zenon
    <3> HIDE DEF l
    <3>2. l \in DOMAIN table /\ l # 0
      BY <3>1 DEF Matching, TypeOK
    <3>3. InNetwork(ip, table[l])
      BY <3>1, <3>2, MatchingInNetwork, Zenon
    <3>4. \A i \in DOMAIN table : InNetwork(ip, table[i]) => PrefixLen(i) <= PrefixLen(l)
      <4> SUFFICES ASSUME NEW i \in DOMAIN table, InNetwork(ip, table[i])
                   PROVE  PrefixLen(i) <= PrefixLen(l)
        BY Zenon
      <4>1. i <= l
        BY <3>1, MatchingInNetwork, Zenon
      <4> QED
        BY <3>2, <4>1, Zenon DEF Sorted
    <3> QED
      BY <3>2, <3>3, <3>4, Zenon DEF IsLongestMatch, l
  <2> QED
    BY <2>1, <2>2
<1> QED
  BY <1>1, TypeInvariant, PTL
-----------------------------------------------------------------------------
\* Every step of a session is a step of the table's, or leaves the table alone.
LEMMA StepLoads ==
  ASSUME [SessionNext]_sessionVars
  PROVE  [Next]_vars
<1>1. CASE ReadLine
  BY <1>1, Zenon DEF ReadLine, Next
<1>2. CASE ReadsAll
  <2>1. CASE cleared
    BY <1>2, <2>1, Zenon DEF ReadsAll, Next
  <2>2. CASE ~cleared
    BY <1>2, <2>2 DEF ReadsAll, vars
  <2> QED
    BY <2>1, <2>2
<1>3. CASE LoadFails \/ ConnectFails \/ ReadFails
  BY <1>3 DEF LoadFails, ConnectFails, ReadFails, Ends, vars
<1>4. CASE Connect \/ Recv
  BY <1>4 DEF Connect, Recv, vars
<1>5. CASE Refuse \/ Show \/ HandleAuthRequest \/ HandleAuthStatus \/ HandleRtable
  BY <1>5 DEF Refuse, Show, HandleAuthRequest, HandleAuthStatus, HandleRtable, Quiet, vars
<1>6. CASE ReadHwinfo \/ ReadPacket
  BY <1>6 DEF ReadHwinfo, ReadPacket, vars
<1>7. CASE Reactor \/ PacketIn \/ Banner \/ Close
  BY <1>7 DEF Reactor, ListClient, AskClient, RecvAuthReply, RecvOpen, RecvOpenTemplate, RecvPacket,
              PacketIn, Banner, Close, ToRouter, vars
<1>8. CASE RouterInfo \/ ConnectionBreaks
  BY <1>8 DEF RouterInfo, ConnectionBreaks, vars
<1>9. CASE UNCHANGED sessionVars
  BY <1>9 DEF sessionVars, vars
<1> QED
  BY <1>1, <1>2, <1>3, <1>4, <1>5, <1>6, <1>7, <1>8, <1>9, Zenon DEF SessionNext, Router

\* A session loads its routing table, once or twice, as SrRouteLookup says.
THEOREM SessionLoads == SessionSpec => LoadsTable
<1>1. SessionInit => Init
  BY DEF SessionInit
<1> QED
  BY <1>1, StepLoads, PTL DEF SessionSpec, LoadsTable, Spec

\* In a session, too, the last match is the longest one of a sorted table.
THEOREM SessionLongest == SessionSpec => []SortedMeansLongest
BY SessionLoads, LastIsLongest, PTL DEF LoadsTable
-----------------------------------------------------------------------------
\* Before the main loop the router has no interfaces; in it, once it has some, its
\* routes lead to them: the table was loaded before and checked when they came.
Checked == /\ pc \notin {"loop", "ended", "aborted"} => ifs = <<>>
           /\ pc = "loop" /\ ifs # <<>> => RoutesLead

\* The steps that change neither the interfaces nor the table leave it so, unless
\* they enter the loop.
LEMMA CheckedKept ==
  ASSUME Checked, UNCHANGED <<ifs, table>>,
         pc' = pc \/ pc' \in {"ended", "aborted"} \/ (pc' # "loop" /\ pc \notin {"loop", "ended", "aborted"})
  PROVE  Checked'
BY DEF Checked, RoutesLead, Named

\* The first messages, and the end: the router goes on to a message or stops.
LEMMA TakenKept ==
  ASSUME Checked, UNCHANGED <<ifs, table>>, NEW types, NEW p, Take(types, p),
         p = pc \/ p \in {"ended", "aborted"} \/ (p # "loop" /\ pc \notin {"loop", "ended", "aborted"})
  PROVE  Checked'
BY CheckedKept, Zenon DEF Take

\* The routes are checked whenever the loop goes on with interfaces.
LEMMA CheckedInvariant == SessionSpec => []Checked
<1>1. SessionInit => Checked
  BY DEF SessionInit, Checked
<1>2. ASSUME Checked, [SessionNext]_sessionVars
      PROVE  Checked'
  <2>1. CASE ReadLine
    BY <1>2, <2>1 DEF ReadLine, Loading, routerVars, Checked
  <2>2. CASE ReadsAll
    BY <1>2, <2>2 DEF ReadsAll, Loading, Checked
  <2>3. CASE LoadFails \/ ConnectFails \/ ReadFails
    BY <1>2, <2>3, CheckedKept DEF LoadFails, ConnectFails, ReadFails, Ends
  <2>4. CASE Connect \/ Recv
    BY <1>2, <2>4, CheckedKept DEF Connect, Recv
  <2>5. CASE Refuse
    BY <1>2, <2>5, TakenKept DEF Refuse, Quiet
  <2>6. CASE Show
    <3>1. pc = "loop"
      BY <2>6 DEF Show, Take, Expected, Reading
    <3> QED
      BY <1>2, <2>6, <3>1, TakenKept DEF Show, Quiet
  <2>7. CASE HandleAuthRequest
    BY <1>2, <2>7, TakenKept DEF HandleAuthRequest, Quiet
  <2>8. CASE HandleAuthStatus
    BY <1>2, <2>8, TakenKept DEF HandleAuthStatus, Quiet
  <2>9. CASE HandleRtable
    BY <1>2, <2>9, TakenKept DEF HandleRtable, Quiet
  <2>10. CASE ReadHwinfo
    <3>1. pc' \in {"loop", "ended"} /\ (pc' = "loop" => Verified(ifs', table)) /\ table' = table
      BY <2>10 DEF ReadHwinfo, Take
    <3>2. pc' = "loop" => RoutesLead'
      BY <3>1 DEF Verified, RoutesLead, Named
    <3> QED
      BY <3>1, <3>2 DEF Checked
  <2>11. CASE ReadPacket
    BY <1>2, <2>11, TakenKept DEF ReadPacket
  <2>12. CASE Reactor \/ PacketIn \/ Banner \/ Close
    <3>1. UNCHANGED <<pc, ifs, table>>
      BY <2>12 DEF Reactor, ListClient, AskClient, RecvAuthReply, RecvOpen, RecvOpenTemplate,
                   RecvPacket, PacketIn, Banner, Close, ToRouter, routerVars
    <3> QED
      BY <1>2, <3>1, CheckedKept
  <2>13. CASE RouterInfo \/ ConnectionBreaks
    BY <1>2, <2>13, CheckedKept DEF RouterInfo, ConnectionBreaks, routerVars
  <2>14. CASE UNCHANGED sessionVars
    BY <1>2, <2>14, CheckedKept DEF sessionVars, routerVars
  <2> QED
    BY <1>2, <2>1, <2>2, <2>3, <2>4, <2>5, <2>6, <2>7, <2>8, <2>9, <2>10, <2>11, <2>12, <2>13, <2>14,
       Zenon DEF SessionNext, Router
<1> QED
  BY <1>1, <1>2, PTL DEF SessionSpec

\* A packet with room for an ARP header reaches sr_handlepacket() only when the
\* router has its interface and those of its routes, whatever the network sends.
THEOREM PassedReady == SessionSpec => PassedWhenReady
<1> DEFINE Ready == \A m \in passed' \ passed : m.size # "short" => Exists(m) /\ RoutesLead
<1>1. ASSUME Checked, [SessionNext]_sessionVars
      PROVE  Ready
  <2>1. CASE ReadPacket
    <3> SUFFICES ASSUME NEW m \in passed' \ passed, m.size # "short"
                 PROVE  Exists(m) /\ RoutesLead
      OBVIOUS
    <3>1. m = Message /\ ~Aborts(Message) /\ pc = "loop"
      BY <2>1 DEF ReadPacket
    <3>2. Exists(m)
      BY <3>1 DEF Aborts
    <3>3. ifs # <<>>
      BY <3>2 DEF Exists, Named
    <3> QED
      BY <1>1, <3>1, <3>2, <3>3 DEF Checked
  <2>2. CASE ~ReadPacket
    <3>1. passed' = passed
      <4>1. CASE ReadLine \/ ReadsAll \/ LoadFails \/ ConnectFails \/ Connect \/ Recv \/ ReadFails
        BY <4>1 DEF ReadLine, ReadsAll, LoadFails, ConnectFails, Connect, Recv, ReadFails, Ends, routerVars
      <4>2. CASE Refuse \/ Show \/ HandleAuthRequest \/ HandleAuthStatus \/ HandleRtable \/ ReadHwinfo
        BY <4>2 DEF Refuse, Show, HandleAuthRequest, HandleAuthStatus, HandleRtable, ReadHwinfo, Quiet
      <4>3. CASE Reactor \/ PacketIn \/ Banner \/ Close
        BY <4>3 DEF Reactor, ListClient, AskClient, RecvAuthReply, RecvOpen, RecvOpenTemplate,
                    RecvPacket, PacketIn, Banner, Close, ToRouter, routerVars
      <4>4. CASE RouterInfo \/ ConnectionBreaks
        BY <4>4 DEF RouterInfo, ConnectionBreaks, routerVars
      <4>5. CASE UNCHANGED sessionVars
        BY <4>5 DEF sessionVars, routerVars
      <4> QED
        BY <1>1, <2>2, <4>1, <4>2, <4>3, <4>4, <4>5, Zenon DEF SessionNext, Router
    <3> QED
      BY <3>1
  <2> QED
    BY <2>1, <2>2
<1> QED
  BY <1>1, CheckedInvariant, PTL DEF SessionSpec, PassedWhenReady
-----------------------------------------------------------------------------
(* The stream of cells                                                     *)

\* What the server may send.
Messages == {[type |-> t] : t \in {"AUTH_REQUEST", "RTABLE", "BANNER", "CLOSE"}}
            \cup {AuthStatus(ok) : ok \in BOOLEAN}
            \cup {HardwareInfo(info) : info \in Infos}
            \cup Packets
Cell == [msg : Messages, at : Nat]

\* s is a stream of cells of the messages ms after the first k: idx says which
\* message each cell is of.
Carries(s, ms, k, idx) ==
  /\ idx \in [1..Len(s) -> 1..Len(ms)]
  /\ \A j \in 1..Len(s) : s[j].msg = ms[idx[j]] /\ s[j].at \in 1..Size(ms[idx[j]])
  /\ Len(s) > 0 => idx[1] = k + 1 /\ s[1].at = 1
  /\ \A j \in 1..(Len(s) - 1) :
       IF s[j].at < Size(ms[idx[j]])
       THEN idx[j + 1] = idx[j] /\ s[j + 1].at = s[j].at + 1
       ELSE idx[j + 1] = idx[j] + 1 /\ s[j + 1].at = 1

\* and it ends with the last cell of the last of them.
CarriesAll(s, ms, k, idx) ==
  IF Len(s) = 0 THEN k = Len(ms)
  ELSE idx[Len(s)] = Len(ms) /\ s[Len(s)].at = Size(ms[Len(ms)])

LEMMA SizeType == \A m : Size(m) \in {MaxLen, MaxLen + 1}
BY DEF Size, MaxLen

\* A stream cut short is a stream.
LEMMA CarriesPart ==
  ASSUME NEW s \in Seq(Cell), NEW ms \in Seq(Messages), NEW k \in Nat, NEW idx,
         Carries(s, ms, k, idx), NEW n \in 0..Len(s)
  PROVE  \E i : Carries(SubSeq(s, 1, n), ms, k, i)
<1>1. PICK t \in Seq(Cell) : t = SubSeq(s, 1, n)
  BY FirstPart, Zenon
<1>2. Len(t) = n /\ \A j \in 1..n : t[j] = s[j]
  BY <1>1, FirstPart
<1> DEFINE i == [j \in 1..n |-> idx[j]]
<1>3. Carries(t, ms, k, i)
  <2>1. i \in [1..n -> 1..Len(ms)]
    <3>1. idx \in [1..Len(s) -> 1..Len(ms)]
      BY Zenon DEF Carries
    <3>2. \A j \in 1..n : j \in 1..Len(s)
      OBVIOUS
    <3>3. \A j \in 1..n : idx[j] \in 1..Len(ms)
      BY <3>1, <3>2, Zenon
    <3> QED
      BY <3>3, Zenon
  <2>2. \A j \in 1..n : i[j] = idx[j] /\ j \in 1..Len(s)
    OBVIOUS
  <2>3. \A j \in 1..(n - 1) : j \in 1..(Len(s) - 1) /\ j \in 1..n /\ j + 1 \in 1..n
    OBVIOUS
  <2> HIDE DEF i
  <2>4. \A j \in 1..n : t[j].msg = ms[i[j]] /\ t[j].at \in 1..Size(ms[i[j]])
    BY <1>2, <2>2 DEF Carries
  <2>5. n > 0 => i[1] = k + 1 /\ t[1].at = 1
    BY <1>2, <2>2 DEF Carries
  <2>6. \A j \in 1..(n - 1) :
          IF t[j].at < Size(ms[i[j]])
          THEN i[j + 1] = i[j] /\ t[j + 1].at = t[j].at + 1
          ELSE i[j + 1] = i[j] + 1 /\ t[j + 1].at = 1
    <3> SUFFICES ASSUME NEW j \in 1..(n - 1)
                 PROVE  IF t[j].at < Size(ms[i[j]])
                        THEN i[j + 1] = i[j] /\ t[j + 1].at = t[j].at + 1
                        ELSE i[j + 1] = i[j] + 1 /\ t[j + 1].at = 1
      BY Zenon
    <3>1. IF s[j].at < Size(ms[idx[j]])
          THEN idx[j + 1] = idx[j] /\ s[j + 1].at = s[j].at + 1
          ELSE idx[j + 1] = idx[j] + 1 /\ s[j + 1].at = 1
      BY <2>3, Zenon DEF Carries
    <3>2. t[j] = s[j] /\ t[j + 1] = s[j + 1] /\ i[j] = idx[j] /\ i[j + 1] = idx[j + 1]
      BY <1>2, <2>2, <2>3, Zenon
    <3> QED
      BY <3>1, <3>2, Zenon
  <2> QED
    BY <1>2, <2>1, <2>4, <2>5, <2>6 DEF Carries
<1> QED
  BY <1>1, <1>3, Zenon

LEMMA CellsType ==
  ASSUME NEW m \in Messages
  PROVE  /\ Cells(m) \in Seq(Cell)
         /\ Len(Cells(m)) = Size(m)
         /\ \A j \in 1..Size(m) : Cells(m)[j].msg = m /\ Cells(m)[j].at = j
<1>1. Size(m) \in Nat
  BY SizeType DEF MaxLen
<1>2. \A j \in 1..Size(m) : [msg |-> m, at |-> j] \in Cell
  BY <1>1 DEF Cell
<1> QED
  BY <1>1, <1>2 DEF Cells

\* The cells of one message more go on with a stream.
LEMMA CarriesMore ==
  ASSUME NEW s \in Seq(Cell), NEW ms \in Seq(Messages), NEW k \in 0..Len(ms), NEW idx,
         Carries(s, ms, k, idx), CarriesAll(s, ms, k, idx), NEW m \in Messages
  PROVE  \E i : /\ Carries(s \o Cells(m), Append(ms, m), k, i)
                /\ CarriesAll(s \o Cells(m), Append(ms, m), k, i)
<1>1. PICK n \in Nat : n = Len(s)
  OBVIOUS
<1>2. PICK l \in Nat : l = Len(ms)
  OBVIOUS
<1>3. PICK z \in Nat : z = Size(m) /\ z > 0
  BY SizeType DEF MaxLen
<1>4. PICK cs \in Seq(Cell) : cs = Cells(m)
  BY CellsType, Zenon
<1>5. Len(cs) = z /\ \A j \in 1..z : cs[j].msg = m /\ cs[j].at = j
  BY <1>3, <1>4, CellsType
<1>6. PICK t \in Seq(Cell) : t = s \o cs
  <2>1. s \o cs \in Seq(Cell)
    OBVIOUS
  <2> QED
    BY <2>1, Zenon
<1>7. /\ Len(t) = n + z
      /\ \A j \in 1..n : t[j] = s[j]
      /\ \A j \in (n + 1)..(n + z) : t[j] = cs[j - n]
  <2>1. n = Len(s) /\ z = Len(cs)
    BY <1>1, <1>5
  <2> QED
    BY <1>6, <2>1, Joined
<1>8. PICK ns \in Seq(Messages) : ns = Append(ms, m)
  <2>1. Append(ms, m) \in Seq(Messages)
    OBVIOUS
  <2> QED
    BY <2>1, Zenon
<1>9. Len(ns) = l + 1 /\ ns[l + 1] = m /\ \A j \in 1..l : ns[j] = ms[j]
  BY <1>2, <1>8
<1> DEFINE i == [j \in 1..(n + z) |-> IF j <= n THEN idx[j] ELSE l + 1]
<1>10. /\ idx \in [1..n -> 1..l]
       /\ \A j \in 1..n : s[j].msg = ms[idx[j]] /\ s[j].at \in 1..Size(ms[idx[j]])
       /\ n > 0 => idx[1] = k + 1 /\ s[1].at = 1
       /\ \A j \in 1..(n - 1) :
            IF s[j].at < Size(ms[idx[j]])
            THEN idx[j + 1] = idx[j] /\ s[j + 1].at = s[j].at + 1
            ELSE idx[j + 1] = idx[j] + 1 /\ s[j + 1].at = 1
  BY <1>1, <1>2 DEF Carries
<1>11. IF n = 0 THEN k = l ELSE idx[n] = l /\ s[n].at = Size(ms[l])
  BY <1>1, <1>2 DEF CarriesAll
<1>12. i \in [1..(n + z) -> 1..(l + 1)]
  BY <1>10
<1>13. \A j \in 1..n : i[j] = idx[j] /\ i[j] \in 1..l /\ t[j] = s[j]
  <2> SUFFICES ASSUME NEW j \in 1..n
               PROVE  i[j] = idx[j] /\ i[j] \in 1..l /\ t[j] = s[j]
    OBVIOUS
  <2>1. j \in 1..(n + z) /\ j <= n
    OBVIOUS
  <2>2. i[j] = idx[j]
    BY <2>1, Zenon
  <2>3. idx[j] \in 1..l
    BY <1>10, Zenon
  <2> QED
    BY <1>7, <2>2, <2>3, Zenon
<1>14. \A j \in (n + 1)..(n + z) : i[j] = l + 1 /\ t[j].msg = m /\ t[j].at = j - n
  <2> SUFFICES ASSUME NEW j \in (n + 1)..(n + z)
               PROVE  i[j] = l + 1 /\ t[j].msg = m /\ t[j].at = j - n
    OBVIOUS
  <2>1. j - n \in 1..z /\ ~(j <= n) /\ j \in 1..(n + z)
    OBVIOUS
  <2>2. t[j] = cs[j - n]
    BY <1>7, <2>1
  <2> QED
    BY <1>5, <2>1, <2>2
<1> HIDE DEF i
<1>15. \A j \in 1..(n + z) : t[j].msg = ns[i[j]] /\ t[j].at \in 1..Size(ns[i[j]])
  <2> SUFFICES ASSUME NEW j \in 1..(n + z)
               PROVE  t[j].msg = ns[i[j]] /\ t[j].at \in 1..Size(ns[i[j]])
    OBVIOUS
  <2>1. CASE j <= n
    <3>1. j \in 1..n
      BY <2>1
    <3>2. ns[i[j]] = ms[idx[j]] /\ t[j] = s[j]
      BY <1>9, <1>13, <3>1
    <3>3. s[j].msg = ms[idx[j]] /\ s[j].at \in 1..Size(ms[idx[j]])
      BY <1>10, <3>1, Zenon
    <3> QED
      BY <3>2, <3>3, Zenon
  <2>2. CASE ~(j <= n)
    <3>1. j \in (n + 1)..(n + z)
      BY <2>2
    <3>2. ns[i[j]] = m
      BY <1>9, <1>14, <3>1
    <3>3. t[j].msg = m /\ t[j].at \in 1..z
      <4>1. t[j].msg = m /\ t[j].at = j - n
        BY <1>14, <3>1, Zenon
      <4>2. j - n \in 1..z
        BY <3>1
      <4> QED
        BY <4>1, <4>2, Zenon
    <3> QED
      BY <1>3, <3>2, <3>3, Zenon
  <2> QED
    BY <2>1, <2>2
<1>16. i[1] = k + 1 /\ t[1].at = 1
  <2>1. CASE n = 0
    <3>1. 1 \in (n + 1)..(n + z)
      BY <1>3, <2>1
    <3> QED
      BY <1>11, <1>14, <2>1, <3>1
  <2>2. CASE n # 0
    <3>1. n > 0 /\ 1 \in 1..n
      BY <2>2
    <3>2. i[1] = idx[1] /\ t[1] = s[1]
      BY <1>13, <3>1, Zenon
    <3>3. idx[1] = k + 1 /\ s[1].at = 1
      BY <1>10, <3>1, Zenon
    <3> QED
      BY <3>2, <3>3, Zenon
  <2> QED
    BY <2>1, <2>2
<1>17. ASSUME NEW j \in 1..(n + z - 1)
       PROVE  IF t[j].at < Size(ns[i[j]])
              THEN i[j + 1] = i[j] /\ t[j + 1].at = t[j].at + 1
              ELSE i[j + 1] = i[j] + 1 /\ t[j + 1].at = 1
  <2>1. CASE j < n
    <3>1. j \in 1..(n - 1) /\ j \in 1..n /\ j + 1 \in 1..n
      BY <2>1
    <3>2. ns[i[j]] = ms[idx[j]]
      BY <1>9, <1>13, <3>1
    <3> QED
      BY <1>10, <1>13, <3>1, <3>2
  <2>2. CASE j = n
    <3>1. n > 0 /\ n \in 1..n /\ n + 1 \in (n + 1)..(n + z)
      BY <1>3, <2>2
    <3>2. i[n] = l /\ t[n].at = Size(ms[l]) /\ ns[l] = ms[l]
      <4>1. i[n] = idx[n] /\ t[n] = s[n] /\ i[n] \in 1..l
        BY <1>13, <3>1, Zenon
      <4>2. idx[n] = l /\ s[n].at = Size(ms[l])
        BY <1>11, <3>1
      <4>3. l \in 1..l
        BY <4>1, <4>2, Zenon
      <4> QED
        BY <1>9, <4>1, <4>2, <4>3, Zenon
    <3>3. ~(t[n].at < Size(ns[i[n]]))
      <4>1. Size(ms[l]) \in {MaxLen, MaxLen + 1}
        BY SizeType, Zenon
      <4>2. ~(Size(ms[l]) < Size(ms[l]))
        BY <4>1 DEF MaxLen
      <4> QED
        BY <3>2, <4>2, Zenon
    <3>4. i[n + 1] = i[n] + 1 /\ t[n + 1].at = 1
      BY <1>14, <3>1, <3>2
    <3> QED
      BY <2>2, <3>3, <3>4
  <2>3. CASE j > n
    <3>1. j \in (n + 1)..(n + z) /\ j + 1 \in (n + 1)..(n + z)
      BY <2>3
    <3>2. i[j] = l + 1 /\ t[j].at = j - n
      BY <1>14, <3>1
    <3>3. i[j + 1] = l + 1 /\ t[j + 1].at = j + 1 - n
      BY <1>14, <3>1
    <3>4. ns[i[j]] = m
      BY <1>9, <3>2
    <3>5. t[j].at < Size(ns[i[j]])
      BY <1>3, <3>1, <3>2, <3>4
    <3> QED
      BY <3>2, <3>3, <3>5
  <2> QED
    BY <2>1, <2>2, <2>3
<1>18. Carries(t, ns, k, i)
  <2>1. \A j \in 1..(Len(t) - 1) :
          IF t[j].at < Size(ns[i[j]])
          THEN i[j + 1] = i[j] /\ t[j + 1].at = t[j].at + 1
          ELSE i[j + 1] = i[j] + 1 /\ t[j + 1].at = 1
    BY <1>7, <1>17
  <2>2. i \in [1..Len(t) -> 1..Len(ns)]
    BY <1>7, <1>9, <1>12
  <2>3. \A j \in 1..Len(t) : t[j].msg = ns[i[j]] /\ t[j].at \in 1..Size(ns[i[j]])
    BY <1>7, <1>15
  <2> QED
    BY <1>16, <2>1, <2>2, <2>3 DEF Carries
<1>19. CarriesAll(t, ns, k, i)
  <2>1. n + z \in (n + 1)..(n + z) /\ n + z # 0
    BY <1>3
  <2>2. i[n + z] = l + 1 /\ t[n + z].at = z
    BY <1>14, <2>1
  <2> QED
    BY <1>3, <1>7, <1>9, <2>1, <2>2 DEF CarriesAll
<1> QED
  BY <1>4, <1>6, <1>8, <1>18, <1>19, Zenon

\* A stream with as many cells as its first message has begins with that message.
LEMMA CarriesFirst ==
  ASSUME NEW s \in Seq(Cell), NEW ms \in Seq(Messages), NEW k \in Nat, NEW idx,
         Carries(s, ms, k, idx), Len(s) > 0,
         NEW z \in Nat, z = Size(s[1].msg), z <= Len(s)
  PROVE  /\ k + 1 \in 1..Len(ms) /\ s[1].msg = ms[k + 1]
         /\ \A j \in 1..z : s[j].msg = ms[k + 1] /\ s[j].at = j /\ idx[j] = k + 1
<1>1. PICK n \in Nat : n = Len(s)
  OBVIOUS
<1>2. /\ idx \in [1..n -> 1..Len(ms)]
      /\ \A j \in 1..n : s[j].msg = ms[idx[j]]
      /\ idx[1] = k + 1 /\ s[1].at = 1
      /\ \A j \in 1..(n - 1) :
           s[j].at < Size(ms[idx[j]]) => idx[j + 1] = idx[j] /\ s[j + 1].at = s[j].at + 1
  BY <1>1 DEF Carries
<1>3. k + 1 \in 1..Len(ms) /\ s[1].msg = ms[k + 1] /\ z = Size(ms[k + 1])
  <2>1. 1 \in 1..n
    BY <1>1
  <2> QED
    BY <1>2, <2>1
<1>4. z \in {3, 4} /\ z <= n
  BY <1>1, SizeType DEF MaxLen
<1>5. idx[2] = k + 1 /\ s[2].at = 2
  <2>1. 1 \in 1..(n - 1) /\ 1 + 1 = 2 /\ 1 < z
    BY <1>4
  <2> QED
    BY <1>2, <1>3, <2>1
<1>6. idx[3] = k + 1 /\ s[3].at = 3
  <2>1. 2 \in 1..(n - 1) /\ 2 + 1 = 3 /\ 2 < z
    BY <1>4
  <2> QED
    BY <1>2, <1>3, <1>5, <2>1
<1>7. z = 4 => idx[4] = k + 1 /\ s[4].at = 4
  <2> SUFFICES ASSUME z = 4
               PROVE  idx[4] = k + 1 /\ s[4].at = 4
    OBVIOUS
  <2>1. 3 \in 1..(n - 1) /\ 3 + 1 = 4 /\ 3 < z
    BY <1>4
  <2> QED
    BY <1>2, <1>3, <1>6, <2>1
<1>8. ASSUME NEW j \in 1..z
      PROVE  s[j].msg = ms[k + 1] /\ s[j].at = j /\ idx[j] = k + 1
  <2>1. s[j].at = j /\ idx[j] = k + 1
    <3>1. j = 1 \/ j = 2 \/ j = 3 \/ (j = 4 /\ z = 4)
      BY <1>4
    <3>2. CASE j = 1
      BY <1>2, <3>2
    <3>3. CASE j = 2
      BY <1>5, <3>3
    <3>4. CASE j = 3
      BY <1>6, <3>4
    <3>5. CASE j = 4 /\ z = 4
      BY <1>7, <3>5
    <3> QED
      BY <3>1, <3>2, <3>3, <3>4, <3>5, Zenon
  <2>2. j \in 1..n
    BY <1>4
  <2> QED
    BY <1>2, <2>1, <2>2
<1> QED
  BY <1>3, <1>8

\* Without it, it is a stream of the messages after that one.
LEMMA CarriesRest ==
  ASSUME NEW s \in Seq(Cell), NEW ms \in Seq(Messages), NEW k \in Nat, NEW idx,
         Carries(s, ms, k, idx), Len(s) > 0,
         NEW z \in Nat, z = Size(s[1].msg), z <= Len(s)
  PROVE  \E i : /\ Carries(SubSeq(s, z + 1, Len(s)), ms, k + 1, i)
                /\ CarriesAll(s, ms, k, idx) => CarriesAll(SubSeq(s, z + 1, Len(s)), ms, k + 1, i)
<1>1. PICK n \in Nat : n = Len(s) - z
  OBVIOUS
<1>0. z \in 0..Len(s)
  OBVIOUS
<1>2. PICK t \in Seq(Cell) : t = SubSeq(s, z + 1, Len(s))
  BY <1>0, LastPart, Zenon
<1>3. Len(t) = n /\ \A j \in 1..n : t[j] = s[z + j]
  BY <1>0, <1>1, <1>2, LastPart
<1> DEFINE i == [j \in 1..n |-> idx[z + j]]
<1>4. /\ idx \in [1..Len(s) -> 1..Len(ms)]
      /\ \A j \in 1..Len(s) : s[j].msg = ms[idx[j]] /\ s[j].at \in 1..Size(ms[idx[j]])
      /\ \A j \in 1..(Len(s) - 1) :
           IF s[j].at < Size(ms[idx[j]])
           THEN idx[j + 1] = idx[j] /\ s[j + 1].at = s[j].at + 1
           ELSE idx[j + 1] = idx[j] + 1 /\ s[j + 1].at = 1
  BY Zenon DEF Carries
<1>5. z \in 1..z /\ z > 0
  BY SizeType DEF MaxLen
<1>6. /\ k + 1 \in 1..Len(ms) /\ s[1].msg = ms[k + 1]
      /\ s[z].at = z /\ idx[z] = k + 1
  <2>1. /\ k + 1 \in 1..Len(ms) /\ s[1].msg = ms[k + 1]
        /\ \A j \in 1..z : s[j].msg = ms[k + 1] /\ s[j].at = j /\ idx[j] = k + 1
    BY CarriesFirst
  <2> QED
    BY <1>5, <2>1, Zenon
<1>7. \A j \in 1..n : i[j] = idx[z + j] /\ z + j \in 1..Len(s)
  BY <1>1, <1>5
<1>8. i \in [1..n -> 1..Len(ms)]
  <2>1. \A j \in 1..n : z + j \in 1..Len(s)
    BY <1>1, <1>5
  <2>2. \A j \in 1..n : idx[z + j] \in 1..Len(ms)
    BY <1>4, <2>1, Zenon
  <2> QED
    BY <2>2, Zenon
<1> HIDE DEF i
<1>9. \A j \in 1..n : t[j].msg = ms[i[j]] /\ t[j].at \in 1..Size(ms[i[j]])
  <2> SUFFICES ASSUME NEW j \in 1..n
               PROVE  t[j].msg = ms[i[j]] /\ t[j].at \in 1..Size(ms[i[j]])
    OBVIOUS
  <2>1. t[j] = s[z + j] /\ i[j] = idx[z + j] /\ z + j \in 1..Len(s)
    BY <1>3, <1>7, Zenon
  <2> QED
    BY <1>4, <2>1, Zenon
<1>10. n > 0 => i[1] = k + 2 /\ t[1].at = 1
  <2> SUFFICES ASSUME n > 0
               PROVE  i[1] = k + 2 /\ t[1].at = 1
    OBVIOUS
  <2>1. z \in 1..(Len(s) - 1) /\ 1 \in 1..n
    BY <1>1, <1>5
  <2>2. ~(s[z].at < Size(ms[idx[z]]))
    BY <1>6
  <2>3. idx[z + 1] = idx[z] + 1 /\ s[z + 1].at = 1
    BY <1>4, <2>1, <2>2
  <2>4. t[1] = s[z + 1] /\ i[1] = idx[z + 1]
    BY <1>3, <1>7, <2>1, Zenon
  <2>5. i[1] = (k + 1) + 1 /\ t[1].at = 1
    BY <1>6, <2>3, <2>4, Zenon
  <2>6. (k + 1) + 1 = k + 2
    OBVIOUS
  <2> QED
    BY <2>5, <2>6, Zenon
<1>11. ASSUME NEW j \in 1..(n - 1)
       PROVE  IF t[j].at < Size(ms[i[j]])
              THEN i[j + 1] = i[j] /\ t[j + 1].at = t[j].at + 1
              ELSE i[j + 1] = i[j] + 1 /\ t[j + 1].at = 1
  <2>1. j \in 1..n /\ j + 1 \in 1..n /\ z + j \in 1..(Len(s) - 1) /\ (z + j) + 1 = z + (j + 1)
    <3>1. j \in 1..n /\ j + 1 \in 1..n /\ (z + j) + 1 = z + (j + 1)
      OBVIOUS
    <3>2. z + j \in 1..(Len(s) - 1)
      <4>1. PICK q \in Nat : q = Len(s)
        OBVIOUS
      <4>2. q = z + n
        BY <1>1, <4>1
      <4>3. z + j \in 1..(q - 1)
        BY <4>2
      <4> QED
        BY <4>1, <4>3, Zenon
    <3> QED
      BY <3>1, <3>2, Zenon
  <2>2. t[j] = s[z + j] /\ t[j + 1] = s[z + (j + 1)] /\ i[j] = idx[z + j] /\ i[j + 1] = idx[z + (j + 1)]
    BY <1>3, <1>7, <2>1, Zenon
  <2>3. IF s[z + j].at < Size(ms[idx[z + j]])
        THEN idx[(z + j) + 1] = idx[z + j] /\ s[(z + j) + 1].at = s[z + j].at + 1
        ELSE idx[(z + j) + 1] = idx[z + j] + 1 /\ s[(z + j) + 1].at = 1
    BY <1>4, <2>1, Zenon
  <2> QED
    BY <2>1, <2>2, <2>3, Zenon
<1>12. Carries(t, ms, k + 1, i)
  <2>1. \A j \in 1..(Len(t) - 1) :
          IF t[j].at < Size(ms[i[j]])
          THEN i[j + 1] = i[j] /\ t[j + 1].at = t[j].at + 1
          ELSE i[j + 1] = i[j] + 1 /\ t[j + 1].at = 1
    BY <1>3, <1>11
  <2>2. i \in [1..Len(t) -> 1..Len(ms)]
    BY <1>3, <1>8
  <2>3. \A j \in 1..Len(t) : t[j].msg = ms[i[j]] /\ t[j].at \in 1..Size(ms[i[j]])
    BY <1>3, <1>9
  <2>4. Len(t) > 0 => i[1] = (k + 1) + 1 /\ t[1].at = 1
    BY <1>3, <1>10
  <2> QED
    BY <2>1, <2>2, <2>3, <2>4 DEF Carries
<1>13. ASSUME CarriesAll(s, ms, k, idx)
       PROVE  CarriesAll(t, ms, k + 1, i)
  <2>1. idx[z + n] = Len(ms) /\ s[z + n].at = Size(ms[Len(ms)])
    BY <1>1, <1>5, <1>13 DEF CarriesAll
  <2>2. CASE n = 0
    BY <1>3, <1>6, <2>1, <2>2 DEF CarriesAll
  <2>3. CASE n # 0
    <3>1. n \in 1..n
      BY <2>3
    <3>2. i[n] = idx[z + n] /\ t[n] = s[z + n]
      BY <1>3, <1>7, <3>1
    <3> QED
      BY <1>3, <2>1, <2>3, <3>2 DEF CarriesAll
  <2> QED
    BY <2>2, <2>3
<1> QED
  BY <1>2, <1>12, <1>13, Zenon
-----------------------------------------------------------------------------
(* The interfaces                                                          *)

Described == [name : Ifaces, mac : Nat, ip : Nat]
Interface == [name : Ifaces, mac : Nat \cup {None}, ip : Nat \cup {None}]
Entry == [key : {"HWINTERFACE"}, value : Ifaces] \cup [key : {"HWETHER", "HWETHIP"}, value : Nat]

LEMMA InfoType ==
  ASSUME NEW info \in Infos
  PROVE  info \in Seq(Described)
BY SessionAssumption DEF SessionAssumption, Described

\* The entries of an interface are the three from the one after those of the
\* interfaces before it.
LEMMA EntriesOf ==
  ASSUME NEW info \in Infos, NEW es, es = HardwareInfo(info).entries
  PROVE  /\ es \in Seq(Entry) /\ Len(es) = 3 * Len(info)
         /\ \A i \in 1..Len(info) :
              /\ es[3 * i - 2] = [key |-> "HWINTERFACE", value |-> info[i].name]
              /\ es[3 * i - 1] = [key |-> "HWETHER",     value |-> info[i].mac]
              /\ es[3 * i]     = [key |-> "HWETHIP",     value |-> info[i].ip]
<1> DEFINE P == [i \in DOMAIN info |-> Packed(info[i])]
<1>0. info \in Seq(Described)
  BY InfoType, Zenon
<1>1. PICK n \in Nat : n = Len(info) /\ DOMAIN info = 1..n
  BY <1>0
<1>2. \A i \in 1..n : info[i] \in Described
  BY <1>0, <1>1
<1>3. ASSUME NEW i \in 1..n
      PROVE  /\ Packed(info[i]) \in Seq(Entry) /\ Len(Packed(info[i])) = 3
             /\ Packed(info[i])[1] = [key |-> "HWINTERFACE", value |-> info[i].name]
             /\ Packed(info[i])[2] = [key |-> "HWETHER", value |-> info[i].mac]
             /\ Packed(info[i])[3] = [key |-> "HWETHIP", value |-> info[i].ip]
  <2>1. /\ [key |-> "HWINTERFACE", value |-> info[i].name] \in Entry
        /\ [key |-> "HWETHER", value |-> info[i].mac] \in Entry
        /\ [key |-> "HWETHIP", value |-> info[i].ip] \in Entry
    BY <1>2 DEF Entry, Described
  <2> QED
    BY <2>1 DEF Packed
<1>4. P \in Seq(Seq(Entry)) /\ Len(P) = n /\ \A i \in 1..n : P[i] = Packed(info[i])
  <2> DEFINE T == Seq(Entry)
  <2>1. \A i \in 1..n : Packed(info[i]) \in T
    BY <1>3, Zenon
  <2> HIDE DEF T
  <2>2. P = [i \in 1..n |-> Packed(info[i])]
    BY <1>1
  <2>3. P \in Seq(T) /\ Len(P) = n /\ \A i \in 1..n : P[i] = Packed(info[i])
    <3> HIDE DEF P
    <3> QED
      BY <2>1, <2>2
  <2> QED
    BY <2>3 DEF T
<1> HIDE DEF P
<1>5. PICK f : Flattens(f, P, Entry)
  BY <1>4, FlattenSteps, Zenon
<1>6. /\ f \in [0..n -> Seq(Entry)] /\ f[0] = <<>>
      /\ \A i \in 1..n : f[i] = f[i - 1] \o Packed(info[i])
  BY <1>4, <1>5 DEF Flattens
<1>7. es = f[n]
  <2>1. es = FlattenSeq(P)
    BY Zenon DEF HardwareInfo, P
  <2> QED
    BY <1>4, <1>5, <2>1 DEF Flattens
<1> DEFINE Right(k) == /\ Len(f[k]) = 3 * k
                       /\ \A i \in 1..k : /\ f[k][3 * i - 2] = Packed(info[i])[1]
                                          /\ f[k][3 * i - 1] = Packed(info[i])[2]
                                          /\ f[k][3 * i] = Packed(info[i])[3]
           Done == {k \in 0..n : Right(k)}
<1>8. 0 \in Done
  BY <1>6
<1>9. ASSUME NEW k \in 0..(n - 1), k \in Done
      PROVE  k + 1 \in Done
  <2>1. k + 1 \in 1..n /\ k + 1 \in 0..n /\ k \in 0..n /\ (k + 1) - 1 = k
    OBVIOUS
  <2>2. PICK a \in Seq(Entry) : a = f[k]
    BY <1>6, <2>1
  <2>3. PICK b \in Seq(Entry) : b = Packed(info[k + 1])
    BY <1>3, <2>1
  <2>q. PICK q \in Nat : q = 3 * k
    OBVIOUS
  <2>4. Len(b) = 3 /\ Len(a) = q
    BY <1>3, <1>9, <2>1, <2>2, <2>3, <2>q
  <2>5. f[k + 1] = a \o b
    BY <1>6, <2>1, <2>2, <2>3
  <2>6. /\ Len(a \o b) = q + 3
        /\ \A j \in 1..q : (a \o b)[j] = a[j]
        /\ \A j \in 1..3 : (a \o b)[q + j] = b[j]
    <3>1. PICK m \in Nat : m = 3
      OBVIOUS
    <3>2. q = Len(a) /\ m = Len(b)
      BY <2>4, <3>1
    <3>3. Len(a \o b) = q + m
      BY <3>2
    <3>4. \A j \in 1..q : (a \o b)[j] = a[j]
      BY <3>2
    <3>5. \A j \in 1..m : (a \o b)[q + j] = b[j]
      BY <3>2
    <3> QED
      BY <3>1, <3>3, <3>4, <3>5
  <2>7. ASSUME NEW i \in 1..(k + 1)
        PROVE  /\ (a \o b)[3 * i - 2] = Packed(info[i])[1]
               /\ (a \o b)[3 * i - 1] = Packed(info[i])[2]
               /\ (a \o b)[3 * i] = Packed(info[i])[3]
    <3>1. CASE i = k + 1
      <4>1. 3 * i - 2 = q + 1 /\ 3 * i - 1 = q + 2 /\ 3 * i = q + 3
        BY <2>q, <3>1
      <4>2. (a \o b)[q + 1] = b[1] /\ (a \o b)[q + 2] = b[2] /\ (a \o b)[q + 3] = b[3]
        BY <2>6
      <4> QED
        BY <2>3, <3>1, <4>1, <4>2
    <3>2. CASE i # k + 1
      <4>1. i \in 1..k
        BY <3>2
      <4>2. a[3 * i - 2] = Packed(info[i])[1] /\ a[3 * i - 1] = Packed(info[i])[2] /\ a[3 * i] = Packed(info[i])[3]
        BY <1>9, <2>2, <4>1
      <4>3. 3 * i - 2 \in 1..q /\ 3 * i - 1 \in 1..q /\ 3 * i \in 1..q
        BY <2>q, <4>1
      <4> QED
        BY <2>6, <4>2, <4>3
    <3> QED
      BY <3>1, <3>2
  <2>8. Right(k + 1)
    <3>1. Len(f[k + 1]) = 3 * (k + 1)
      BY <2>5, <2>6, <2>q
    <3> QED
      BY <2>5, <2>7, <3>1
  <2> QED
    BY <2>1, <2>8
<1>10. n \in Done
  <2>1. 0..n \subseteq Done
    <3> HIDE DEF Done
    <3> QED
      BY <1>8, <1>9, Induction, Zenon
  <2>2. n \in 0..n
    OBVIOUS
  <2> HIDE DEF Done
  <2> QED
    BY <2>1, <2>2
<1>11. n \in 0..n
  OBVIOUS
<1> QED
  BY <1>1, <1>3, <1>6, <1>7, <1>10, <1>11

LEMMA HandleEntryType ==
  ASSUME NEW l \in Seq(Interface), NEW e \in Entry
  PROVE  HandleEntry(l, e) \in Seq(Interface)
<1>1. CASE e.key = "HWINTERFACE"
  <2>1. [name |-> e.value, mac |-> None, ip |-> None] \in Interface
    BY <1>1 DEF Entry, Interface
  <2> QED
    BY <1>1, <2>1 DEF HandleEntry, AddInterface
<1>2. ASSUME e.key \in {"HWETHER", "HWETHIP"}, NEW field \in {"mac", "ip"}
      PROVE  SetLast(l, field, e.value) \in Seq(Interface)
  <2>1. e.value \in Nat
    BY <1>2 DEF Entry
  <2>2. CASE Len(l) = 0
    <3>1. PICK v : v = [l[0] EXCEPT ![field] = e.value]
      OBVIOUS
    <3>2. [l EXCEPT ![0] = v] = l
      BY <2>2
    <3>3. SetLast(l, field, e.value) = [l EXCEPT ![0] = v]
      BY <2>2, <3>1 DEF SetLast
    <3> QED
      BY <3>2, <3>3
  <2>3. CASE Len(l) # 0
    <3>1. Len(l) \in 1..Len(l) /\ l[Len(l)] \in Interface
      BY <2>3
    <3>2. [l[Len(l)] EXCEPT ![field] = e.value] \in Interface
      BY <1>2, <2>1, <3>1 DEF Interface
    <3>3. [l EXCEPT ![Len(l)] = [l[Len(l)] EXCEPT ![field] = e.value]] \in Seq(Interface)
      BY <3>1, <3>2
    <3> QED
      BY <3>3 DEF SetLast
  <2> QED
    BY <2>2, <2>3
<1>3. e.key \in {"HWINTERFACE", "HWETHER", "HWETHIP"}
  BY DEF Entry
<1> QED
  BY <1>1, <1>2, <1>3 DEF HandleEntry

\* The three entries of an interface add it to the list.
LEMMA HandlesThree ==
  ASSUME NEW l \in Seq(Interface), NEW i \in Described, NEW e, NEW f, NEW g,
         e = [key |-> "HWINTERFACE", value |-> i.name],
         f = [key |-> "HWETHER", value |-> i.mac],
         g = [key |-> "HWETHIP", value |-> i.ip]
  PROVE  HandleEntry(HandleEntry(HandleEntry(l, e), f), g) = Append(l, i)
<1>1. PICK n \in Nat : n = Len(l)
  OBVIOUS
<1>2. PICK x : x = [name |-> i.name, mac |-> None, ip |-> None]
  OBVIOUS
<1>3. PICK y : y = [name |-> i.name, mac |-> i.mac, ip |-> None]
  OBVIOUS
<1>4. x \in Interface /\ y \in Interface /\ i \in Interface
  BY <1>2, <1>3 DEF Interface, Described
<1>5. HandleEntry(l, e) = Append(l, x)
  BY <1>2 DEF HandleEntry, AddInterface
<1>6. ASSUME NEW u \in Interface, NEW v \in Interface, NEW field, v = [u EXCEPT ![field] = v[field]]
      PROVE  SetLast(Append(l, u), field, v[field]) = Append(l, v)
  <2>1. PICK b \in Seq(Interface) : b = Append(l, u)
    BY AppendProperties, Zenon
  <2>2. PICK c \in Seq(Interface) : c = Append(l, v)
    BY AppendProperties, Zenon
  <2>3. Len(b) = n + 1 /\ b[n + 1] = u /\ \A j \in 1..n : b[j] = l[j]
    BY <1>1, <2>1
  <2>4. Len(c) = n + 1 /\ c[n + 1] = v /\ \A j \in 1..n : c[j] = l[j]
    BY <1>1, <2>2
  <2>5. SetLast(b, field, v[field]) = [b EXCEPT ![n + 1] = v]
    <3>1. SetLast(b, field, v[field]) = [b EXCEPT ![n + 1] = [b[n + 1] EXCEPT ![field] = v[field]]]
      BY <2>3 DEF SetLast
    <3> QED
      BY <1>6, <2>3, <3>1
  <2>6. [b EXCEPT ![n + 1] = v] = c
    <3>0. n + 1 \in 1..Len(b) /\ [b EXCEPT ![n + 1] = v] \in Seq(Interface)
      BY <1>1, <2>3
    <3>1. PICK d \in Seq(Interface) : d = [b EXCEPT ![n + 1] = v]
      BY <3>0, Zenon
    <3>2. Len(d) = n + 1 /\ \A j \in 1..(n + 1) : d[j] = IF j = n + 1 THEN v ELSE b[j]
      BY <2>3, <3>1
    <3>3. \A j \in 1..(n + 1) : d[j] = c[j]
      BY <2>3, <2>4, <3>2
    <3> QED
      BY <2>4, <3>1, <3>2, <3>3, SeqEqual
  <2> QED
    BY <2>1, <2>2, <2>5, <2>6
<1>7. HandleEntry(Append(l, x), f) = Append(l, y)
  <2>1. y = [x EXCEPT !["mac"] = y["mac"]]
    BY <1>2, <1>3
  <2>2. SetLast(Append(l, x), "mac", y["mac"]) = Append(l, y)
    BY <1>4, <1>6, <2>1
  <2> QED
    BY <1>3, <2>2 DEF HandleEntry
<1>8. HandleEntry(Append(l, y), g) = Append(l, i)
  <2>1. i = [y EXCEPT !["ip"] = i["ip"]]
    BY <1>3 DEF Described
  <2>2. SetLast(Append(l, y), "ip", i["ip"]) = Append(l, i)
    BY <1>4, <1>6, <2>1
  <2> QED
    BY <2>2 DEF HandleEntry
<1> QED
  BY <1>5, <1>7, <1>8

\* A list of interfaces that arrives as VNSHWINFO is appended as it is.
LEMMA HandlesAll ==
  ASSUME NEW l \in Seq(Interface), NEW info \in Infos
  PROVE  HandleHwinfo(l, HardwareInfo(info)) = l \o info
<1>1. PICK es : es = HardwareInfo(info).entries
  OBVIOUS
<1>2. info \in Seq(Described)
  BY InfoType, Zenon
<1>3. PICK n \in Nat : n = Len(info)
  BY <1>2
<1>4. PICK m \in Nat : m = 3 * n
  BY <1>3
<1>5. /\ es \in Seq(Entry) /\ Len(es) = m
      /\ \A i \in 1..n : /\ es[3 * i - 2] = [key |-> "HWINTERFACE", value |-> info[i].name]
                         /\ es[3 * i - 1] = [key |-> "HWETHER",     value |-> info[i].mac]
                         /\ es[3 * i]     = [key |-> "HWETHIP",     value |-> info[i].ip]
  BY <1>1, <1>3, <1>4, EntriesOf
<1> DEFINE A == Seq(Interface)
           G == [j \in 1..m |-> [x \in A |-> HandleEntry(x, es[j])]]
<1>6. G \in [1..m -> [A -> A]]
  <2>1. \A j \in 1..m : es[j] \in Entry
    BY <1>5
  <2>2. \A j \in 1..m, x \in A : HandleEntry(x, es[j]) \in A
    BY <2>1, HandleEntryType
  <2> HIDE DEF A
  <2> QED
    BY <2>2
<1>7. PICK h : Solves(h, m, A, l, G)
  <2>1. l \in A
    OBVIOUS
  <2> HIDE DEF A, G
  <2> QED
    BY <1>4, <1>6, <2>1, Recursion, Zenon
<1> HIDE DEF A
<1>8. /\ h \in [0..m -> A] /\ h[0] = l
      /\ \A j \in 1..m : h[j] = HandleEntry(h[j - 1], es[j])
  <2>1. h \in [0..m -> A] /\ h[0] = l /\ \A j \in 1..m : h[j] = G[j][h[j - 1]]
    BY <1>7, Zenon DEF Solves, Follows
  <2>2. \A j \in 1..m : h[j - 1] \in A
    BY <2>1
  <2> QED
    BY <2>1, <2>2
<1> HIDE DEF G
<1> DEFINE after[j \in 0..m] == IF j = 0 THEN l ELSE HandleEntry(after[j - 1], es[j])
<1>9. after = [j \in 0..m |-> IF j = 0 THEN l ELSE HandleEntry(after[j - 1], es[j])]
  <2>1. h = [j \in 0..m |-> IF j = 0 THEN l ELSE HandleEntry(h[j - 1], es[j])]
    BY <1>8
  <2> QED
    BY <2>1, Zenon
<1>10. HandleHwinfo(l, HardwareInfo(info)) = after[m]
  BY <1>1, <1>5, Zenon DEF HandleHwinfo
<1> HIDE DEF after
<1> DEFINE Upto == {k \in 0..n : after[3 * k] = l \o SubSeq(info, 1, k)}
<1>11. 0 \in Upto
  <2>1. after[0] = l
    BY <1>9
  <2>2. SubSeq(info, 1, 0) = <<>> /\ l \o <<>> = l
    BY <1>2
  <2> QED
    BY <2>1, <2>2
<1>12. ASSUME NEW k \in 0..(n - 1), k \in Upto
       PROVE  k + 1 \in Upto
  <2>1. PICK q \in Nat : q = 3 * k
    OBVIOUS
  <2>2. q + 3 <= m /\ q + 3 = 3 * (k + 1) /\ k + 1 \in 1..n
    BY <1>4, <2>1
  <2>3. /\ after[q + 1] = HandleEntry(after[q], es[q + 1])
        /\ after[q + 2] = HandleEntry(after[q + 1], es[q + 2])
        /\ after[q + 3] = HandleEntry(after[q + 2], es[q + 3])
    <3>1. ASSUME NEW j \in 1..m
          PROVE  after[j] = HandleEntry(after[j - 1], es[j])
      BY <1>9
    <3>2. q + 1 \in 1..m /\ q + 2 \in 1..m /\ q + 3 \in 1..m
      BY <2>2
    <3>3. q + 1 - 1 = q /\ q + 2 - 1 = q + 1 /\ q + 3 - 1 = q + 2
      OBVIOUS
    <3> QED
      BY <3>1, <3>2, <3>3
  <2>4. /\ es[q + 1] = [key |-> "HWINTERFACE", value |-> info[k + 1].name]
        /\ es[q + 2] = [key |-> "HWETHER",     value |-> info[k + 1].mac]
        /\ es[q + 3] = [key |-> "HWETHIP",     value |-> info[k + 1].ip]
    <3>1. 3 * (k + 1) - 2 = q + 1 /\ 3 * (k + 1) - 1 = q + 2 /\ 3 * (k + 1) = q + 3
      BY <2>1
    <3> QED
      BY <1>5, <2>2, <3>1
  <2>5. PICK p \in Seq(Described) : p = SubSeq(info, 1, k)
    <3>1. k \in 0..Len(info)
      BY <1>3
    <3> QED
      BY <1>2, <3>1, FirstPart, Zenon
  <2>i. PICK i \in Described : i = info[k + 1]
    <3>1. info[k + 1] \in Described
      BY <1>2, <1>3, <2>2
    <3> QED
      BY <3>1, Zenon
  <2>6. i \in Interface
    BY DEF Described, Interface
  <2>7. l \o p \in Seq(Interface)
    <3>1. p \in Seq(Interface)
      BY SeqMonotonic DEF Described, Interface
    <3> QED
      BY <3>1
  <2>8. after[q] = l \o p
    BY <1>12, <2>1, <2>5
  <2>9. after[q + 3] = Append(l \o p, i)
    <3>1. HandleEntry(HandleEntry(HandleEntry(l \o p, es[q + 1]), es[q + 2]), es[q + 3]) = Append(l \o p, i)
      <4>1. PICK u \in Seq(Interface) : u = l \o p
        BY <2>7, Zenon
      <4>2. PICK e, f, g : e = es[q + 1] /\ f = es[q + 2] /\ g = es[q + 3]
        OBVIOUS
      <4>3. /\ e = [key |-> "HWINTERFACE", value |-> i.name]
            /\ f = [key |-> "HWETHER",     value |-> i.mac]
            /\ g = [key |-> "HWETHIP",     value |-> i.ip]
        BY <2>4, <2>i, <4>2, Zenon
      <4>4. HandleEntry(HandleEntry(HandleEntry(u, e), f), g) = Append(u, i)
        BY <4>3, HandlesThree
      <4> QED
        BY <4>1, <4>2, <4>4, Zenon
    <3> QED
      BY <2>3, <2>8, <3>1
  <2>10. Append(l \o p, i) = l \o SubSeq(info, 1, k + 1)
    <3>1. k + 1 \in 1..Len(info)
      BY <1>3, <2>2
    <3>2. SubSeq(info, 1, k + 1) = Append(p, i)
      BY <1>2, <2>5, <2>i, <3>1
    <3>3. Append(l \o p, i) = l \o Append(p, i)
      BY <2>5, <2>6
    <3> QED
      BY <3>2, <3>3
  <2>11. k + 1 \in 0..n
    OBVIOUS
  <2>12. after[3 * (k + 1)] = l \o SubSeq(info, 1, k + 1)
    BY <2>2, <2>9, <2>10, Zenon
  <2> QED
    BY <2>11, <2>12
<1>13. n \in Upto
  <2>1. 0..n \subseteq Upto
    <3> HIDE DEF Upto
    <3> QED
      BY <1>3, <1>11, <1>12, Induction, Zenon
  <2>2. n \in 0..n
    BY <1>3
  <2> HIDE DEF Upto
  <2> QED
    BY <2>1, <2>2
<1> QED
  <2>1. SubSeq(info, 1, n) = info
    BY <1>2, <1>3, SubSeqFull
  <2> QED
    BY <1>4, <1>10, <1>13, <2>1
-----------------------------------------------------------------------------
(* The stream in a session                                                 *)

\* What the router has not taken of the connection is the stream of the messages
\* it has not received, whole until the connection is lost.
StreamInv ==
  /\ sent \in Seq(Messages) /\ received \in Seq(Messages)
  /\ buf \in Seq(Cell) /\ wire \in Seq(Cell)
  /\ Len(received) <= Len(sent)
  /\ \A i \in 1..Len(received) : received[i] = sent[i]
  /\ \E idx : /\ Carries(buf \o wire, sent, Len(received), idx)
              /\ ~Lost => CarriesAll(buf \o wire, sent, Len(received), idx)
  /\ interfaces \in Infos \cup {None}
  /\ pc \in {"loading", "connecting"} => conn = "none"

streamVars == <<sent, received, buf, wire, interfaces>>

LEMMA StreamTypes ==
  ASSUME StreamInv
  PROVE  /\ buf \in Seq(Cell) /\ wire \in Seq(Cell)
         /\ sent \in Seq(Messages) /\ received \in Seq(Messages)
BY Zenon DEF StreamInv

\* Streams are put together in any order of the steps.
Joins(a, b, c) ==
  a \o b \in Seq(Cell) /\ b \o c \in Seq(Cell) /\ a \o (b \o c) = (a \o b) \o c

LEMMA CellsAssoc ==
  ASSUME NEW a \in Seq(Cell), NEW b \in Seq(Cell), NEW c \in Seq(Cell)
  PROVE  Joins(a, b, c)
<1>1. a \o b \in Seq(Cell) /\ b \o c \in Seq(Cell) /\ a \o (b \o c) = (a \o b) \o c
  BY JoinAssoc
<1> QED
  BY <1>1, Zenon DEF Joins

LEMMA StreamKept ==
  ASSUME StreamInv, UNCHANGED streamVars, Lost' \/ ~Lost,
         pc' \in {"loading", "connecting"} => conn' = "none"
  PROVE  StreamInv'
<1>1. \E idx : /\ Carries(buf' \o wire', sent', Len(received'), idx)
               /\ ~Lost' => CarriesAll(buf' \o wire', sent', Len(received'), idx)
  <2>1. PICK idx : /\ Carries(buf \o wire, sent, Len(received), idx)
                   /\ ~Lost => CarriesAll(buf \o wire, sent, Len(received), idx)
    BY Zenon DEF StreamInv
  <2>2. /\ Carries(buf' \o wire', sent', Len(received'), idx)
        /\ ~Lost' => CarriesAll(buf' \o wire', sent', Len(received'), idx)
    BY <2>1 DEF streamVars
  <2> QED
    BY <2>2, Zenon
<1> QED
  BY <1>1 DEF StreamInv, streamVars

LEMMA PacketsTyped == \A m \in Packets : m \in Messages /\ m.type = "PACKET"
BY SessionAssumption DEF SessionAssumption, Messages

\* What Send() puts on the wire for no, one and two messages.
LEMMA SendNone ==
  ASSUME StreamInv, Send(<<>>)
  PROVE  sent' = sent /\ wire' = wire
<1>1. [i \in DOMAIN <<>> |-> Cells(<<>>[i])] = <<>>
  OBVIOUS
<1>2. FlattenSeq([i \in DOMAIN <<>> |-> Cells(<<>>[i])]) = <<>>
  BY <1>1, FlattenEmpty, Zenon
<1>3. sent' = sent \o <<>> /\ wire' = wire \o <<>>
  BY <1>2, Zenon DEF Send
<1> QED
  BY <1>3 DEF StreamInv

LEMMA SendOne ==
  ASSUME StreamInv, NEW m \in Messages, Send(<<m>>)
  PROVE  sent' = Append(sent, m) /\ wire' = wire \o Cells(m)
<1>1. PICK c \in Seq(Cell) : c = Cells(m)
  BY CellsType, Zenon
<1>2. [i \in DOMAIN <<m>> |-> Cells(<<m>>[i])] = <<c>>
  BY <1>1
<1>3. FlattenSeq([i \in DOMAIN <<m>> |-> Cells(<<m>>[i])]) = c
  BY <1>2, FlattenOne, Zenon
<1>4. sent' = sent \o <<m>> /\ wire' = wire \o c
  BY <1>3, Zenon DEF Send
<1> QED
  BY <1>1, <1>4 DEF StreamInv

LEMMA SendTwo ==
  ASSUME StreamInv, NEW m \in Messages, NEW o \in Messages, Send(<<m, o>>)
  PROVE  sent' = Append(Append(sent, m), o) /\ wire' = (wire \o Cells(m)) \o Cells(o)
<1>1. PICK c \in Seq(Cell) : c = Cells(m)
  BY CellsType, Zenon
<1>2. PICK d \in Seq(Cell) : d = Cells(o)
  BY CellsType, Zenon
<1>3. [i \in DOMAIN <<m, o>> |-> Cells(<<m, o>>[i])] = <<c, d>>
  BY <1>1, <1>2
<1>4. FlattenSeq([i \in DOMAIN <<m, o>> |-> Cells(<<m, o>>[i])]) = c \o d
  BY <1>3, FlattenTwo, Zenon
<1>5. sent' = sent \o <<m, o>> /\ wire' = wire \o (c \o d)
  BY <1>4, Zenon DEF Send
<1>6. sent \o <<m, o>> = Append(Append(sent, m), o)
  <2>1. PICK ms \in Seq(Messages) : ms = sent
    BY StreamTypes, Zenon
  <2>2. ms \o <<m, o>> = Append(Append(ms, m), o)
    OBVIOUS
  <2> QED
    BY <2>1, <2>2, Zenon
<1>7. wire \o (c \o d) = (wire \o c) \o d
  <2>1. wire \in Seq(Cell)
    BY StreamTypes, Zenon
  <2>2. Joins(wire, c, d)
    BY <1>1, <1>2, <2>1, CellsAssoc, Zenon
  <2> QED
    BY <2>2, Zenon DEF Joins
<1> QED
  BY <1>1, <1>2, <1>5, <1>6, <1>7, Zenon

\* A message that is sent goes on with the stream.
LEMMA StreamMore ==
  ASSUME StreamInv, ~Lost, NEW m \in Messages,
         sent' = Append(sent, m), wire' = wire \o Cells(m),
         UNCHANGED <<received, buf, interfaces>>,
         pc' \in {"loading", "connecting"} => conn' = "none"
  PROVE  StreamInv'
<1>1. PICK s \in Seq(Cell) : s = buf \o wire
  <2>0. buf \in Seq(Cell) /\ wire \in Seq(Cell)
    BY StreamTypes, Zenon
  <2>1. buf \o wire \in Seq(Cell)
    BY <2>0
  <2> QED
    BY <2>1, Zenon
<1>2. PICK idx : Carries(s, sent, Len(received), idx) /\ CarriesAll(s, sent, Len(received), idx)
  BY <1>1, Zenon DEF StreamInv
<1>3. PICK k : k = Len(received)
  OBVIOUS
<1>4. k \in 0..Len(sent) /\ sent \in Seq(Messages)
  BY <1>3 DEF StreamInv
<1>5. \E i : /\ Carries(s \o Cells(m), Append(sent, m), k, i)
             /\ CarriesAll(s \o Cells(m), Append(sent, m), k, i)
  BY <1>2, <1>3, <1>4, CarriesMore, Zenon
<1>6. PICK c \in Seq(Cell) : c = Cells(m)
  BY CellsType, Zenon
<1>7. buf' \o wire' = s \o Cells(m) /\ wire' \in Seq(Cell)
  <2>0. buf \in Seq(Cell) /\ wire \in Seq(Cell) /\ c \in Seq(Cell)
    BY <1>6, StreamTypes, Zenon
  <2>1. buf \o (wire \o c) = (buf \o wire) \o c /\ wire \o c \in Seq(Cell)
    <3>1. Joins(buf, wire, c)
      BY <2>0, CellsAssoc, Zenon
    <3> QED
      BY <3>1, Zenon DEF Joins
  <2> QED
    BY <1>1, <1>6, <2>1, Zenon
<1>8. \E i : /\ Carries(buf' \o wire', sent', Len(received'), i)
             /\ ~Lost' => CarriesAll(buf' \o wire', sent', Len(received'), i)
  BY <1>3, <1>5, <1>7, Zenon
<1>9. /\ sent' \in Seq(Messages) /\ Len(sent') = Len(sent) + 1
      /\ \A i \in 1..Len(sent) : sent'[i] = sent[i]
  BY <1>4, Appended
<1>10. /\ received' \in Seq(Messages) /\ buf' \in Seq(Cell)
       /\ Len(received') <= Len(sent') /\ \A i \in 1..Len(received') : received'[i] = sent'[i]
  BY <1>9 DEF StreamInv
<1> QED
  BY <1>7, <1>8, <1>9, <1>10 DEF StreamInv

\* recv() moves cells from the wire to the buffer.
LEMMA StreamRecv ==
  ASSUME StreamInv, Recv
  PROVE  StreamInv'
<1>1. PICK n \in 1..Wanted : /\ n <= Len(wire)
                             /\ buf' = buf \o SubSeq(wire, 1, n)
                             /\ wire' = SubSeq(wire, n + 1, Len(wire))
  BY DEF Recv
<1>2. wire \in Seq(Cell) /\ buf \in Seq(Cell) /\ n \in 0..Len(wire)
  <2>1. wire \in Seq(Cell) /\ buf \in Seq(Cell)
    BY StreamTypes, Zenon
  <2>2. n \in 0..Len(wire)
    BY <1>1, <2>1
  <2> QED
    BY <2>1, <2>2, Zenon
<1>3. wire' \in Seq(Cell) /\ SubSeq(wire, 1, n) \in Seq(Cell)
  BY <1>1, <1>2, FirstPart, LastPart, Zenon
<1>4. buf' \in Seq(Cell)
  BY <1>1, <1>2, <1>3
<1>5. buf' \o wire' = buf \o wire
  BY <1>1, <1>2, MovePart, Zenon
<1>6. UNCHANGED <<sent, received, interfaces, conn, pc>>
  BY DEF Recv, serverVars
<1>7. Lost' = Lost
  BY <1>6 DEF Lost
<1>8. \E i : /\ Carries(buf' \o wire', sent', Len(received'), i)
             /\ ~Lost' => CarriesAll(buf' \o wire', sent', Len(received'), i)
  <2>1. PICK i : /\ Carries(buf \o wire, sent, Len(received), i)
                 /\ ~Lost => CarriesAll(buf \o wire, sent, Len(received), i)
    BY Zenon DEF StreamInv
  <2>2. /\ Carries(buf' \o wire', sent', Len(received'), i)
        /\ ~Lost' => CarriesAll(buf' \o wire', sent', Len(received'), i)
    BY <1>5, <1>6, <1>7, <2>1
  <2> QED
    BY <2>2, Zenon
<1> QED
  BY <1>3, <1>4, <1>6, <1>8 DEF StreamInv

\* The message in a full buffer is the next one that was sent.
LEMMA NextMessage ==
  ASSUME StreamInv, Len(buf) >= LenSize, Wanted = 0
  PROVE  /\ Len(received) + 1 \in 1..Len(sent)
         /\ Message = sent[Len(received) + 1] /\ Message \in Messages
         /\ Len(buf) = Size(buf[1].msg)
<1>1. PICK n \in Nat : n = Len(buf)
  BY DEF StreamInv
<1>2. n >= 2 /\ n = Size(buf[1].msg)
  <2>1. Size(buf[1].msg) \in Int
    BY SizeType DEF MaxLen
  <2> QED
    BY <1>1, <2>1 DEF Wanted, Announced, LenSize
<1>3. PICK s \in Seq(Cell) : s = buf \o wire
  <2>0. buf \in Seq(Cell) /\ wire \in Seq(Cell)
    BY StreamTypes, Zenon
  <2>1. buf \o wire \in Seq(Cell)
    BY <2>0
  <2> QED
    BY <2>1, Zenon
<1>4. n <= Len(s) /\ \A i \in 1..n : s[i] = buf[i]
  <2>1. PICK m \in Nat : m = Len(wire)
    BY StreamTypes
  <2>2. Len(s) = n + m /\ \A i \in 1..n : s[i] = buf[i]
    BY <1>1, <1>3, <2>1, StreamTypes, Joined
  <2> QED
    BY <2>2
<1>5. PICK k \in Nat : k = Len(received)
  BY DEF StreamInv
<1>6. PICK idx : Carries(s, sent, k, idx)
  BY <1>3, <1>5, Zenon DEF StreamInv
<1>7. Len(s) > 0 /\ s[1] = buf[1] /\ sent \in Seq(Messages)
  BY <1>2, <1>4, StreamTypes
<1>8. /\ k + 1 \in 1..Len(sent) /\ s[1].msg = sent[k + 1]
      /\ \A i \in 1..n : s[i].msg = sent[k + 1] /\ s[i].at = i
  BY <1>2, <1>4, <1>6, <1>7, CarriesFirst
<1>9. buf = Cells(buf[1].msg)
  <2>0. buf \in Seq(Cell)
    BY StreamTypes, Zenon
  <2>1. buf[1].msg = sent[k + 1]
    BY <1>7, <1>8, Zenon
  <2>2. \A i \in 1..n : buf[i] = [msg |-> sent[k + 1], at |-> i]
    <3> SUFFICES ASSUME NEW i \in 1..n
                 PROVE  buf[i] = [msg |-> sent[k + 1], at |-> i]
      OBVIOUS
    <3>1. buf[i] \in Cell
      BY <1>1, <2>0
    <3>2. buf[i].msg = sent[k + 1] /\ buf[i].at = i
      BY <1>4, <1>8
    <3> QED
      BY <3>1, <3>2 DEF Cell
  <2>3. buf = [i \in 1..n |-> [msg |-> sent[k + 1], at |-> i]]
    <3>1. buf = [i \in 1..n |-> buf[i]]
      BY <1>1, <2>0
    <3> QED
      BY <2>2, <3>1, Zenon
  <2> QED
    BY <1>2, <2>1, <2>3 DEF Cells
<1>10. Message = sent[k + 1]
  BY <1>7, <1>8, <1>9 DEF Message
<1>11. sent[k + 1] \in Messages
  BY <1>7, <1>8
<1> QED
  BY <1>1, <1>2, <1>5, <1>8, <1>10, <1>11

\* Taking it leaves the stream of those after it.
LEMMA StreamTake ==
  ASSUME StreamInv, NEW types, NEW p, Take(types, p), UNCHANGED <<sent, wire, interfaces, conn>>,
         p \notin {"loading", "connecting"}
  PROVE  StreamInv'
<1>1. PICK k \in Nat : k = Len(received)
  BY DEF StreamInv
<1>2. /\ k + 1 \in 1..Len(sent) /\ Message = sent[k + 1] /\ Message \in Messages
      /\ Len(buf) = Size(buf[1].msg) /\ Len(buf) >= 2
  BY <1>1, NextMessage DEF Take, LenSize
<1>3. received' = Append(received, Message) /\ buf' = <<>> /\ pc' = p
  BY DEF Take
<1>4. PICK n \in Nat : n = Len(buf)
  BY DEF StreamInv
<1>5. PICK s \in Seq(Cell) : s = buf \o wire
  <2>0. buf \in Seq(Cell) /\ wire \in Seq(Cell)
    BY StreamTypes, Zenon
  <2>1. buf \o wire \in Seq(Cell)
    BY <2>0
  <2> QED
    BY <2>1, Zenon
<1>6. /\ n <= Len(s) /\ Len(s) > 0 /\ s[1] = buf[1] /\ n = Size(s[1].msg)
      /\ SubSeq(s, n + 1, Len(s)) = wire
  <2>0. buf \in Seq(Cell) /\ wire \in Seq(Cell)
    BY StreamTypes, Zenon
  <2>1. Len(s) = n + Len(wire) /\ Len(s) > 0 /\ s[1] = buf[1]
    BY <1>2, <1>4, <1>5, <2>0
  <2>2. SubSeq(s, n + 1, Len(s)) = wire
    <3>1. n \in 0..Len(s) /\ Len(s) - n = Len(wire) /\ wire \in Seq(Cell)
      BY <2>0, <2>1
    <3>2. PICK t \in Seq(Cell) : t = SubSeq(s, n + 1, Len(s))
      BY <3>1, LastPart, Zenon
    <3>3. Len(t) = Len(wire) /\ \A i \in 1..Len(wire) : t[i] = s[n + i]
      BY <3>1, <3>2, LastPart
    <3>4. \A i \in 1..Len(wire) : s[n + i] = wire[i]
      BY <1>4, <1>5, <2>0
    <3> QED
      BY <3>1, <3>2, <3>3, <3>4, SeqEqual
  <2> QED
    <3>1. n = Size(s[1].msg)
      BY <1>2, <1>4, <2>1, Zenon
    <3>2. n <= Len(s)
      BY <2>0, <2>1
    <3> QED
      BY <2>1, <2>2, <3>1, <3>2
<1>7. PICK idx : /\ Carries(s, sent, k, idx)
                 /\ ~Lost => CarriesAll(s, sent, k, idx)
  BY <1>1, <1>5, Zenon DEF StreamInv
<1>8. PICK i : /\ Carries(wire, sent, k + 1, i)
               /\ CarriesAll(s, sent, k, idx) => CarriesAll(wire, sent, k + 1, i)
  <2>1. sent \in Seq(Messages)
    BY DEF StreamInv
  <2>2. \E i : /\ Carries(SubSeq(s, n + 1, Len(s)), sent, k + 1, i)
               /\ CarriesAll(s, sent, k, idx) => CarriesAll(SubSeq(s, n + 1, Len(s)), sent, k + 1, i)
    BY <1>6, <1>7, <2>1, CarriesRest
  <2> QED
    BY <1>6, <2>2
<1>9. Len(received') = k + 1 /\ received' \in Seq(Messages) /\ \A j \in 1..(k + 1) : received'[j] = sent[j]
  <2>1. /\ received \in Seq(Messages) /\ Len(received) = k
        /\ \A j \in 1..k : received[j] = sent[j]
    BY <1>1 DEF StreamInv
  <2> QED
    BY <1>2, <1>3, <2>1
<1>10. buf' \o wire' = wire /\ Lost' = Lost /\ buf' \in Seq(Cell) /\ wire' \in Seq(Cell)
  BY <1>3 DEF Lost, StreamInv
<1>11. \E j : /\ Carries(buf' \o wire', sent', Len(received'), j)
              /\ ~Lost' => CarriesAll(buf' \o wire', sent', Len(received'), j)
  <2>1. /\ Carries(buf' \o wire', sent', Len(received'), i)
        /\ ~Lost' => CarriesAll(buf' \o wire', sent', Len(received'), i)
    BY <1>7, <1>8, <1>9, <1>10
  <2> QED
    BY <2>1, Zenon
<1>12. Len(received') <= Len(sent') /\ \A j \in 1..Len(received') : received'[j] = sent'[j]
  BY <1>2, <1>9
<1>13. sent' \in Seq(Messages) /\ interfaces' \in Infos \cup {None}
  BY DEF StreamInv
<1> QED
  BY <1>3, <1>9, <1>10, <1>11, <1>12, <1>13, Zenon DEF StreamInv

\* Two messages that are sent together go on with it one after the other.
LEMMA StreamMoreTwo ==
  ASSUME StreamInv, ~Lost, NEW m \in Messages, NEW o \in Messages,
         sent' = Append(Append(sent, m), o), wire' = (wire \o Cells(m)) \o Cells(o),
         UNCHANGED <<received, buf, interfaces>>,
         pc' \in {"loading", "connecting"} => conn' = "none"
  PROVE  StreamInv'
<1>1. PICK s \in Seq(Cell) : s = buf \o wire
  <2>0. buf \in Seq(Cell) /\ wire \in Seq(Cell)
    BY StreamTypes, Zenon
  <2>1. buf \o wire \in Seq(Cell)
    BY <2>0
  <2> QED
    BY <2>1, Zenon
<1>2. PICK idx : Carries(s, sent, Len(received), idx) /\ CarriesAll(s, sent, Len(received), idx)
  BY <1>1, Zenon DEF StreamInv
<1>3. PICK k : k = Len(received)
  OBVIOUS
<1>4. k \in 0..Len(sent) /\ sent \in Seq(Messages)
  BY <1>3 DEF StreamInv
<1>5. PICK i : /\ Carries(s \o Cells(m), Append(sent, m), k, i)
               /\ CarriesAll(s \o Cells(m), Append(sent, m), k, i)
  BY <1>2, <1>3, <1>4, CarriesMore, Zenon
<1>6. PICK c \in Seq(Cell) : c = Cells(m)
  BY CellsType, Zenon
<1>7. PICK d \in Seq(Cell) : d = Cells(o)
  BY CellsType, Zenon
<1>8. s \o Cells(m) \in Seq(Cell) /\ Append(sent, m) \in Seq(Messages) /\ k \in 0..Len(Append(sent, m))
  <2>1. s \o Cells(m) \in Seq(Cell)
    <3>1. Joins(s, c, c)
      BY <1>1, <1>6, CellsAssoc, Zenon
    <3> QED
      BY <1>6, <3>1, Zenon DEF Joins
  <2>2. Append(sent, m) \in Seq(Messages) /\ Len(Append(sent, m)) = Len(sent) + 1
    BY <1>4, Appended
  <2>3. k \in 0..(Len(sent) + 1)
    BY <1>4
  <2> QED
    BY <2>1, <2>2, <2>3, Zenon
<1>9. \E j : /\ Carries((s \o Cells(m)) \o Cells(o), Append(Append(sent, m), o), k, j)
             /\ CarriesAll((s \o Cells(m)) \o Cells(o), Append(Append(sent, m), o), k, j)
  BY <1>5, <1>8, CarriesMore, Zenon
<1>10. buf' \o wire' = (s \o Cells(m)) \o Cells(o) /\ wire' \in Seq(Cell)
  <2>1. buf \in Seq(Cell) /\ wire \in Seq(Cell) /\ c \in Seq(Cell) /\ d \in Seq(Cell)
    BY <1>6, <1>7, StreamTypes, Zenon
  <2>2. PICK w \in Seq(Cell) : w = wire \o c
    <3>1. Joins(buf, wire, c)
      BY <2>1, CellsAssoc, Zenon
    <3>2. wire \o c \in Seq(Cell)
      BY <3>1, Zenon DEF Joins
    <3> QED
      BY <3>2, Zenon
  <2>3. buf \o (w \o d) = (buf \o w) \o d /\ w \o d \in Seq(Cell)
    <3>1. w \in Seq(Cell)
      BY <2>2, Zenon
    <3>2. Joins(buf, w, d)
      BY <2>1, <3>1, CellsAssoc, Zenon
    <3> QED
      BY <3>2, Zenon DEF Joins
  <2>4. buf \o w = s \o c
    <3>0. Joins(buf, wire, c)
      BY <2>1, CellsAssoc, Zenon
    <3>1. buf \o (wire \o c) = (buf \o wire) \o c
      BY <3>0, Zenon DEF Joins
    <3> QED
      BY <1>1, <2>2, <3>1, Zenon
  <2>5. wire' = w \o d
    BY <1>6, <1>7, <2>2, Zenon
  <2> QED
    BY <1>6, <1>7, <2>3, <2>4, <2>5, Zenon
<1>11. \E j : /\ Carries(buf' \o wire', sent', Len(received'), j)
              /\ ~Lost' => CarriesAll(buf' \o wire', sent', Len(received'), j)
  BY <1>3, <1>9, <1>10, Zenon
<1>12. /\ sent' \in Seq(Messages) /\ Len(sent') = Len(sent) + 2
       /\ \A j \in 1..Len(sent) : sent'[j] = sent[j]
  <2>1. PICK ms \in Seq(Messages) : ms = Append(sent, m)
    BY <1>8, Zenon
  <2>2. Len(ms) = Len(sent) + 1 /\ \A j \in 1..Len(sent) : ms[j] = sent[j]
    BY <1>4, <2>1, Appended
  <2>3. sent' = Append(ms, o)
    BY <2>1, Zenon
  <2>4. /\ sent' \in Seq(Messages) /\ Len(sent') = Len(ms) + 1
        /\ \A j \in 1..Len(ms) : sent'[j] = ms[j]
    BY <2>3, Appended
  <2> QED
    BY <1>4, <2>2, <2>4
<1>13. /\ received' \in Seq(Messages) /\ buf' \in Seq(Cell)
       /\ Len(received') <= Len(sent') /\ \A j \in 1..Len(received') : received'[j] = sent'[j]
  BY <1>12 DEF StreamInv
<1> QED
  BY <1>10, <1>11, <1>12, <1>13 DEF StreamInv

\* A connection that breaks leaves the first cells of the stream.
LEMMA StreamBreaks ==
  ASSUME StreamInv, ConnectionBreaks
  PROVE  StreamInv'
<1>1. PICK n \in 0..Len(wire) : wire' = SubSeq(wire, 1, n)
  BY DEF ConnectionBreaks
<1>2. UNCHANGED <<sent, received, buf, interfaces, pc>> /\ Lost' /\ pc \notin {"loading", "connecting"}
  <2>1. UNCHANGED <<sent, received, buf, interfaces, pc>> /\ Lost'
    BY DEF ConnectionBreaks, routerVars, Lost
  <2>2. pc \notin {"loading", "connecting"}
    BY DEF ConnectionBreaks, StreamInv
  <2> QED
    BY <2>1, <2>2
<1>3. buf \in Seq(Cell) /\ wire \in Seq(Cell)
  BY StreamTypes, Zenon
<1>4. wire' \in Seq(Cell)
  BY <1>1, <1>3, FirstPart, Zenon
<1>5. PICK s \in Seq(Cell) : s = buf \o wire
  <2>1. buf \o wire \in Seq(Cell)
    BY <1>3
  <2> QED
    BY <2>1, Zenon
<1>6. PICK k \in Nat : k = Len(received)
  BY DEF StreamInv
<1>7. PICK idx : Carries(s, sent, k, idx)
  BY <1>5, <1>6, Zenon DEF StreamInv
<1>8. PICK l \in Nat : l = Len(buf) + n /\ l \in 0..Len(s)
  BY <1>3, <1>5
<1>9. buf' \o wire' = SubSeq(s, 1, l)
  <2>1. buf \o SubSeq(wire, 1, n) = SubSeq(buf \o wire, 1, Len(buf) + n)
    BY <1>3
  <2> QED
    BY <1>1, <1>2, <1>5, <1>8, <2>1
<1>10. \E i : Carries(SubSeq(s, 1, l), sent, k, i)
  <2>1. sent \in Seq(Messages)
    BY StreamTypes, Zenon
  <2> QED
    BY <1>7, <1>8, <2>1, CarriesPart, Zenon
<1>11. \E j : /\ Carries(buf' \o wire', sent', Len(received'), j)
              /\ ~Lost' => CarriesAll(buf' \o wire', sent', Len(received'), j)
  BY <1>2, <1>6, <1>9, <1>10
<1> QED
  BY <1>2, <1>4, <1>11 DEF StreamInv

LEMMA StreamInit ==
  ASSUME SessionInit
  PROVE  StreamInv
<1>1. buf \o wire = <<>>
  BY DEF SessionInit
<1> DEFINE i == [j \in 1..0 |-> 1]
<1>2. Carries(<<>>, <<>>, 0, i)
  BY DEF Carries
<1>3. CarriesAll(<<>>, <<>>, 0, i)
  BY DEF CarriesAll
<1>4. sent = <<>> /\ received = <<>> /\ Len(received) = 0
  BY DEF SessionInit
<1>5. \E idx : /\ Carries(buf \o wire, sent, Len(received), idx)
               /\ ~Lost => CarriesAll(buf \o wire, sent, Len(received), idx)
  BY <1>1, <1>2, <1>3, <1>4
<1> QED
  BY <1>4, <1>5 DEF SessionInit, StreamInv

\* ToRouter() on a connection that is not lost, for what the server sends at once.
LEMMA StreamToRouter ==
  ASSUME StreamInv, ~Lost, conn # "none", NEW ms,
         \/ ms = <<>>
         \/ \E m \in Messages : ms = <<m>>
         \/ \E m \in Messages, o \in Messages : ms = <<m, o>>,
         ToRouter(ms)
  PROVE  StreamInv'
<1>1. UNCHANGED <<received, buf, interfaces, pc>> /\ Send(ms)
  BY DEF ToRouter, routerVars
<1>2. pc \notin {"loading", "connecting"}
  BY DEF StreamInv
<1>3. CASE ms = <<>>
  <2>1. sent' = sent /\ wire' = wire
    BY <1>1, <1>3, SendNone
  <2> QED
    BY <1>1, <1>2, <2>1, StreamKept DEF streamVars
<1>4. ASSUME NEW m \in Messages, ms = <<m>>
      PROVE  StreamInv'
  <2>1. sent' = Append(sent, m) /\ wire' = wire \o Cells(m)
    BY <1>1, <1>4, SendOne
  <2> QED
    BY <1>1, <1>2, <2>1, StreamMore
<1>5. ASSUME NEW m \in Messages, NEW o \in Messages, ms = <<m, o>>
      PROVE  StreamInv'
  <2>1. sent' = Append(Append(sent, m), o) /\ wire' = (wire \o Cells(m)) \o Cells(o)
    BY <1>1, <1>5, SendTwo
  <2> QED
    BY <1>1, <1>2, <2>1, StreamMoreTwo
<1> QED
  BY <1>3, <1>4, <1>5

\* Every step of the server but a broken connection.
LEMMA StreamServer ==
  ASSUME StreamInv, Reactor \/ RouterInfo \/ PacketIn \/ Banner \/ Close
  PROVE  StreamInv'
<1>1. interfaces # None => HardwareInfo(interfaces) \in Messages
  BY Zenon DEF StreamInv, Messages
<1>2. CASE ListClient
  BY <1>2, StreamToRouter DEF ListClient, Lost
<1>3. CASE AskClient
  <2>1. [type |-> "AUTH_REQUEST"] \in Messages
    BY DEF Messages
  <2> QED
    BY <1>3, <2>1, StreamToRouter DEF AskClient, Lost
<1>4. CASE RecvAuthReply
  <2>1. PICK ok \in BOOLEAN : ToRouter(<<AuthStatus(ok)>>)
    BY <1>4 DEF RecvAuthReply
  <2>2. AuthStatus(ok) \in Messages
    BY DEF Messages
  <2>3. conn = "asked"
    BY <1>4 DEF RecvAuthReply, Demux
  <2> QED
    BY <2>1, <2>2, <2>3, StreamToRouter DEF Lost
<1>5. CASE RecvOpen
  <2>1. conn = "asked"
    BY <1>5 DEF RecvOpen, Demux
  <2>2. PICK ms : ToRouter(ms) /\ ms = IF interfaces = None THEN <<>> ELSE <<HardwareInfo(interfaces)>>
    BY <1>5 DEF RecvOpen
  <2>3. ms = <<>> \/ \E m \in Messages : ms = <<m>>
    BY <1>1, <2>2
  <2> QED
    BY <2>1, <2>2, <2>3, StreamToRouter DEF Lost
<1>6. CASE RecvOpenTemplate
  <2>1. conn = "asked" /\ interfaces # None
    BY <1>6 DEF RecvOpenTemplate, Demux
  <2>2. PICK m \in Messages : m = [type |-> "RTABLE"]
    BY DEF Messages
  <2>3. PICK o \in Messages : o = HardwareInfo(interfaces)
    BY <1>1, <2>1
  <2>4. ToRouter(<<m, o>>)
    BY <1>6, <2>2, <2>3 DEF RecvOpenTemplate
  <2> QED
    BY <2>1, <2>4, StreamToRouter DEF Lost
<1>7. CASE RecvPacket
  <2>1. conn = "asked" /\ ToRouter(<<>>)
    BY <1>7 DEF RecvPacket, Demux
  <2> QED
    BY <2>1, StreamToRouter DEF Lost
<1>8. CASE RouterInfo
  <2>1. /\ UNCHANGED <<sent, received, buf, wire, pc, conn>> /\ interfaces' \in Infos
        /\ Lost' = Lost
    BY <1>8 DEF RouterInfo, routerVars, Lost
  <2>2. \E idx : /\ Carries(buf' \o wire', sent', Len(received'), idx)
                 /\ ~Lost' => CarriesAll(buf' \o wire', sent', Len(received'), idx)
    <3>1. PICK idx : /\ Carries(buf \o wire, sent, Len(received), idx)
                     /\ ~Lost => CarriesAll(buf \o wire, sent, Len(received), idx)
      BY Zenon DEF StreamInv
    <3>2. /\ Carries(buf' \o wire', sent', Len(received'), idx)
          /\ ~Lost' => CarriesAll(buf' \o wire', sent', Len(received'), idx)
      BY <2>1, <3>1
    <3> QED
      BY <3>2, Zenon
  <2> QED
    BY <2>1, <2>2 DEF StreamInv
<1>9. CASE PacketIn
  <2>1. PICK m \in Packets : ToRouter(<<m>>)
    BY <1>9 DEF PacketIn
  <2>2. m \in Messages
    BY PacketsTyped
  <2>3. conn \in {"listed", "asked"}
    BY <1>9 DEF PacketIn
  <2> QED
    BY <2>1, <2>2, <2>3, StreamToRouter DEF Lost
<1>10. CASE Banner
  <2>1. [type |-> "BANNER"] \in Messages
    BY DEF Messages
  <2>2. conn = "asked" /\ ToRouter(<<[type |-> "BANNER"]>>)
    BY <1>10 DEF Banner
  <2> QED
    BY <2>1, <2>2, StreamToRouter DEF Lost
<1>11. CASE Close
  <2>1. [type |-> "CLOSE"] \in Messages
    BY DEF Messages
  <2>2. conn = "asked" /\ ToRouter(<<[type |-> "CLOSE"]>>)
    BY <1>11 DEF Close
  <2> QED
    BY <2>1, <2>2, StreamToRouter DEF Lost
<1> QED
  BY <1>2, <1>3, <1>4, <1>5, <1>6, <1>7, <1>8, <1>9, <1>10, <1>11, Zenon DEF Reactor

\* Every step of the router.
LEMMA StreamRouter ==
  ASSUME StreamInv, Router
  PROVE  StreamInv'
<1>1. CASE ReadLine
  <2>1. UNCHANGED <<pc, conn, sent, received, buf, wire, interfaces>>
    BY <1>1 DEF ReadLine, routerVars, serverVars
  <2> QED
    BY <2>1, StreamKept DEF streamVars, StreamInv, Lost
<1>2. CASE ReadsAll \/ LoadFails \/ ConnectFails \/ Connect \/ ReadFails
  <2>1. UNCHANGED <<sent, received, buf, wire, interfaces>>
    BY <1>2 DEF ReadsAll, LoadFails, ConnectFails, Connect, ReadFails, Ends, serverVars
  <2>2. /\ Lost' \/ ~Lost
        /\ pc' \in {"loading", "connecting"} => conn' = "none"
    BY <1>2 DEF ReadsAll, LoadFails, ConnectFails, Connect, ReadFails, Ends, serverVars,
                Loading, Lost, StreamInv
  <2> QED
    BY <2>1, <2>2, StreamKept DEF streamVars
<1>3. CASE Recv
  BY <1>3, StreamRecv
<1>4. CASE Refuse \/ Show \/ HandleAuthRequest \/ HandleAuthStatus \/ HandleRtable \/ ReadHwinfo
           \/ ReadPacket
  <2>1. /\ UNCHANGED <<sent, wire, interfaces, conn>>
        /\ \E types, p : Take(types, p) /\ p \notin {"loading", "connecting"}
    BY <1>4 DEF Refuse, Show, HandleAuthRequest, HandleAuthStatus, HandleRtable, ReadHwinfo,
                ReadPacket, Quiet, serverVars
  <2> QED
    BY <2>1, StreamTake, Zenon
<1> QED
  BY <1>1, <1>2, <1>3, <1>4, Zenon DEF Router

LEMMA StreamInvariant == SessionSpec => []StreamInv
<1>1. SessionInit => StreamInv
  BY StreamInit
<1>2. ASSUME StreamInv, [SessionNext]_sessionVars
      PROVE  StreamInv'
  <2>1. CASE Router
    BY <1>2, <2>1, StreamRouter
  <2>2. CASE Reactor \/ RouterInfo \/ PacketIn \/ Banner \/ Close
    BY <1>2, <2>2, StreamServer
  <2>3. CASE ConnectionBreaks
    BY <1>2, <2>3, StreamBreaks
  <2>4. CASE UNCHANGED sessionVars
    <3>1. UNCHANGED <<pc, conn, sent, received, buf, wire, interfaces>>
      BY <2>4 DEF sessionVars, routerVars, serverVars
    <3> QED
      BY <1>2, <3>1, StreamKept DEF streamVars, StreamInv, Lost
  <2> QED
    BY <1>2, <2>1, <2>2, <2>3, <2>4, Zenon DEF SessionNext
<1> QED
  BY <1>1, <1>2, PTL DEF SessionSpec

\* However recv() cuts the stream and wherever the connection breaks, the router
\* reads the messages the server sent, each whole and in their order: what is in
\* its buffer is always the beginning of the next of them (sr_vns_comm.c).
THEOREM ReadsInOrder == SessionSpec => []ReceivedInOrder
<1>1. ASSUME StreamInv
      PROVE  ReceivedInOrder
  <2>1. /\ received \in Seq(Messages) /\ sent \in Seq(Messages) /\ Len(received) <= Len(sent)
        /\ \A i \in 1..Len(received) : received[i] = sent[i]
    BY <1>1, Zenon DEF StreamInv
  <2>2. SubSeq(received, 1, Len(received)) = SubSeq(sent, 1, Len(received))
    BY <2>1
  <2> QED
    BY <2>1, <2>2 DEF ReceivedInOrder, IsPrefix
<1> QED
  BY <1>1, StreamInvariant, PTL
-----------------------------------------------------------------------------
(* What the server announced                                               *)

\* The server has a port for every name of the interfaces.
Known(info) == info \in Infos /\ {info[i].name : i \in DOMAIN info} \subseteq ports

\* The interfaces the server has, and those it announced, have ports.
SentKnown ==
  /\ interfaces # None => Known(interfaces)
  /\ \A i \in DOMAIN sent : sent[i].type = "HWINFO" =>
       \E info \in Infos : Known(info) /\ sent[i] = HardwareInfo(info)

\* An interface of the router is one of those of a message it read.
IfsKnown ==
  /\ ifs \in Seq(Interface)
  /\ \A i \in DOMAIN ifs : \E info \in Infos :
       Known(info) /\ HardwareInfo(info) \in Range(received) /\ ifs[i] \in Range(info)

\* A packet the router sends is by an interface the server has a port for.
Replies == {[type |-> t] : t \in {"AUTH_REPLY", "OPEN", "OPEN_TEMPLATE"}}
           \cup [type : {"PACKET"}, iface : ports, mac : Nat \cup {None}]
RepliesKnown == toServer \in Seq(Replies)

LEMMA SentAsIs ==
  ASSUME SentKnown, UNCHANGED <<sent, interfaces, ports>>
  PROVE  SentKnown'
BY DEF SentKnown, Known

\* A message that is sent is no HWINFO or one of known interfaces.
LEMMA SentMore ==
  ASSUME SentKnown, StreamInv, NEW ms, UNCHANGED <<interfaces, ports>>, Send(ms),
         \/ ms = <<>>
         \/ \E m \in Messages : ms = <<m>> /\ (m.type = "HWINFO" =>
               \E info \in Infos : Known(info) /\ m = HardwareInfo(info))
         \/ \E m \in Messages, o \in Messages : ms = <<m, o>> /\ m.type # "HWINFO" /\
               \E info \in Infos : Known(info) /\ o = HardwareInfo(info)
  PROVE  SentKnown'
<1>1. \A info \in Infos : Known(info) => Known(info)'
  BY DEF Known
<1>2. interfaces' # None => Known(interfaces)'
  BY DEF SentKnown, Known
<1>3. CASE ms = <<>>
  BY <1>3, SendNone, SentAsIs
<1>4. ASSUME NEW m \in Messages, ms = <<m>>,
             m.type = "HWINFO" => \E info \in Infos : Known(info) /\ m = HardwareInfo(info)
      PROVE  SentKnown'
  <2>1. sent \in Seq(Messages) /\ sent' = Append(sent, m)
    BY <1>4, SendOne, StreamTypes
  <2>2. ASSUME NEW i \in DOMAIN sent', sent'[i].type = "HWINFO"
        PROVE  \E info \in Infos : Known(info) /\ sent'[i] = HardwareInfo(info)
    BY <1>4, <2>1, <2>2 DEF SentKnown
  <2> QED
    BY <1>1, <1>2, <2>2, Zenon DEF SentKnown
<1>5. ASSUME NEW m \in Messages, NEW o \in Messages, ms = <<m, o>>, m.type # "HWINFO",
             \E info \in Infos : Known(info) /\ o = HardwareInfo(info)
      PROVE  SentKnown'
  <2>1. sent \in Seq(Messages) /\ sent' = Append(Append(sent, m), o)
    BY <1>5, SendTwo, StreamTypes
  <2>2. ASSUME NEW i \in DOMAIN sent', sent'[i].type = "HWINFO"
        PROVE  \E info \in Infos : Known(info) /\ sent'[i] = HardwareInfo(info)
    BY <1>5, <2>1, <2>2 DEF SentKnown
  <2> QED
    BY <1>1, <1>2, <2>2, Zenon DEF SentKnown
<1> QED
  BY <1>3, <1>4, <1>5

LEMMA SentStep ==
  ASSUME SentKnown, StreamInv, [SessionNext]_sessionVars
  PROVE  SentKnown'
<1>1. CASE Router \/ ConnectionBreaks \/ UNCHANGED sessionVars
  <2>1. UNCHANGED <<sent, interfaces, ports>>
    BY <1>1 DEF Router, ReadLine, ReadsAll, LoadFails, ConnectFails, Connect, Recv, ReadFails, Ends,
                Refuse, Show, HandleAuthRequest, HandleAuthStatus, HandleRtable, ReadHwinfo,
                ReadPacket, Quiet, ConnectionBreaks, sessionVars, serverVars
  <2> QED
    BY <2>1, SentAsIs
<1>2. CASE RouterInfo
  <2>1. PICK info \in Infos : interfaces' = info /\ ports' = ports \cup {info[i].name : i \in DOMAIN info}
    BY <1>2 DEF RouterInfo
  <2>2. Known(interfaces)' /\ \A o \in Infos : Known(o) => Known(o)'
    BY <2>1 DEF Known
  <2>3. sent' = sent
    BY <1>2 DEF RouterInfo
  <2> QED
    BY <2>2, <2>3 DEF SentKnown
<1>3. ASSUME NEW t \in {"AUTH_REQUEST", "BANNER", "CLOSE"}, ToRouter(<<[type |-> t]>>)
      PROVE  SentKnown'
  <2>1. PICK m \in Messages : m = [type |-> t] /\ m.type # "HWINFO"
    <3>1. [type |-> t] \in Messages
      BY DEF Messages
    <3>2. [type |-> t].type # "HWINFO"
      OBVIOUS
    <3> QED
      BY <3>1, <3>2, Zenon
  <2> QED
    BY <1>3, <2>1, SentMore DEF ToRouter
<1>4. CASE AskClient \/ Banner \/ Close
  BY <1>3, <1>4 DEF AskClient, Banner, Close
<1>5. CASE ListClient \/ RecvPacket
  BY <1>5, SentMore DEF ListClient, RecvPacket, ToRouter
<1>6. CASE RecvAuthReply
  <2>1. PICK ok \in BOOLEAN : ToRouter(<<AuthStatus(ok)>>)
    BY <1>6 DEF RecvAuthReply
  <2>2. PICK m \in Messages : m = AuthStatus(ok) /\ m.type # "HWINFO"
    <3>1. AuthStatus(ok) \in Messages
      BY DEF Messages
    <3>2. AuthStatus(ok).type # "HWINFO"
      BY DEF AuthStatus
    <3> QED
      BY <3>1, <3>2, Zenon
  <2> QED
    BY <2>1, <2>2, SentMore DEF ToRouter
<1>7. CASE RecvOpen
  <2>1. PICK ms : ToRouter(ms) /\ ms = IF interfaces = None THEN <<>> ELSE <<HardwareInfo(interfaces)>>
    BY <1>7 DEF RecvOpen
  <2>2. CASE interfaces # None
    <3>1. interfaces \in Infos /\ Known(interfaces)
      BY <2>2 DEF SentKnown, StreamInv
    <3>2. PICK m \in Messages : m = HardwareInfo(interfaces)
      BY <3>1 DEF Messages
    <3> QED
      BY <2>1, <2>2, <3>1, <3>2, SentMore DEF ToRouter
  <2> QED
    BY <2>1, <2>2, SentMore DEF ToRouter
<1>8. CASE RecvOpenTemplate
  <2>1. interfaces # None /\ ToRouter(<<[type |-> "RTABLE"], HardwareInfo(interfaces)>>)
    BY <1>8 DEF RecvOpenTemplate
  <2>2. interfaces \in Infos /\ Known(interfaces)
    BY <2>1 DEF SentKnown, StreamInv
  <2>3. PICK m \in Messages : m = [type |-> "RTABLE"] /\ m.type # "HWINFO"
    <3>1. [type |-> "RTABLE"] \in Messages
      BY DEF Messages
    <3>2. [type |-> "RTABLE"].type # "HWINFO"
      OBVIOUS
    <3> QED
      BY <3>1, <3>2, Zenon
  <2>4. PICK o \in Messages : o = HardwareInfo(interfaces)
    BY <2>2 DEF Messages
  <2> QED
    BY <2>1, <2>2, <2>3, <2>4, SentMore DEF ToRouter
<1>9. CASE PacketIn
  <2>1. PICK m \in Packets : ToRouter(<<m>>)
    BY <1>9 DEF PacketIn
  <2>2. m \in Messages /\ m.type # "HWINFO"
    BY PacketsTyped
  <2> QED
    BY <2>1, <2>2, SentMore DEF ToRouter
<1> QED
  BY <1>1, <1>2, <1>4, <1>5, <1>6, <1>7, <1>8, <1>9, Zenon DEF SessionNext, Reactor

LEMMA SentInvariant == SessionSpec => []SentKnown
<1>1. SessionInit => SentKnown
  BY DEF SessionInit, SentKnown
<1> QED
  BY <1>1, SentStep, StreamInvariant, PTL DEF SessionSpec

LEMMA IfsAsIs ==
  ASSUME IfsKnown, ifs' = ifs, ports \subseteq ports', received \in Seq(Messages),
         \/ received' = received
         \/ \E m : received' = Append(received, m)
  PROVE  IfsKnown'
<1>1. Range(received) \subseteq Range(received')
  BY DEF Range
<1>2. \A info \in Infos : Known(info) => Known(info)'
  BY DEF Known
<1> QED
  BY <1>1, <1>2 DEF IfsKnown

LEMMA IfsStep ==
  ASSUME IfsKnown, SentKnown, StreamInv, StreamInv', [SessionNext]_sessionVars
  PROVE  IfsKnown'
<1>1. received \in Seq(Messages)
  BY StreamTypes
<1>2. CASE ReadHwinfo
  <2>1. /\ received' = Append(received, Message) /\ Message.type = "HWINFO"
        /\ ifs' = HandleHwinfo(ifs, Message) /\ UNCHANGED <<sent, ports>>
    BY <1>2 DEF ReadHwinfo, Take, serverVars
  <2>2. Message \in Messages /\ \E i \in DOMAIN sent : Message = sent[i]
    <3>1. /\ Len(received) + 1 \in 1..Len(sent) /\ Message = sent[Len(received) + 1]
          /\ Message \in Messages
      BY <1>2, NextMessage DEF ReadHwinfo, Take
    <3>2. DOMAIN sent = 1..Len(sent)
      BY StreamTypes
    <3> QED
      BY <3>1, <3>2, Zenon
  <2>3. PICK info \in Infos : Known(info) /\ Message = HardwareInfo(info)
    BY <2>1, <2>2, Zenon DEF SentKnown
  <2>4. ifs' = ifs \o info /\ ifs \in Seq(Interface) /\ info \in Seq(Described)
    BY <2>1, <2>3, HandlesAll, InfoType, Zenon DEF IfsKnown
  <2>5. info \in Seq(Interface)
    BY <2>4, SeqMonotonic DEF Described, Interface
  <2>6. Range(received) \subseteq Range(received') /\ HardwareInfo(info) \in Range(received')
    BY <1>1, <2>1, <2>2, <2>3 DEF Range
  <2>7. \A o \in Infos : Known(o) => Known(o)'
    BY <2>1 DEF Known
  <2>8. ASSUME NEW i \in DOMAIN ifs'
        PROVE  \E o \in Infos : Known(o)' /\ HardwareInfo(o) \in Range(received') /\ ifs'[i] \in Range(o)
    <3>1. CASE i \in DOMAIN ifs
      <4>1. ifs'[i] = ifs[i]
        BY <2>4, <2>5, <3>1
      <4> QED
        BY <2>6, <2>7, <3>1, <4>1 DEF IfsKnown
    <3>2. CASE i \notin DOMAIN ifs
      <4>1. i - Len(ifs) \in DOMAIN info /\ ifs'[i] = info[i - Len(ifs)]
        BY <2>4, <2>5, <3>2
      <4>2. ifs'[i] \in Range(info)
        BY <4>1, Zenon DEF Range
      <4> QED
        BY <2>3, <2>6, <2>7, <4>2
    <3> QED
      BY <3>1, <3>2
  <2>9. ifs' \in Seq(Interface)
    BY <2>4, <2>5
  <2> QED
    BY <2>8, <2>9 DEF IfsKnown
<1>3. CASE Refuse \/ Show \/ HandleAuthRequest \/ HandleAuthStatus \/ HandleRtable \/ ReadPacket
  <2>1. UNCHANGED <<ifs, ports>> /\ \E types, p : Take(types, p)
    BY <1>3 DEF Refuse, Show, HandleAuthRequest, HandleAuthStatus, HandleRtable, ReadPacket,
                Quiet, serverVars
  <2>2. received' = Append(received, Message)
    BY <2>1 DEF Take
  <2> QED
    BY <1>1, <2>1, <2>2, IfsAsIs
<1>4. CASE \/ ReadLine \/ ReadsAll \/ LoadFails \/ ConnectFails \/ Connect \/ Recv \/ ReadFails
           \/ Reactor \/ RouterInfo \/ PacketIn \/ Banner \/ Close \/ ConnectionBreaks
           \/ UNCHANGED sessionVars
  <2>1. UNCHANGED <<ifs, received>> /\ ports \subseteq ports'
    BY <1>4 DEF ReadLine, ReadsAll, LoadFails, ConnectFails, Connect, Recv, ReadFails, Ends, Reactor,
                ListClient, AskClient, RecvAuthReply, RecvOpen, RecvOpenTemplate, RecvPacket,
                ToRouter, RouterInfo, PacketIn, Banner, Close, ConnectionBreaks, sessionVars,
                routerVars, serverVars
  <2> QED
    BY <1>1, <2>1, IfsAsIs
<1> QED
  BY <1>2, <1>3, <1>4, Zenon DEF SessionNext, Router

LEMMA IfsInvariant == SessionSpec => []IfsKnown
<1>1. SessionInit => IfsKnown
  BY DEF SessionInit, IfsKnown
<1> QED
  BY <1>1, IfsStep, SentInvariant, StreamInvariant, PTL DEF SessionSpec

\* sr_get_interface() finds an interface of the name, if there is one.
LEMMA GetInterfaceFinds ==
  ASSUME NEW l \in Seq(Interface), NEW n, Named(l, n) # {}
  PROVE  \E i \in Named(l, n) : GetInterface(l, n) = l[i]
<1>1. PICK k \in Nat : k = Len(l)
  OBVIOUS
<1>2. Named(l, n) \in SUBSET (1..k)
  BY <1>1 DEF Named
<1>3. \E i \in Named(l, n) : \A j \in Named(l, n) : i <= j
  BY <1>1, <1>2, SmallestOf, Zenon
<1> QED
  BY <1>3, Zenon DEF GetInterface

\* The router's interfaces have the addresses the server announced for their names,
\* all taken from the messages as they were cut on the wire: sr_set_ether_addr() and
\* sr_set_ether_ip() always change the interface sr_add_interface() added last
\* (sr_if.c, sr_handle_hwinfo()).
THEOREM InterfacesFromServer == SessionSpec => []InterfacesAnnounced
<1>1. ASSUME IfsKnown
      PROVE  InterfacesAnnounced
  <2> SUFFICES ASSUME NEW i \in DOMAIN ifs
               PROVE  \E m \in Range(received) :
                        /\ m.type = "HWINFO"
                        /\ \E info \in Infos : /\ HardwareInfo(info) = m
                                               /\ GetInterface(ifs, ifs[i].name) \in Range(info)
    BY Zenon DEF InterfacesAnnounced
  <2>1. i \in Named(ifs, ifs[i].name)
    BY DEF Named
  <2>2. PICK j \in Named(ifs, ifs[i].name) : GetInterface(ifs, ifs[i].name) = ifs[j]
    BY <1>1, <2>1, GetInterfaceFinds DEF IfsKnown
  <2>3. PICK info \in Infos : HardwareInfo(info) \in Range(received) /\ ifs[j] \in Range(info)
    BY <1>1, <2>2 DEF IfsKnown, Named
  <2>4. HardwareInfo(info).type = "HWINFO"
    BY DEF HardwareInfo
  <2> QED
    BY <2>2, <2>3, <2>4, Zenon
<1> QED
  BY <1>1, IfsInvariant, PTL

LEMMA RepliesStep ==
  ASSUME RepliesKnown, IfsKnown, [SessionNext]_sessionVars
  PROVE  RepliesKnown'
<1>1. CASE UNCHANGED toServer /\ ports \subseteq ports'
  <2>1. Replies \subseteq Replies'
    BY <1>1 DEF Replies
  <2> QED
    BY <1>1, <2>1, SeqMonotonic DEF RepliesKnown
<1>2. ASSUME NEW m \in Replies, toServer' = Append(toServer, m), ports' = ports
      PROVE  RepliesKnown'
  <2>1. Replies' = Replies
    BY <1>2 DEF Replies
  <2> QED
    BY <1>2, <2>1 DEF RepliesKnown
<1>3. ASSUME toServer # <<>>, toServer' = Tail(toServer), ports' = ports
      PROVE  RepliesKnown'
  <2>1. Replies' = Replies
    BY <1>3 DEF Replies
  <2> QED
    BY <1>3, <2>1, HeadTailProperties DEF RepliesKnown
<1>4. CASE \/ ReadLine \/ ReadsAll \/ LoadFails \/ ConnectFails \/ Connect \/ Recv \/ ReadFails
           \/ Refuse \/ Show \/ HandleRtable \/ ReadHwinfo \/ ListClient \/ AskClient \/ RouterInfo
           \/ PacketIn \/ Banner \/ Close \/ ConnectionBreaks \/ UNCHANGED sessionVars
  <2>1. UNCHANGED toServer /\ ports \subseteq ports'
    BY <1>4 DEF ReadLine, ReadsAll, LoadFails, ConnectFails, Connect, Recv, ReadFails, Ends, Refuse,
                Show, HandleRtable, ReadHwinfo, Quiet, ListClient, AskClient, ToRouter, RouterInfo,
                PacketIn, Banner, Close, ConnectionBreaks, sessionVars, serverVars
  <2> QED
    BY <1>1, <2>1
<1>5. CASE HandleAuthRequest
  <2>1. ports' = ports /\ (UNCHANGED toServer \/ toServer' = Append(toServer, [type |-> "AUTH_REPLY"]))
    BY <1>5 DEF HandleAuthRequest, Quiet, serverVars
  <2>2. [type |-> "AUTH_REPLY"] \in Replies
    BY DEF Replies
  <2> QED
    BY <1>1, <1>2, <2>1, <2>2
<1>6. CASE HandleAuthStatus
  <2>1. /\ ports' = ports
        /\ \/ UNCHANGED toServer
           \/ \E t \in {"OPEN", "OPEN_TEMPLATE"} : toServer' = Append(toServer, [type |-> t])
    BY <1>6 DEF HandleAuthStatus, Quiet, serverVars
  <2>2. \A t \in {"OPEN", "OPEN_TEMPLATE"} : [type |-> t] \in Replies
    BY DEF Replies
  <2> QED
    BY <1>1, <1>2, <2>1, <2>2
<1>7. CASE ReadPacket
  <2>1. ports' = ports /\ (UNCHANGED toServer \/ SendPacket)
    BY <1>7 DEF ReadPacket, serverVars
  <2>2. ASSUME SendPacket
        PROVE  \E m \in Replies : toServer' = Append(toServer, m)
    <3>1. PICK n \in Ifaces, i \in DOMAIN ifs :
            /\ AddrsMatch(n, ifs[i].mac)
            /\ toServer' = Append(toServer, [type |-> "PACKET", iface |-> n, mac |-> ifs[i].mac])
      BY <2>2 DEF SendPacket
    <3>2. PICK j \in DOMAIN ifs : ifs[j].name = n
      BY <3>1 DEF AddrsMatch, Named
    <3>3. PICK info \in Infos : Known(info) /\ ifs[j] \in Range(info)
      BY <3>2 DEF IfsKnown
    <3>4. n \in ports
      BY <3>2, <3>3 DEF Known, Range
    <3>5. ifs[i].mac \in Nat \cup {None}
      <4>1. ifs[i] \in Interface
        BY <3>1 DEF IfsKnown
      <4> QED
        BY <4>1 DEF Interface
    <3> QED
      BY <3>1, <3>4, <3>5 DEF Replies
  <2> QED
    BY <1>1, <1>2, <2>1, <2>2
<1>8. CASE RecvAuthReply \/ RecvOpen \/ RecvOpenTemplate \/ RecvPacket
  <2>1. ports' = ports /\ toServer # <<>> /\ toServer' = Tail(toServer)
    BY <1>8 DEF RecvAuthReply, RecvOpen, RecvOpenTemplate, RecvPacket, Demux, ToRouter
  <2> QED
    BY <1>3, <2>1
<1> QED
  BY <1>4, <1>5, <1>6, <1>7, <1>8, Zenon DEF SessionNext, Router, Reactor

\* Every packet the router sends is by an interface whose port the server knows:
\* sr_send_packet() lets pass only names of interfaces, these came from the server,
\* and the server forgets no port (srhandler.py).
THEOREM SendsByKnownPort == SessionSpec => []SentByKnownPort
<1>1. SessionInit => RepliesKnown
  BY DEF SessionInit, RepliesKnown
<1>2. ASSUME RepliesKnown
      PROVE  SentByKnownPort
  <2> SUFFICES ASSUME NEW i \in DOMAIN toServer, toServer[i].type = "PACKET"
               PROVE  toServer[i].iface \in ports
    BY Zenon DEF SentByKnownPort
  <2>1. toServer[i] \in Replies
    BY <1>2 DEF RepliesKnown
  <2> QED
    BY <2>1 DEF Replies
<1> QED
  BY <1>1, <1>2, RepliesStep, IfsInvariant, PTL DEF SessionSpec
=============================================================================

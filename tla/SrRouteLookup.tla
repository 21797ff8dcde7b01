---------------------------- MODULE SrRouteLookup ----------------------------
(***************************************************************************)
(* The routing table of the router: sr_load_rt() and sr_add_rt_entry(),    *)
(* which read it line by line from a file, and sr_rtentry_for_ip(), which  *)
(* chooses the route of a packet.  An address is the set of its bits that  *)
(* are one, and so is a mask; the octets the code compares one after the   *)
(* other make no difference to the outcome.                                *)
(***************************************************************************)
EXTENDS Integers, Sequences, FiniteSets

CONSTANTS
  Bits,       \* the positions of the bits of an address, 1 the highest
  Ifaces,     \* the interface names of the lines and of the network
  Lines,      \* the lines a table file may have: [dest, mask, iface]
  MaxRoutes   \* bound: lines in a file

ASSUME LookupAssumption ==
  /\ IsFiniteSet(Bits)
  /\ Lines \subseteq [dest : SUBSET Bits, mask : SUBSET Bits, iface : Ifaces]
  /\ MaxRoutes \in Nat

VARIABLES
  table,    \* sr->routing_table, a list in the order of the file
  cleared   \* clear_routing_table of the running sr_load_rt()

vars == <<table, cleared>>

Init == table = <<>> /\ cleared = FALSE

\* sr_load_rt() starts; an earlier call returned after any number of lines, -1
\* where one could not be converted.
Load == /\ cleared
        /\ cleared' = FALSE
        /\ UNCHANGED table

\* sr_add_rt_entry(): the new entry becomes the last.
Added(t, r) == Append(t, r)

\* One line of the file; the first one clears the table.
LoadLine(r) == /\ cleared => Len(table) < MaxRoutes
               /\ table' = Added(IF cleared THEN table ELSE <<>>, r)
               /\ cleared' = TRUE

Next == Load \/ \E r \in Lines : LoadLine(r)

Spec == Init /\ [][Next]_vars
-----------------------------------------------------------------------------
(* sr_rtentry_for_ip()                                                     *)

\* Mutant: the mask is applied to the address only.
MatchesUnmasked(r, ip) == r.mask \cap ip = r.dest

Matches(r, ip) == r.mask \cap ip = r.mask \cap r.dest

Matching(ip) == {i \in DOMAIN table : Matches(table[i], ip)}

\* The whole list is walked and the last match returned, 0 for NULL.
Lookup(ip) == IF Matching(ip) = {} THEN 0
              ELSE CHOOSE i \in Matching(ip) : \A j \in Matching(ip) : j <= i

-----------------------------------------------------------------------------
(* Properties                                                              *)

\* The table holds whole lines of a file.
TypeOK == /\ table \in Seq(Lines)
          /\ cleared \in BOOLEAN

PrefixLen(i) == Cardinality(table[i].mask)

\* The table lists longer masks after shorter ones.
Sorted == \A i, j \in DOMAIN table : i <= j => PrefixLen(i) <= PrefixLen(j)

\* The address is one the route's destination network contains.
InNetwork(ip, r) == \A b \in r.mask : b \in ip <=> b \in r.dest

\* The route chosen contains the address and none that does has a longer mask;
\* NULL is returned only when none contains it.
IsLongestMatch(ip) ==
  IF Lookup(ip) = 0 THEN \A i \in DOMAIN table : ~InNetwork(ip, table[i])
  ELSE /\ Lookup(ip) \in DOMAIN table /\ InNetwork(ip, table[Lookup(ip)])
       /\ \A i \in DOMAIN table : InNetwork(ip, table[i]) => PrefixLen(i) <= PrefixLen(Lookup(ip))

\* A table that lists longer masks after shorter ones makes sr_rtentry_for_ip(),
\* which keeps the last match and never compares masks, a longest-prefix match.
SortedMeansLongest == Sorted => \A ip \in SUBSET Bits : IsLongestMatch(ip)
=============================================================================

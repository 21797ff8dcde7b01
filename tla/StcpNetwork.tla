---------------------------- MODULE StcpNetwork ----------------------------
(***************************************************************************)
(* The unreliable line under an STCP connection, one direction of it:      *)
(* _network_send() of network.c in front of the FIFO byte stream that      *)
(* network_io_tcp.c provides.  A line is a record                          *)
(*   wire    packets handed to _network_send_packet(), oldest first        *)
(*   copy    the content of copy_buffer: <<>> until `copied' is set, then  *)
(*           one packet, for good (`copied' is never cleared)              *)
(*   faults  how many sends the line has tampered with so far              *)
(* The code draws the outcome of each send at random; the model lets the   *)
(* first MaxFaults sends of a direction be tampered with in any way.       *)
(***************************************************************************)
EXTENDS Naturals, Sequences, SequencesExt

CONSTANTS Reliable,   \* network_state.is_reliable, an argument of mysocket()
          MaxFaults   \* bound: tampered sends per direction

ASSUME ReliableAssumption == Reliable \in BOOLEAN
ASSUME MaxFaultsAssumption == MaxFaults \in Nat

EmptyLine == [wire |-> <<>>, copy |-> <<>>, faults |-> 0]

Lines(Packet) == [wire : Seq(Packet), copy : Seq(Packet), faults : 0..MaxFaults]

\* The default outcome: what was given is sent.
Sent(l, p) == [l EXCEPT !.wire = Append(@, p)]

\* Cases 0 to 3 of the random draw.
Dropped(l, p)    == l
Duplicated(l, p) == [l EXCEPT !.wire = Append(Append(@, p), p)]
Kept(l, p)       == [l EXCEPT !.copy = <<p>>]
Replayed(l, p)   == [l EXCEPT !.wire = IF l.copy = <<>> THEN Append(@, p) ELSE @ \o l.copy]

Tampered(l, p) == {Dropped(l, p), Duplicated(l, p), Kept(l, p), Replayed(l, p)}

\* Every line that one call of _network_send() can leave behind.
NetworkSend(l, p) ==
  {Sent(l, p)} \cup
  IF Reliable \/ l.faults = MaxFaults THEN {}
  ELSE {[t EXCEPT !.faults = @ + 1] : t \in Tampered(l, p)}

\* The receiver takes the oldest packet off the wire.
Received(l) == [l EXCEPT !.wire = Tail(@)]

\* Every packet the line may still deliver.
InFlight(l) == ToSet(l.wire) \cup ToSet(l.copy)
=============================================================================

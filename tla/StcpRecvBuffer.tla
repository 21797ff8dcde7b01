--------------------------- MODULE StcpRecvBuffer ---------------------------
(***************************************************************************)
(* The receive buffer of control_loop(): how many bytes of an arriving     *)
(* packet are copied into networkRecvBuffer, and what is made of the rest. *)
(* The limit passed to stcp_network_recv() shrinks towards the end of the  *)
(* buffer although every packet is copied to its start; the queue copies   *)
(* no more than the limit and still returns the whole length.  A packet    *)
(* read short is processed with the bytes of an earlier one at its end.    *)
(***************************************************************************)
EXTENDS Integers

CONSTANTS
  HeaderLen,    \* sizeof(struct tcphdr)
  MaxPayload,   \* MAXPAYLOAD: the longest packet, header and data
  RecvLen,      \* LOCALRECVLEN
  PacketLens,   \* the lengths of the packets that arrive
  MaxFins       \* bound: how many FINs are taken in order, repeats included

ASSUME RecvBufferAssumption ==
  /\ HeaderLen \in Nat \ {0} /\ MaxPayload \in Nat \ {0} /\ RecvLen \in Nat
  /\ PacketLens \subseteq Nat
  /\ \A n \in PacketLens : HeaderLen <= n /\ n <= MaxPayload
  /\ MaxFins \in Nat
  /\ MaxPayload <= RecvLen - MaxFins * HeaderLen

VARIABLES
  ourWindow,   \* ctx->ourWindowSize
  last,        \* ctx->lastByteReceived
  fins,        \* how many FINs were taken in order
  read,        \* the last packet: its length and how much of it was copied
  since        \* bytes received after the last packet read short, up to RecvLen

bufferVars == <<ourWindow, last, fins, read, since>>

MinOf(x, y) == IF x < y THEN x ELSE y

BufferInit == /\ ourWindow = RecvLen
              /\ last = 0
              /\ fins = 0
              /\ read = [len |-> 0, copied |-> 0]
              /\ since = 0

\* The buffer was used up: the next packet starts a new turn.
NewTurn == last >= RecvLen

\* What a window smaller than a packet does to the limit.
Narrowed(n) == IF ourWindow < MaxPayload THEN MinOf(n, MaxPayload - ourWindow) ELSE n

\* maxPackLen, in the two branches.
MaxPackLen ==
  Narrowed(IF NewTurn THEN MinOf(ourWindow, MaxPayload)
           ELSE MinOf(MinOf(ourWindow, RecvLen - last), MaxPayload))

\* _mysock_dequeue_buffer() without remove_partial: the packet leaves the queue,
\* the destination gets what fits, the caller is told the whole length.
Dequeue(n, limit) == [len |-> n, copied |-> MinOf(limit, n)]

Short(r) == r.copied < r.len

\* Mutant: the window the packet took is not given back.
WindowKept(w, n, fin) == w - n

\* What is left of the window when the packet has been dealt with: a FIN taken
\* in order keeps its length, everything else gives it back.
WindowAfter(w, n, fin) == IF fin THEN w - n ELSE w

\* lastByteReceived after a packet of n bytes.
LastAfter(n) == IF NewTurn THEN n ELSE last + n

\* One NETWORK_DATA event.
ReceivePacket(n, fin) ==
  /\ fin => n = HeaderLen /\ fins < MaxFins
  /\ read' = Dequeue(n, MaxPackLen)
  /\ last' = LastAfter(n)
  /\ ourWindow' = WindowAfter(ourWindow, n, fin)
  /\ fins' = IF fin THEN fins + 1 ELSE fins
  /\ since' = IF Short(Dequeue(n, MaxPackLen)) THEN 0 ELSE MinOf(since + n, RecvLen)

BufferNext == \E n \in PacketLens, fin \in BOOLEAN : ReceivePacket(n, fin)

BufferSpec == BufferInit /\ [][BufferNext]_bufferVars
-----------------------------------------------------------------------------
(* Properties                                                              *)

BufferType == /\ ourWindow \in Int
              /\ last \in Nat
              /\ fins \in 0..MaxFins
              /\ read \in [len : Nat, copied : Int]
              /\ since \in 0..RecvLen

\* Whatever arrives, lastByteReceived stays less than a packet above the buffer,
\* the window stays wide enough for a packet, the limit is never negative (it
\* becomes a size_t), and no packet is longer than the buffer it is copied to.
BufferBounds ==
  /\ last < RecvLen + MaxPayload
  /\ MaxPayload <= ourWindow /\ ourWindow <= RecvLen
  /\ 0 <= MaxPackLen /\ MaxPackLen <= MaxPayload
  /\ 0 <= read.copied /\ read.copied <= read.len /\ read.len <= RecvLen

\* A packet read short is rare: with it, more than RecvLen bytes have arrived
\* since the previous one or since the start.  Connections that stay below that
\* never see one, which is why short transfers work.
ShortOnlyAtTheEnd ==
  [][\A n \in PacketLens, fin \in BOOLEAN :
       ReceivePacket(n, fin) /\ Short(read') => since + n > RecvLen]_bufferVars
=============================================================================

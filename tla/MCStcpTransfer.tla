--------------------------- MODULE MCStcpTransfer ---------------------------
(***************************************************************************)
(* Instances of StcpTransfer.  The initial numbers are in the range of the *)
(* code and so are header, payload and window, with writes of a few bytes, *)
(* each one packet.  The sizes are scaled down in the run where writes are *)
(* cut into packets and dequeued in parts.                                 *)
(***************************************************************************)
EXTENDS StcpTransfer

MCIsn == [e \in Endpoint |-> IF e = "active" THEN 7 ELSE 255]

Active(script) == [e \in Endpoint |-> IF e = "active" THEN script ELSE <<>>]

\* What the applications write: nothing, three packets one way, two
\* one way and one the other, a write longer than a window of 4 bytes.
NoScript    == Active(<<>>)
ThreeScript == Active(<<2, 1, 1>>)
MixScript   == [e \in Endpoint |-> IF e = "active" THEN <<2, 1>> ELSE <<1>>]
LongScript  == Active(<<5>>)

NoEndpoints == {}
ActiveOnly  == {"active"}
=============================================================================

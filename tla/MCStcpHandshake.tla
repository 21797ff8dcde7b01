--------------------------- MODULE MCStcpHandshake ---------------------------
(* TLC instances of StcpHandshake. *)
EXTENDS StcpHandshake

\* Two draws are enough to tell the ends' numbers apart, or to make them equal.
SmallSeqs == {0, 255}
=============================================================================

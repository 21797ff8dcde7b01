---------------------------- MODULE MCChircLocks ----------------------------
(* The commands of chirc as the programs of its threads.                   *)
EXTENDS ChircLocks, ChircCommands
=============================================================================

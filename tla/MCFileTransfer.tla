---------------------------- MODULE MCFileTransfer ----------------------------
(* A user who asks for a file longer than every buffer, for one that does    *)
(* not exist and for an empty one, and a client started with -f.             *)
EXTENDS FileTransfer

MCFileLen == ("long" :> 7) @@ ("empty" :> 0) @@ ("missing" :> -1)
MCAsks == ("user" :> <<"long", "missing", "empty">>) @@ ("one" :> <<"missing">>)
===============================================================================

------------------------------ MODULE StcpStream ------------------------------
(***************************************************************************)
(* What mywrite(), myclose() and myread() promise the two applications of  *)
(* a connection, without packets: each end reads the bytes the other wrote, *)
(* in order, none missing and none twice, and reads end-of-file only after  *)
(* all of them, once the other end has closed.                             *)
(***************************************************************************)
EXTENDS Naturals, Sequences

CONSTANTS Ends, Peer(_)

VARIABLES written,    \* written[e]: how many bytes e's application has written
          closed,     \* closed[e]: e's application has called myclose()
          readable,   \* readable[e]: the bytes passed up to e's application, each
                      \* by its position in what the other end wrote
          eof         \* eof[e]: e's application has been told the stream ended

vars == <<written, closed, readable, eof>>

\* The first n bytes of a stream.
First(n) == [i \in 1..n |-> i - 1]

Init == /\ written = [e \in Ends |-> 0]
        /\ closed = [e \in Ends |-> FALSE]
        /\ readable = [e \in Ends |-> <<>>]
        /\ eof = [e \in Ends |-> FALSE]

Write(e) == /\ ~closed[e]
            /\ written'[e] \in Nat /\ written'[e] > written[e]
            /\ written' = [written EXCEPT ![e] = written'[e]]
            /\ UNCHANGED <<closed, readable, eof>>

Close(e) == /\ closed' = [closed EXCEPT ![e] = TRUE]
            /\ UNCHANGED <<written, readable, eof>>

\* One step may pass several bytes up, and the end of the stream with the last.
PassUp(e) ==
  /\ ~eof[e]
  /\ \E n \in Len(readable[e])..written[Peer(e)] :
       /\ readable' = [readable EXCEPT ![e] = First(n)]
       /\ \/ eof' = eof
          \/ closed[Peer(e)] /\ n = written[Peer(e)] /\ eof' = [eof EXCEPT ![e] = TRUE]
  /\ UNCHANGED <<written, closed>>

Next == \E e \in Ends : Write(e) \/ Close(e) \/ PassUp(e)

Spec == Init /\ [][Next]_vars
=============================================================================

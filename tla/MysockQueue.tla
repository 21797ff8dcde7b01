----------------------------- MODULE MysockQueue -----------------------------
(***************************************************************************)
(* packet_queue_t of mysock.c: the queues between an application and the   *)
(* transport thread of its mysocket.  A queue is the sequence of the data  *)
(* of its nodes; a node without data marks the end of the stream.          *)
(*                                                                         *)
(* Enqueueing and removing a whole node happen under data_ready_lock.      *)
(* Removing part of a node does not: the lock is released once the node is *)
(* found too long, and the node is shortened where it is afterwards.  The  *)
(* two halves are Fits and Shortened, for the composing module to put into *)
(* two steps.                                                              *)
(***************************************************************************)
EXTENDS Naturals, Sequences

\* Appending a node with a copy of the data.
Enqueued(q, data) == Append(q, data)

\* Decided under the lock: the head leaves the queue as a whole.
Fits(q, max) == Len(Head(q)) <= max

\* The bytes dequeued when at most max fit.
Copied(q, max) == SubSeq(Head(q), 1, IF Fits(q, max) THEN Len(Head(q)) ELSE max)

\* Mutant: the remaining contents start one byte early.
ShortenedLess(q, max) == <<SubSeq(Head(q), max, Len(Head(q)))>> \o Tail(q)

\* After the lock was released: the head keeps what did not fit.
Shortened(q, max) == <<SubSeq(Head(q), max + 1, Len(Head(q)))>> \o Tail(q)

Dequeued(q, max) == IF Fits(q, max) THEN Tail(q) ELSE Shortened(q, max)
==============================================================================

----------------------------- MODULE MysockListen -----------------------------
(***************************************************************************)
(* A listening mysocket (proj2Stcp): the queue of connections between the  *)
(* SYN of a peer and myaccept(), in connection_demux.c, with the thread    *)
(* that receives for the listening socket (network_io_socket.c,            *)
(* network_io_tcp.c).                                                      *)
(*                                                                         *)
(* Three kinds of thread meet here.  The RECEIVE thread of the listening   *)
(* socket takes a TCP connection from the kernel, reads the SYN and gives  *)
(* the connection a slot and a transport thread.  The TRANSPORT thread of  *)
(* a connection, once the set-up is over, appends it to the completed      *)
(* queue.  The APPLICATION takes completed connections with myaccept(), or *)
(* closes the listening socket.  listen_lock is a reader-writer lock that  *)
(* everybody but the closing application takes for reading, so slots and   *)
(* cur_len are shared without exclusion; connection_lock is held by the    *)
(* transport threads and the application around the completed queue.       *)
(***************************************************************************)
EXTENDS Integers, Sequences

CONSTANTS
  Conns,    \* the TCP connections of peers, each from an address of its own
  None,     \* -1: no mysocket in a slot, no socket in new_socket
  Zeroed,   \* what a slot holds between the memset() and the sd = -1 of
            \* INVALIDATE_CONNECT_REQUEST: descriptor 0, a peer address of length 0
  MaxLen,   \* max_len: the backlog of mylisten() plus one
  Width     \* cur_len is an unsigned int: 2^32 in the code

ASSUME MysockListenAssumption ==
  /\ MaxLen \in Nat \ {0}
  /\ Width \in Nat /\ MaxLen < Width
  /\ None \notin Conns /\ Zeroed \notin Conns /\ None # Zeroed

Slots == 1..MaxLen

Steps == {"polling", "check", "place", "counting", "refused", "uncounting", "ended"}

\* The application holds connection_lock in the first four, listen_lock in
\* the first five and, for writing, in "closing".
Holding == {"cleared", "counting", "loading", "storing"}
Stopped == {"stopping", "closing", "closed"}
Stages  == {"away", "arriving", "dropped", "setup", "completed", "accepted", "closed"}

VARIABLES
  queue,      \* connection_queue: the mysocket of each slot
  curLen,     \* cur_len
  completed,  \* completed_queue: slots, first completed first
  newSocket,  \* new_socket of the listening socket: accepted, not handed on yet
  reading,    \* the receive thread: where it is, its slot, cur_len as it loaded it
  accepting,  \* the application thread, the same
  stage,      \* how far each connection has come
  failed,     \* the assert() that ended the process, or "none"
  finished,   \* history: connections in the order their set-up ended
  accepted    \* history: connections in the order myaccept() returned them

listenVars == <<queue, curLen, completed, newSocket, reading, accepting, stage, failed,
                finished, accepted>>

At(pc, slot, len) == [pc |-> pc, slot |-> slot, len |-> len]

\* After mylisten(): _mysock_set_backlog() has made the queue for the first
\* time and the receive thread has started.
ListenInit ==
  /\ queue = [k \in Slots |-> None]
  /\ curLen = 0
  /\ completed = <<>>
  /\ newSocket = None
  /\ reading = At("polling", 1, 0)
  /\ accepting = At("idle", 1, 0)
  /\ stage = [c \in Conns |-> "away"]
  /\ failed = "none"
  /\ finished = <<>>
  /\ accepted = <<>>

Running == failed = "none"
Fail(assertion) == failed' = assertion
Move(c, s) == stage' = [stage EXCEPT ![c] = s]
Put(k, what) == queue' = [queue EXCEPT ![k] = what]

-----------------------------------------------------------------------------
(* The receive thread of the listening socket. *)

\* poll() reports the TCP connection c and not the exit pipe.
Incoming(c) ==
  /\ reading.pc = "polling" /\ accepting.pc \notin Stopped
  /\ stage[c] = "away"

\* _network_recv_packet() accepts c and reads its SYN; the assertion is the one
\* before the assignment of new_socket.
AcceptPeer(c) ==
  /\ Running /\ Incoming(c)
  /\ \/ /\ newSocket = None
        /\ newSocket' = c
        /\ reading' = [reading EXCEPT !.pc = "check"]
        /\ Move(c, "arriving")
        /\ UNCHANGED failed
     \/ /\ newSocket # None
        /\ Fail("socket")
        /\ UNCHANGED <<newSocket, reading, stage>>
  /\ UNCHANGED <<queue, curLen, completed, accepting, finished, accepted>>

\* The peer closes c before it has sent a packet: read() returns 0 and the
\* thread leaves its loop for good.
PeerHangsUp(c) ==
  /\ Running /\ Incoming(c)
  /\ newSocket = None
  /\ newSocket' = c
  /\ reading' = [reading EXCEPT !.pc = "ended"]
  /\ Move(c, "dropped")
  /\ UNCHANGED <<queue, curLen, completed, accepting, failed, finished, accepted>>

\* _mysock_enqueue_connection() looks for a retransmission.  No queued peer has
\* the address of another; what remains is the assertion in that loop.
Check ==
  /\ Running /\ reading.pc = "check"
  /\ \/ /\ \A k \in Slots : queue[k] # Zeroed
        /\ reading' = [reading EXCEPT !.pc = "place"]
        /\ UNCHANGED failed
     \/ /\ \E k \in Slots : queue[k] = Zeroed
        /\ Fail("entry")
        /\ UNCHANGED reading
  /\ UNCHANGED <<queue, curLen, completed, newSocket, accepting, stage, finished, accepted>>

\* Mutant: descriptor 0 counts as free.
FreeSlotsZeroed == {k \in Slots : queue[k] \in {None, Zeroed}}

FreeSlots == {k \in Slots : queue[k] = None}

\* There is room: take the first free slot and load cur_len, to add one to it.
Place ==
  /\ Running /\ reading.pc = "place"
  /\ curLen < MaxLen
  /\ \/ /\ \E k \in FreeSlots :
             /\ \A j \in FreeSlots : k <= j
             /\ reading' = At("counting", k, curLen)
        /\ UNCHANGED failed
     \/ /\ FreeSlots = {}
        /\ Fail("slot")
        /\ UNCHANGED reading
  /\ UNCHANGED <<queue, curLen, completed, newSocket, accepting, stage, finished, accepted>>

\* The backlog is used up: the SYN is dropped, and new_socket stays as it is.
Drop ==
  /\ Running /\ reading.pc = "place"
  /\ curLen >= MaxLen
  /\ reading' = [reading EXCEPT !.pc = "polling"]
  /\ Move(newSocket, "dropped")
  /\ UNCHANGED <<queue, curLen, completed, newSocket, accepting, failed, finished, accepted>>

\* cur_len is stored, the slot gets the new mysocket, the mysocket gets the TCP
\* socket (_network_update_passive_state()) and a transport thread.
Start ==
  /\ Running /\ reading.pc = "counting"
  /\ curLen' = reading.len + 1
  /\ Put(reading.slot, newSocket)
  /\ Move(newSocket, "setup")
  /\ newSocket' = None
  /\ reading' = [reading EXCEPT !.pc = "polling"]
  /\ UNCHANGED <<completed, accepting, failed, finished, accepted>>

\* _mysock_new_mysocket() finds no descriptor: the program's other mysockets may
\* use up the table.  The slot is made free again and cur_len counted down.
Refuse ==
  /\ Running /\ reading.pc = "counting"
  /\ curLen' = reading.len + 1
  /\ Move(newSocket, "dropped")
  /\ reading' = [reading EXCEPT !.pc = "refused"]
  /\ UNCHANGED <<queue, completed, newSocket, accepting, failed, finished, accepted>>

LoadRefused ==
  /\ Running /\ reading.pc = "refused"
  /\ reading' = [reading EXCEPT !.pc = "uncounting", !.len = curLen]
  /\ UNCHANGED <<queue, curLen, completed, newSocket, accepting, stage, failed, finished, accepted>>

\* --cur_len of an unsigned int.
Decrement(len) == curLen' = (len - 1) % Width

StoreRefused ==
  /\ Running /\ reading.pc = "uncounting"
  /\ Decrement(reading.len)
  /\ reading' = [reading EXCEPT !.pc = "polling"]
  /\ UNCHANGED <<queue, completed, newSocket, accepting, stage, failed, finished, accepted>>

-----------------------------------------------------------------------------
(* The transport thread of a connection. *)

\* Neither connection_lock nor, for writing, listen_lock is the application's.
LocksFree == accepting.pc \notin Holding \cup {"closing"}

\* Mutants: the new entry goes in front; the old entries are let go.
CompletedFirst(k) == <<k>> \o completed
CompletedAlone(k) == <<k>>

\* The new entry goes behind the tail of the completed queue.
Completed(k) == Append(completed, k)

\* _mysock_passive_connection_complete(), when the set-up of c has ended, well
\* or not; its own slot is there to be found (SlotsHeld).  The queue is gone once
\* the listening socket is closed.
Complete(c) ==
  /\ Running /\ stage[c] = "setup"
  /\ LocksFree
  /\ \E k \in Slots :
       /\ queue[k] = c
       /\ completed' = Completed(k)
  /\ finished' = Append(finished, c)
  /\ Move(c, "completed")
  /\ UNCHANGED <<queue, curLen, newSocket, reading, accepting, failed, accepted>>

-----------------------------------------------------------------------------
(* The application. *)

\* myaccept(): listen_lock is taken for reading and kept while waiting.
Accept ==
  /\ Running /\ accepting.pc = "idle"
  /\ accepting' = [accepting EXCEPT !.pc = "waiting"]
  /\ UNCHANGED <<queue, curLen, completed, newSocket, reading, stage, failed, finished, accepted>>

\* _mysock_dequeue_connection() takes the first completed connection and
\* clears its slot, first with memset() ...
Take ==
  /\ Running /\ accepting.pc = "waiting"
  /\ completed # <<>>
  /\ LET k == Head(completed) IN
       /\ accepted' = Append(accepted, queue[k])
       /\ Move(queue[k], "accepted")
       /\ Put(k, Zeroed)
       /\ accepting' = At("cleared", k, 0)
  /\ completed' = Tail(completed)
  /\ UNCHANGED <<curLen, newSocket, reading, failed, finished>>

\* ... then with the descriptor -1.
Invalidate ==
  /\ Running /\ accepting.pc = "cleared"
  /\ Put(accepting.slot, None)
  /\ accepting' = [accepting EXCEPT !.pc = "counting"]
  /\ UNCHANGED <<curLen, completed, newSocket, reading, stage, failed, finished, accepted>>

\* assert(q->cur_len > 0), which reads cur_len once, and --q->cur_len, which
\* reads it again.
Count ==
  /\ Running /\ accepting.pc = "counting"
  /\ \/ /\ curLen > 0
        /\ accepting' = [accepting EXCEPT !.pc = "loading"]
        /\ UNCHANGED failed
     \/ /\ curLen = 0
        /\ Fail("count")
        /\ UNCHANGED accepting
  /\ UNCHANGED <<queue, curLen, completed, newSocket, reading, stage, finished, accepted>>

Load ==
  /\ Running /\ accepting.pc = "loading"
  /\ accepting' = [accepting EXCEPT !.pc = "storing", !.len = curLen]
  /\ UNCHANGED <<queue, curLen, completed, newSocket, reading, stage, failed, finished, accepted>>

\* cur_len is stored, both locks are released and myaccept() returns.
Store ==
  /\ Running /\ accepting.pc = "storing"
  /\ Decrement(accepting.len)
  /\ accepting' = [accepting EXCEPT !.pc = "idle"]
  /\ UNCHANGED <<queue, completed, newSocket, reading, stage, failed, finished, accepted>>

\* myclose() of the listening socket writes to the exit pipe ...
Close ==
  /\ Running /\ accepting.pc = "idle"
  /\ accepting' = [accepting EXCEPT !.pc = "stopping"]
  /\ UNCHANGED <<queue, curLen, completed, newSocket, reading, stage, failed, finished, accepted>>

\* ... joins the receive thread, which sees the pipe in its next poll(), and
\* takes listen_lock for writing.
Join ==
  /\ Running /\ accepting.pc = "stopping"
  /\ reading.pc \in {"polling", "ended"}
  /\ reading' = [reading EXCEPT !.pc = "ended"]
  /\ accepting' = [accepting EXCEPT !.pc = "closing"]
  /\ UNCHANGED <<queue, curLen, completed, newSocket, stage, failed, finished, accepted>>

\* _mysock_close_passive_socket() closes every mysocket in a slot.  That joins
\* its transport thread, and one whose set-up has not ended needs listen_lock
\* before it can end: the application then waits for ever.
CloseQueued ==
  /\ Running /\ accepting.pc = "closing"
  /\ \A k \in Slots : queue[k] \in Conns => stage[queue[k]] # "setup"
  /\ stage' = [c \in Conns |-> IF \E k \in Slots : queue[k] = c THEN "closed" ELSE stage[c]]
  /\ queue' = [k \in Slots |-> None]
  /\ completed' = <<>>
  /\ newSocket' = None
  /\ accepting' = [accepting EXCEPT !.pc = "closed"]
  /\ UNCHANGED <<curLen, reading, failed, finished, accepted>>

-----------------------------------------------------------------------------

ListenReceive ==
  \/ \E c \in Conns : AcceptPeer(c) \/ PeerHangsUp(c)
  \/ Check \/ Place \/ Drop \/ Start \/ Refuse \/ LoadRefused \/ StoreRefused

Application ==
  \/ Accept \/ Take \/ Invalidate \/ Count \/ Load \/ Store
  \/ Close \/ Join \/ CloseQueued

ListenNext == ListenReceive \/ (\E c \in Conns : Complete(c)) \/ Application

\* The application calls myaccept() again and again until it closes the socket,
\* and each thread runs on; that peers come and set-ups end is not assumed.
ListenFairness == WF_listenVars(Application)

ListenSpec == ListenInit /\ [][ListenNext]_listenVars /\ ListenFairness

-----------------------------------------------------------------------------
(* Properties. *)

\* Every variable has its type; cur_len stays an unsigned int.
QueueType ==
  /\ queue \in [Slots -> Conns \cup {None, Zeroed}]
  /\ curLen \in 0..(Width - 1)
  /\ completed \in Seq(Slots)
  /\ newSocket \in Conns \cup {None}
  /\ reading \in [pc : Steps, slot : Slots, len : 0..(Width - 1)]
  /\ accepting \in [pc : {"idle", "waiting"} \cup Holding \cup Stopped,
                    slot : Slots, len : 0..(Width - 1)]
  /\ stage \in [Conns -> Stages]
  /\ failed \in {"none", "socket", "entry", "slot", "count"}
  /\ finished \in Seq(Conns)
  /\ accepted \in Seq(Conns)

\* myaccept() returns connections in the order in which their set-up ended, each
\* once, and forgets none: those returned and those still in the completed queue
\* are, in this order, all that finished.
AcceptedInOrder ==
  accepting.pc # "closed" =>
    finished = accepted \o [i \in DOMAIN completed |-> queue[completed[i]]]

WaitsForAccept(c) == stage[c] \in {"setup", "completed"}

\* Although slots are filled and cleared by two threads that exclude each other
\* nowhere, every connection that waits has one slot, which it shares with
\* nobody, and the completed queue names the slots of exactly the connections
\* that wait for myaccept(): no entry dangles, and the assertion of a transport
\* thread that its connection has a slot never fails.
SlotsHeld ==
  /\ \A c \in Conns : WaitsForAccept(c) <=> \E k \in Slots : queue[k] = c
  /\ \A j, k \in Slots : queue[j] \in Conns /\ queue[j] = queue[k] => j = k
  /\ \A i, j \in DOMAIN completed : completed[i] = completed[j] => i = j
  /\ \A c \in Conns :
       stage[c] = "completed" <=> \E i \in DOMAIN completed : queue[completed[i]] = c

\* A connection whose set-up has ended is returned by myaccept() unless the
\* socket is closed or an assert() ends the process.
CompletedAccepted ==
  \A c \in Conns :
    stage[c] = "completed" ~> (stage[c] = "accepted" \/ accepting.pc \in Stopped \/ ~Running)

\* network_io_tcp.c says that the receive thread does not come back to accept()
\* before the last SYN "has been dispatched to the right context, and that
\* context's socket updated to be 'new_socket'": the assertion on new_socket
\* never fails.
SocketHandedOn == failed # "socket"
=============================================================================

----------------------------- MODULE ChircLocks -----------------------------
(***************************************************************************)
(* The threads of the chirc server and its mutexes.  main.c starts one     *)
(* thread per client; a thread runs one command after another, and of each *)
(* command this module keeps the order in which it locks and unlocks the   *)
(* mutexes.  ChircCommands says what those orders are.                     *)
(*                                                                         *)
(* A mutex is a default one: locking it waits while it is taken, also when *)
(* the thread itself has taken it, and unlocking it does not look at who   *)
(* took it.                                                                *)
(***************************************************************************)
EXTENDS Integers, Sequences

CONSTANTS
  Threads,    \* the client threads, one per connection
  Locks,      \* the mutexes
  Rank,       \* Rank[m]: the place of m in the order in which mutexes nest
  Programs    \* the sequences of lock and unlock steps of the commands

Step == [op : {"lock", "unlock"}, lock : Locks]

Lock(m) == [op |-> "lock", lock |-> m]
Unlock(m) == [op |-> "unlock", lock |-> m]

VARIABLES
  todo,    \* todo[t]: the steps left of the command t runs
  holds,   \* holds[t]: the mutexes t has locked and not unlocked
  taken,   \* the mutexes that are locked
  quiet    \* no client sends another command

vars == <<todo, holds, taken, quiet>>

Init == /\ todo = [t \in Threads |-> <<>>]
        /\ holds = [t \in Threads |-> {}]
        /\ taken = {}
        /\ quiet = FALSE

\* run_client() takes the next command of its client from the buffer.
Begin(t) ==
  /\ ~quiet /\ todo[t] = <<>>
  /\ \E p \in Programs : todo' = [todo EXCEPT ![t] = p]
  /\ UNCHANGED <<holds, taken, quiet>>

\* The clients send nothing more.
FallQuiet == ~quiet /\ quiet' = TRUE /\ UNCHANGED <<todo, holds, taken>>

NextIs(t, op) == todo[t] # <<>> /\ Head(todo[t]).op = op

\* pthread_mutex_lock() returns.
Acquire(t) ==
  LET m == Head(todo[t]).lock IN
  /\ NextIs(t, "lock") /\ m \notin taken
  /\ taken' = taken \cup {m}
  /\ holds' = [holds EXCEPT ![t] = @ \cup {m}]
  /\ todo' = [todo EXCEPT ![t] = Tail(@)]
  /\ UNCHANGED quiet

\* pthread_mutex_unlock()
Release(t) ==
  LET m == Head(todo[t]).lock IN
  /\ NextIs(t, "unlock")
  /\ taken' = taken \ {m}
  /\ holds' = [holds EXCEPT ![t] = @ \ {m}]
  /\ todo' = [todo EXCEPT ![t] = Tail(@)]
  /\ UNCHANGED quiet

Run(t) == Acquire(t) \/ Release(t)

Next == FallQuiet \/ \E t \in Threads : Begin(t) \/ Run(t)

\* A thread whose next call can return makes it.  Which of several waiting
\* threads gets a mutex is left open.
Spec == Init /\ [][Next]_vars /\ \A t \in Threads : WF_vars(Run(t))
-----------------------------------------------------------------------------
(* Properties                                                              *)

TypeOK == /\ todo \in [Threads -> Seq(Step)]
          /\ holds \in [Threads -> SUBSET Locks]
          /\ taken \subseteq Locks
          /\ quiet \in BOOLEAN

\* The mutexes protect what they are for: no two threads are inside critical
\* sections of the same mutex at once.
MutualExclusion == \A t, u \in Threads : t # u => holds[t] \cap holds[u] = {}

\* t waits for a mutex that u is inside a critical section of.
WaitsFor(t, u) == NextIs(t, "lock") /\ Head(todo[t]).lock \in holds[u]

\* No threads wait for one another in a circle, a thread for itself included.
NoDeadlock ==
  \A S \in SUBSET Threads : S # {} => \E t \in S : \A u \in S : ~WaitsFor(t, u)

\* Once no client sends another command, every command that was started ends,
\* whatever the other threads were doing at that moment.
CommandsEnd == quiet ~> \A t \in Threads : todo[t] = <<>>

\* The mutexes locked after the first k steps of p by a thread that had h.
HeldAfter(h, p, k) ==
  {m \in Locks : \/ m \in h /\ \A i \in 1..k : p[i].lock # m
                 \/ \E j \in 1..k : /\ p[j] = Lock(m)
                                    /\ \A i \in (j + 1)..k : p[i].lock # m}

\* The discipline that makes all of the above hold: a step locks a mutex that
\* ranks above all the thread has, unlocks only one it has, and the last step
\* leaves it with none.
Ordered(h, p) ==
  /\ \A k \in DOMAIN p :
       LET held == HeldAfter(h, p, k - 1) IN
       /\ p[k].op = "lock" => \A m \in held : Rank[m] < Rank[p[k].lock]
       /\ p[k].op = "unlock" => p[k].lock \in held
  /\ HeldAfter(h, p, Len(p)) = {}

\* What is left of every command follows the discipline, given what its thread
\* has: a command never wants a mutex that ranks below one it has, never unlocks
\* one it has not locked, and ends with none.  As any command may begin in the
\* initial state, this says so of every one of Programs.
InOrder == \A t \in Threads : Ordered(holds[t], todo[t])

\* The same of the commands themselves, which the proofs assume.
Disciplined == \A p \in Programs : Ordered({}, p)
=============================================================================

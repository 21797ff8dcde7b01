------------------------ MODULE StcpConnectionProofs -----------------------
(***************************************************************************)
(* Theorems about three parts of a connection that do not depend on the    *)
(* data.  StcpHandshake: the set-up, for any set of initial numbers and any *)
(* number of tampered sends.  StcpRecvBuffer: for all sizes and any         *)
(* arrivals, the bounds of BufferBounds, and how far apart packets that are *)
(* read short are.  MysockListen: the queue of a listening mysocket, for    *)
(* any backlog and any number of peers: slots and completed entries never   *)
(* come apart, and myaccept() keeps to the order of completion.             *)
(***************************************************************************)
EXTENDS StcpHandshake, StcpRecvBuffer, MysockListen, SequenceTheorems, TLAPS
-----------------------------------------------------------------------------
(* The queue of a listening mysocket                                       *)

USE MysockListenAssumption DEF MysockListenAssumption

\* The unsigned decrement stays an unsigned int.
LEMMA DecrementType ==
  ASSUME NEW n \in 0..(Width - 1)
  PROVE  (n - 1) % Width \in 0..(Width - 1)
OBVIOUS

\* The receive thread owns the connection in new_socket, and the slot it has
\* chosen stays free until it fills it.
ReaderInv ==
  /\ reading.pc \in {"check", "place", "counting"} =>
       newSocket \in Conns /\ stage[newSocket] = "arriving"
  /\ reading.pc = "counting" => queue[reading.slot] = None /\ reading.len < MaxLen

\* The application owns the slot it has zeroed, and closes the queue only after
\* the receive thread has ended.
ApplicationInv ==
  /\ accepting.pc = "cleared" => queue[accepting.slot] = Zeroed
  /\ accepting.pc \in {"closing", "closed"} => reading.pc = "ended"

\* AcceptedInOrder, position by position.
OrderInv ==
  accepting.pc # "closed" =>
    /\ Len(finished) = Len(accepted) + Len(completed)
    /\ \A i \in 1..Len(accepted) : finished[i] = accepted[i]
    /\ \A i \in 1..Len(completed) : finished[Len(accepted) + i] = queue[completed[i]]

\* The inductive invariant.
ListenInv ==
  /\ QueueType
  /\ SlotsHeld
  /\ \A i \in DOMAIN completed : queue[completed[i]] \in Conns
  /\ ReaderInv
  /\ ApplicationInv
  /\ OrderInv

\* What the types say of the three sequences, position by position.
LEMMA Entries ==
  ASSUME QueueType
  PROVE  /\ Len(completed) \in Nat /\ DOMAIN completed = 1..Len(completed)
         /\ \A i \in 1..Len(completed) : completed[i] \in Slots
         /\ Len(accepted) \in Nat /\ DOMAIN accepted = 1..Len(accepted)
         /\ \A i \in 1..Len(accepted) : accepted[i] \in Conns
         /\ Len(finished) \in Nat /\ DOMAIN finished = 1..Len(finished)
BY LenProperties, ElementOfSeq DEF QueueType

\* A step that leaves slots, queues and stages alone keeps SlotsHeld.
LEMMA Framed ==
  ASSUME ListenInv, UNCHANGED <<queue, completed, stage, finished, accepted>>
  PROVE  /\ SlotsHeld'
         /\ (\A i \in DOMAIN completed : queue[completed[i]] \in Conns)'
         /\ (accepting'.pc # "closed" => accepting.pc # "closed") => OrderInv'
BY DEF ListenInv, SlotsHeld, OrderInv, WaitsForAccept

LEMMA ListenInitial == ListenInit => ListenInv
<1> SUFFICES ASSUME ListenInit PROVE ListenInv
  OBVIOUS
<1> USE DEF ListenInit, At
<1>1. /\ completed = <<>> /\ accepted = <<>> /\ finished = <<>>
      /\ Len(completed) = 0 /\ Len(accepted) = 0 /\ Len(finished) = 0
      /\ DOMAIN completed = {}
  BY EmptySeq
<1>2. QueueType
  <2>1. /\ completed \in Seq(Slots) /\ accepted \in Seq(Conns) /\ finished \in Seq(Conns)
    BY <1>1, EmptySeq
  <2> QED BY <2>1 DEF QueueType, Slots, Steps, Stages
<1>3. SlotsHeld
  BY <1>1 DEF SlotsHeld, WaitsForAccept
<1> QED BY <1>1, <1>2, <1>3 DEF ListenInv, ReaderInv, ApplicationInv, OrderInv

-----------------------------------------------------------------------------
(* The receive thread. *)

LEMMA ReceiveKeeps ==
  ASSUME ListenInv, ListenReceive
  PROVE  ListenInv'
<1>1. ASSUME NEW c \in Conns, AcceptPeer(c) PROVE ListenInv'
  <2> USE <1>1 DEF AcceptPeer, Incoming, Running, Move, Fail
  <2>1. QueueType'
    BY DEF ListenInv, QueueType, Steps, Stages
  <2>2. \A d \in Conns : stage'[d] = stage[d] \/ (stage[d] = "away" /\ stage'[d] = "arriving")
    <3>1. stage \in [Conns -> Stages]
      BY DEF ListenInv, QueueType
    <3>2. stage[c] = "away" /\ (stage' = stage \/ stage' = [stage EXCEPT ![c] = "arriving"])
      OBVIOUS
    <3> QED BY <3>1, <3>2
  <2>3. SlotsHeld'
    BY <2>2 DEF ListenInv, SlotsHeld, WaitsForAccept
  <2>4. ReaderInv' /\ ApplicationInv'
    BY DEF ListenInv, QueueType, ReaderInv, ApplicationInv, Stopped
  <2> QED BY <2>1, <2>3, <2>4 DEF ListenInv, OrderInv
<1>2. ASSUME NEW c \in Conns, PeerHangsUp(c) PROVE ListenInv'
  <2> USE <1>2 DEF PeerHangsUp, Incoming, Running, Move, Fail
  <2>1. QueueType'
    BY DEF ListenInv, QueueType, Steps, Stages
  <2>2. \A d \in Conns : stage'[d] = stage[d] \/ (stage[d] = "away" /\ stage'[d] = "dropped")
    <3>1. stage \in [Conns -> Stages]
      BY DEF ListenInv, QueueType
    <3>2. stage[c] = "away" /\ (stage' = stage \/ stage' = [stage EXCEPT ![c] = "dropped"])
      OBVIOUS
    <3> QED BY <3>1, <3>2
  <2>3. SlotsHeld'
    BY <2>2 DEF ListenInv, SlotsHeld, WaitsForAccept
  <2>4. ReaderInv' /\ ApplicationInv'
    BY DEF ListenInv, QueueType, ReaderInv, ApplicationInv, Stopped
  <2> QED BY <2>1, <2>3, <2>4 DEF ListenInv, OrderInv
<1>3. CASE Check
  <2> USE <1>3 DEF Check, Running
  <2>1. QueueType'
    BY DEF ListenInv, QueueType, Steps, Stages, Holding, Stopped, Fail
  <2>2. UNCHANGED <<queue, completed, stage, finished, accepted>>
    OBVIOUS
  <2>3. ReaderInv' /\ ApplicationInv'
    BY DEF ListenInv, QueueType, ReaderInv, ApplicationInv, Holding, Stopped, Fail
  <2>4. accepting'.pc # "closed" => accepting.pc # "closed"
    BY DEF ListenInv, QueueType
  <2> QED BY <2>1, <2>2, <2>3, <2>4, Framed DEF ListenInv
<1>4. CASE Place
  <2> USE <1>4 DEF Place, Running
  <2>1. QueueType'
    BY DEF ListenInv, QueueType, Steps, Stages, Holding, Stopped, Fail, FreeSlots, At, Slots
  <2>2. UNCHANGED <<queue, completed, stage, finished, accepted>>
    OBVIOUS
  <2>3. ReaderInv' /\ ApplicationInv'
    BY DEF ListenInv, QueueType, ReaderInv, ApplicationInv, Holding, Stopped, Fail, FreeSlots, At, Slots
  <2>4. accepting'.pc # "closed" => accepting.pc # "closed"
    BY DEF ListenInv, QueueType
  <2> QED BY <2>1, <2>2, <2>3, <2>4, Framed DEF ListenInv
<1>5. CASE Drop
  <2> USE <1>5 DEF Drop, Running, Move
  <2>1. QueueType'
    BY DEF ListenInv, QueueType, ReaderInv, Steps, Stages
  <2>2. \A d \in Conns : stage'[d] = stage[d] \/ (stage[d] = "arriving" /\ stage'[d] = "dropped")
    <3>1. stage \in [Conns -> Stages] /\ newSocket \in Conns
      BY DEF ListenInv, QueueType, ReaderInv
    <3>2. stage[newSocket] = "arriving" /\ stage' = [stage EXCEPT ![newSocket] = "dropped"]
      BY DEF ListenInv, ReaderInv
    <3> QED BY <3>1, <3>2
  <2>3. SlotsHeld'
    BY <2>2 DEF ListenInv, SlotsHeld, WaitsForAccept
  <2>4. ReaderInv' /\ ApplicationInv'
    BY DEF ListenInv, QueueType, ReaderInv, ApplicationInv
  <2> QED BY <2>1, <2>3, <2>4 DEF ListenInv, OrderInv
<1>6. CASE Start
  <2> USE <1>6 DEF Start, Running, Move, Put
  <2> DEFINE c == newSocket
             k == reading.slot
  <2>1. /\ c \in Conns /\ stage[c] = "arriving" /\ k \in Slots /\ queue[k] = None
        /\ reading.len \in 0..(Width - 1) /\ reading.len < MaxLen
    BY DEF ListenInv, QueueType, ReaderInv
  <2>2. QueueType'
    <3>1. curLen' \in 0..(Width - 1)
      BY <2>1
    <3>2. queue' \in [Slots -> Conns \cup {None, Zeroed}] /\ newSocket' \in Conns \cup {None}
      BY <2>1 DEF ListenInv, QueueType
    <3>3. stage' \in [Conns -> Stages]
      BY <2>1 DEF ListenInv, QueueType, Stages
    <3>4. reading' \in [pc : Steps, slot : Slots, len : 0..(Width - 1)]
      BY DEF ListenInv, QueueType, Steps
    <3> QED BY <3>1, <3>2, <3>3, <3>4 DEF ListenInv, QueueType
  <2>3. /\ \A j \in Slots : queue'[j] = IF j = k THEN c ELSE queue[j]
        /\ \A d \in Conns : stage'[d] = IF d = c THEN "setup" ELSE stage[d]
        /\ completed' = completed
    BY <2>1 DEF ListenInv, QueueType
  <2>4. /\ \A j \in Slots : queue[j] # c
        /\ \A i \in DOMAIN completed : completed[i] \in Slots /\ completed[i] # k
    BY <2>1, Entries DEF ListenInv, SlotsHeld, WaitsForAccept
  <2>5. \A i \in DOMAIN completed : queue'[completed[i]] = queue[completed[i]]
    BY <2>3, <2>4
  <2> HIDE DEF c, k
  <2>6. SlotsHeld'
    <3>1. ASSUME NEW d \in Conns
          PROVE  (WaitsForAccept(d) <=> \E j \in Slots : queue[j] = d)'
      BY <2>1, <2>3, <2>4 DEF ListenInv, SlotsHeld, WaitsForAccept
    <3>2. ASSUME NEW i \in Slots, NEW j \in Slots, queue'[i] \in Conns, queue'[i] = queue'[j]
          PROVE  i = j
      BY <3>2, <2>1, <2>3, <2>4 DEF ListenInv, SlotsHeld
    <3>3. ASSUME NEW d \in Conns
          PROVE  (stage[d] = "completed" <=> \E i \in DOMAIN completed : queue[completed[i]] = d)'
      <4>1. stage[d] = "completed" <=> \E i \in DOMAIN completed : queue[completed[i]] = d
        BY DEF ListenInv, SlotsHeld
      <4>2. (\E i \in DOMAIN completed : queue'[completed[i]] = d)
              <=> (\E i \in DOMAIN completed : queue[completed[i]] = d)
        BY <2>5
      <4>3. stage'[d] = "completed" <=> stage[d] = "completed"
        BY <2>1, <2>3
      <4> QED BY <4>1, <4>2, <4>3, <2>3
    <3>4. (\A i, j \in DOMAIN completed : completed[i] = completed[j] => i = j)'
      BY <2>3 DEF ListenInv, SlotsHeld
    <3>5. (\A i, j \in Slots : queue[i] \in Conns /\ queue[i] = queue[j] => i = j)'
      BY <3>2
    <3> QED BY ONLY <3>1, <3>3, <3>4, <3>5, Zenon DEF SlotsHeld
  <2>7. ReaderInv' /\ ApplicationInv'
    <3>1. reading'.pc = "polling" /\ accepting' = accepting
      BY DEF ListenInv, QueueType
    <3>2. ReaderInv'
      BY <3>1 DEF ReaderInv
    <3>3. accepting.pc = "cleared" => accepting.slot \in Slots /\ accepting.slot # k
      BY <2>1 DEF ListenInv, QueueType, ApplicationInv
    <3>4. reading.pc = "counting"
      BY ONLY Start, Zenon DEF Start
    <3> QED BY <3>1, <3>2, <3>3, <3>4, <2>3 DEF ListenInv, ApplicationInv
  <2>8. OrderInv'
    BY <2>5, Entries DEF ListenInv, OrderInv
  <2> QED BY <2>2, <2>3, <2>5, <2>6, <2>7, <2>8 DEF ListenInv
<1>7. CASE Refuse
  <2> USE <1>7 DEF Refuse, Running, Move
  <2>1. QueueType'
    <3>1. reading.len \in 0..(Width - 1) /\ reading.len < MaxLen
      BY DEF ListenInv, QueueType, ReaderInv
    <3>2. curLen' \in 0..(Width - 1)
      BY <3>1
    <3>3. stage' \in [Conns -> Stages]
      BY DEF ListenInv, QueueType, Stages
    <3>4. reading' \in [pc : Steps, slot : Slots, len : 0..(Width - 1)]
      BY DEF ListenInv, QueueType, Steps
    <3> QED BY <3>2, <3>3, <3>4 DEF ListenInv, QueueType
  <2>2. \A d \in Conns : stage'[d] = stage[d] \/ (stage[d] = "arriving" /\ stage'[d] = "dropped")
    <3>1. stage \in [Conns -> Stages] /\ newSocket \in Conns
      BY DEF ListenInv, QueueType, ReaderInv
    <3>2. stage[newSocket] = "arriving" /\ stage' = [stage EXCEPT ![newSocket] = "dropped"]
      BY DEF ListenInv, ReaderInv
    <3> QED BY <3>1, <3>2
  <2>3. SlotsHeld'
    BY <2>2 DEF ListenInv, SlotsHeld, WaitsForAccept
  <2>4. ReaderInv' /\ ApplicationInv'
    BY DEF ListenInv, QueueType, ReaderInv, ApplicationInv
  <2> QED BY <2>1, <2>3, <2>4 DEF ListenInv, OrderInv
<1>8. CASE LoadRefused
  <2> USE <1>8 DEF LoadRefused, Running
  <2>1. QueueType'
    BY DEF ListenInv, QueueType, Steps, Stages, Holding, Stopped
  <2>2. UNCHANGED <<queue, completed, stage, finished, accepted>>
    OBVIOUS
  <2>3. ReaderInv' /\ ApplicationInv'
    BY DEF ListenInv, QueueType, ReaderInv, ApplicationInv, Holding, Stopped
  <2>4. accepting'.pc # "closed" => accepting.pc # "closed"
    BY DEF ListenInv, QueueType
  <2> QED BY <2>1, <2>2, <2>3, <2>4, Framed DEF ListenInv
<1>9. CASE StoreRefused
  <2> USE <1>9 DEF StoreRefused, Running
  <2>1. QueueType'
    BY DecrementType DEF ListenInv, QueueType, Steps, Stages, Holding, Stopped, Decrement
  <2>2. UNCHANGED <<queue, completed, stage, finished, accepted>>
    OBVIOUS
  <2>3. ReaderInv' /\ ApplicationInv'
    BY DEF ListenInv, QueueType, ReaderInv, ApplicationInv, Holding, Stopped, Decrement
  <2>4. accepting'.pc # "closed" => accepting.pc # "closed"
    BY DEF ListenInv, QueueType
  <2> QED BY <2>1, <2>2, <2>3, <2>4, Framed DEF ListenInv
<1> QED BY <1>1, <1>2, <1>3, <1>4, <1>5, <1>6, <1>7, <1>8, <1>9 DEF ListenReceive

-----------------------------------------------------------------------------
(* The transport threads. *)

LEMMA CompleteKeeps ==
  ASSUME ListenInv, NEW c \in Conns, Complete(c)
  PROVE  ListenInv'
<1> USE DEF Complete, Running, Move, Completed
<1>1. PICK k \in Slots : queue[k] = c /\ completed' = Append(completed, k)
  OBVIOUS
<1> DEFINE n == Len(completed)
<1>2. /\ n \in Nat /\ Len(completed') = n + 1
      /\ DOMAIN completed = 1..n /\ DOMAIN completed' = 1..(n + 1)
      /\ \A i \in 1..n : completed'[i] = completed[i] /\ completed[i] \in Slots
      /\ completed'[n + 1] = k
      /\ completed' \in Seq(Slots)
  BY <1>1, Entries, AppendProperties DEF ListenInv, QueueType
<1>3. /\ \A d \in Conns : stage'[d] = IF d = c THEN "completed" ELSE stage[d]
      /\ stage[c] = "setup" /\ queue' = queue
  BY DEF ListenInv, QueueType
<1>4. QueueType'
  BY <1>2, AppendProperties DEF ListenInv, QueueType, Stages
<1>5. \A i \in 1..n : completed[i] # k
  BY <1>1, <1>2, <1>3 DEF ListenInv, SlotsHeld
<1> HIDE DEF n
<1>6. SlotsHeld'
  <2>1. ASSUME NEW d \in Conns
        PROVE  (WaitsForAccept(d) <=> \E j \in Slots : queue[j] = d)'
    BY <1>3 DEF ListenInv, SlotsHeld, WaitsForAccept
  <2>2. ASSUME NEW i \in 1..(n + 1), NEW j \in 1..(n + 1), completed'[i] = completed'[j]
        PROVE  i = j
    BY <2>2, <1>2, <1>5 DEF ListenInv, SlotsHeld
  <2>3. ASSUME NEW d \in Conns
        PROVE  stage'[d] = "completed" <=> \E i \in 1..(n + 1) : queue[completed'[i]] = d
    <3>1. (\E i \in 1..(n + 1) : queue[completed'[i]] = d)
            <=> (\E i \in 1..n : queue[completed[i]] = d) \/ d = c
      BY <1>1, <1>2
    <3> QED BY <3>1, <1>2, <1>3 DEF ListenInv, SlotsHeld
  <2>4. (\A i, j \in Slots : queue[i] \in Conns /\ queue[i] = queue[j] => i = j)'
    BY <1>3 DEF ListenInv, SlotsHeld
  <2> QED BY <2>1, <2>2, <2>3, <2>4, <1>2, <1>3 DEF SlotsHeld
<1>7. (\A i \in DOMAIN completed : queue[completed[i]] \in Conns)'
  BY <1>1, <1>2, <1>3 DEF ListenInv
<1>8. ReaderInv' /\ ApplicationInv'
  BY <1>3 DEF ListenInv, QueueType, ReaderInv, ApplicationInv
<1>9. OrderInv'
  <2> SUFFICES ASSUME accepting'.pc # "closed"
               PROVE  /\ Len(finished') = Len(accepted') + Len(completed')
                      /\ \A i \in 1..Len(accepted') : finished'[i] = accepted'[i]
                      /\ \A i \in 1..Len(completed') :
                           finished'[Len(accepted') + i] = queue'[completed'[i]]
    BY DEF OrderInv
  <2>1. /\ Len(finished) \in Nat /\ Len(accepted) \in Nat /\ accepted' = accepted
        /\ Len(finished') = Len(finished) + 1
        /\ \A i \in 1..Len(finished) : finished'[i] = finished[i]
        /\ finished'[Len(finished) + 1] = c
    BY Entries, AppendProperties DEF ListenInv, QueueType
  <2>2. /\ Len(finished) = Len(accepted) + n
        /\ \A i \in 1..Len(accepted) : finished[i] = accepted[i]
        /\ \A i \in 1..n : finished[Len(accepted) + i] = queue[completed[i]]
    BY DEF ListenInv, OrderInv, n
  <2>3. \A i \in 1..(n + 1) : finished'[Len(accepted) + i] = queue[completed'[i]]
    <3> TAKE i \in 1..(n + 1)
    <3>1. CASE i \in 1..n
      <4>1. Len(accepted) + i \in 1..Len(finished)
        BY <3>1, <1>2, <2>1, <2>2
      <4> QED BY <3>1, <4>1, <1>2, <2>1, <2>2
    <3>2. CASE i = n + 1
      <4>1. Len(accepted) + i = Len(finished) + 1
        BY <3>2, <1>2, <2>1, <2>2
      <4> QED BY <3>2, <4>1, <1>1, <1>2, <2>1
    <3>3. n \in Nat
      BY <1>2
    <3>4. i \in 1..n \/ i = n + 1
      BY <3>3
    <3> QED BY <3>1, <3>2, <3>4
  <2> QED BY <1>2, <1>3, <2>1, <2>2, <2>3
<1> QED BY <1>4, <1>6, <1>7, <1>8, <1>9 DEF ListenInv

-----------------------------------------------------------------------------
(* The application. *)

LEMMA TakeKeeps ==
  ASSUME ListenInv, Take
  PROVE  ListenInv'
<1> USE DEF Take, Running, Move, Put
<1> DEFINE n == Len(completed)
           k == Head(completed)
           c == queue[k]
<1>1. /\ n \in Nat \ {0} /\ k = completed[1]
      /\ DOMAIN completed = 1..n /\ DOMAIN completed' = 1..(n - 1) /\ Len(completed') = n - 1
      /\ \A i \in 1..n : completed[i] \in Slots
      /\ \A i \in 1..(n - 1) : completed'[i] = completed[i + 1]
      /\ completed' \in Seq(Slots)
  BY Entries, HeadTailProperties, EmptySeq, LenProperties DEF ListenInv, QueueType
<1>2. /\ k \in Slots /\ c \in Conns /\ stage[c] = "completed"
  BY <1>1 DEF ListenInv, SlotsHeld
<1>3. QueueType'
  <2>1. accepted' \in Seq(Conns)
    BY <1>2, AppendProperties DEF ListenInv, QueueType
  <2> QED BY <1>1, <1>2, <2>1 DEF ListenInv, QueueType, At, Holding, Stages
<1>4. /\ \A j \in Slots : queue'[j] = IF j = k THEN Zeroed ELSE queue[j]
      /\ \A d \in Conns : stage'[d] = IF d = c THEN "accepted" ELSE stage[d]
  BY <1>2 DEF ListenInv, QueueType
<1>5. \A i \in 1..(n - 1) : /\ completed'[i] \in Slots /\ completed'[i] # k
                            /\ queue'[completed'[i]] = queue[completed[i + 1]]
                            /\ queue[completed[i + 1]] # c
  <2> TAKE i \in 1..(n - 1)
  <2>1. i + 1 \in 1..n /\ 1 \in 1..n /\ i + 1 # 1 /\ completed'[i] = completed[i + 1]
    BY <1>1
  <2>2. completed[i + 1] # completed[1]
    BY <1>1, <2>1 DEF ListenInv, SlotsHeld
  <2>3. queue[completed[i + 1]] # queue[completed[1]]
    BY <1>1, <1>2, <2>1, <2>2 DEF ListenInv, SlotsHeld
  <2> QED BY <1>1, <1>4, <2>1, <2>2, <2>3
<1> HIDE DEF n, k, c
<1>6. SlotsHeld'
  <2>1. ASSUME NEW d \in Conns
        PROVE  (WaitsForAccept(d) <=> \E j \in Slots : queue[j] = d)'
    BY <1>2, <1>4 DEF ListenInv, SlotsHeld, WaitsForAccept, c
  <2>2. ASSUME NEW i \in Slots, NEW j \in Slots, queue'[i] \in Conns, queue'[i] = queue'[j]
        PROVE  i = j
    BY <2>2, <1>4 DEF ListenInv, SlotsHeld
  <2>3. ASSUME NEW i \in 1..(n - 1), NEW j \in 1..(n - 1), completed'[i] = completed'[j]
        PROVE  i = j
    <3>1. i + 1 \in 1..n /\ j + 1 \in 1..n /\ completed[i + 1] = completed[j + 1]
      BY <2>3, <1>1
    <3>2. i + 1 = j + 1
      BY <3>1, <1>1 DEF ListenInv, SlotsHeld
    <3> QED BY <3>2
  <2>4. ASSUME NEW d \in Conns
        PROVE  stage'[d] = "completed" <=> \E i \in 1..(n - 1) : queue'[completed'[i]] = d
    <3>1. ASSUME NEW i \in 1..(n - 1), queue'[completed'[i]] = d
          PROVE  stage'[d] = "completed"
      <4>1. i + 1 \in 1..n /\ queue[completed[i + 1]] = d /\ d # c
        BY <3>1, <1>1, <1>5
      <4>2. \E j \in DOMAIN completed : queue[completed[j]] = d
        BY <4>1, <1>1
      <4>3. stage[d] = "completed"
        BY <4>2 DEF ListenInv, SlotsHeld
      <4> QED BY <4>1, <4>3, <1>4
    <3>2. ASSUME stage'[d] = "completed"
          PROVE  \E i \in 1..(n - 1) : queue'[completed'[i]] = d
      <4>1. stage[d] = "completed" /\ d # c
        BY <3>2, <1>4
      <4>2. PICK i \in 1..n : queue[completed[i]] = d
        BY <4>1, <1>1 DEF ListenInv, SlotsHeld
      <4>3. i # 1
        BY <4>1, <4>2, <1>1 DEF c
      <4>4. i - 1 \in 1..(n - 1) /\ (i - 1) + 1 = i
        BY <4>3, <1>1
      <4> QED BY <4>2, <4>4, <1>5
    <3> QED BY <3>1, <3>2
  <2>5. DOMAIN completed' = 1..(n - 1)
    BY <1>1
  <2> HIDE DEF Take
  <2>6. \A i, j \in DOMAIN completed' : completed'[i] = completed'[j] => i = j
    BY <2>3, <2>5
  <2>7. \A d \in Conns : stage'[d] = "completed"
                           <=> \E i \in DOMAIN completed' : queue'[completed'[i]] = d
    BY <2>4, <2>5
  <2> QED BY <2>1, <2>2, <2>6, <2>7 DEF SlotsHeld
<1>7. (\A i \in DOMAIN completed : queue[completed[i]] \in Conns)'
  <2>1. \A i \in 1..(n - 1) : i + 1 \in 1..n
    BY <1>1
  <2> QED BY <2>1, <1>1, <1>5 DEF ListenInv
<1>8. ReaderInv'
  <2>1. queue[k] # None
    BY <1>2 DEF c
  <2> QED BY <2>1, <1>2, <1>4 DEF ListenInv, QueueType, ReaderInv
<1>9. ApplicationInv'
  BY <1>2, <1>4 DEF ListenInv, QueueType, ApplicationInv, At, k
<1>10. OrderInv'
  <2>1. /\ Len(finished) \in Nat /\ Len(accepted) \in Nat /\ finished' = finished
        /\ Len(accepted') = Len(accepted) + 1
        /\ \A i \in 1..Len(accepted) : accepted'[i] = accepted[i]
        /\ accepted'[Len(accepted) + 1] = c
    BY <1>2, Entries, AppendProperties DEF ListenInv, QueueType, c, k
  <2>2. /\ Len(finished) = Len(accepted) + n
        /\ \A i \in 1..Len(accepted) : finished[i] = accepted[i]
        /\ \A i \in 1..n : finished[Len(accepted) + i] = queue[completed[i]]
    BY DEF ListenInv, OrderInv, n
  <2>3. finished[Len(accepted) + 1] = c
    BY <1>1, <2>2 DEF c
  <2>4. \A i \in 1..(Len(accepted) + 1) : finished[i] = accepted'[i]
    BY <2>1, <2>2, <2>3
  <2>5. ASSUME NEW i \in 1..(n - 1)
        PROVE  finished[Len(accepted') + i] = queue'[completed'[i]]
    <3>1. i + 1 \in 1..n /\ Len(accepted') + i = Len(accepted) + (i + 1)
      BY <1>1, <2>1
    <3> QED BY <3>1, <2>2, <1>5
  <2>6. Len(finished) = Len(accepted') + Len(completed')
    <3>1. n \in Nat /\ Len(completed') = n - 1
      BY <1>1
    <3>2. Len(accepted) \in Nat /\ Len(accepted') = Len(accepted) + 1
      BY <2>1
    <3> HIDE DEF Take
    <3> QED BY <3>1, <3>2, <2>2
  <2>7. /\ \A i \in 1..Len(accepted') : finished'[i] = accepted'[i]
        /\ \A i \in 1..Len(completed') : finished'[Len(accepted') + i] = queue'[completed'[i]]
    BY <1>1, <2>1, <2>4, <2>5
  <2> QED BY <2>1, <2>6, <2>7 DEF OrderInv
<1> QED BY <1>3, <1>6, <1>7, <1>8, <1>9, <1>10 DEF ListenInv

LEMMA ApplicationKeeps ==
  ASSUME ListenInv, Application
  PROVE  ListenInv'
<1>1. CASE Accept
  <2> USE <1>1 DEF Accept, Running
  <2>1. QueueType'
    BY DEF ListenInv, QueueType, Steps, Stages, Holding, Stopped
  <2>2. UNCHANGED <<queue, completed, stage, finished, accepted>>
    OBVIOUS
  <2>3. ReaderInv' /\ ApplicationInv'
    BY DEF ListenInv, QueueType, ReaderInv, ApplicationInv, Holding, Stopped
  <2>4. accepting'.pc # "closed" => accepting.pc # "closed"
    BY DEF ListenInv, QueueType
  <2> QED BY <2>1, <2>2, <2>3, <2>4, Framed DEF ListenInv
<1>2. CASE Invalidate
  <2> USE <1>2 DEF Invalidate, Running, Put
  <2> DEFINE k == accepting.slot
  <2>1. k \in Slots /\ queue[k] = Zeroed
    BY DEF ListenInv, QueueType, ApplicationInv
  <2>2. \A j \in Slots : queue'[j] = IF j = k THEN None ELSE queue[j]
    BY DEF ListenInv, QueueType
  <2>3. \A i \in DOMAIN completed : queue'[completed[i]] = queue[completed[i]]
    BY <2>1, <2>2, Entries DEF ListenInv
  <2>4. QueueType'
    BY <2>1 DEF ListenInv, QueueType, Holding
  <2> HIDE DEF k
  <2>5. SlotsHeld'
    BY <2>1, <2>2, <2>3 DEF ListenInv, SlotsHeld, WaitsForAccept
  <2>6. ReaderInv' /\ ApplicationInv'
    BY <2>1, <2>2 DEF ListenInv, QueueType, ReaderInv, ApplicationInv
  <2>7. OrderInv'
    BY <2>3, Entries DEF ListenInv, QueueType, OrderInv
  <2> QED BY <2>3, <2>4, <2>5, <2>6, <2>7 DEF ListenInv
<1>3. CASE Count
  <2> USE <1>3 DEF Count, Running
  <2>1. QueueType'
    BY DEF ListenInv, QueueType, Steps, Stages, Holding, Stopped, Fail
  <2>2. UNCHANGED <<queue, completed, stage, finished, accepted>>
    OBVIOUS
  <2>3. ReaderInv' /\ ApplicationInv'
    BY DEF ListenInv, QueueType, ReaderInv, ApplicationInv, Holding, Stopped, Fail
  <2>4. accepting'.pc # "closed" => accepting.pc # "closed"
    BY DEF ListenInv, QueueType
  <2> QED BY <2>1, <2>2, <2>3, <2>4, Framed DEF ListenInv
<1>4. CASE Load
  <2> USE <1>4 DEF Load, Running
  <2>1. QueueType'
    BY DEF ListenInv, QueueType, Steps, Stages, Holding, Stopped
  <2>2. UNCHANGED <<queue, completed, stage, finished, accepted>>
    OBVIOUS
  <2>3. ReaderInv' /\ ApplicationInv'
    BY DEF ListenInv, QueueType, ReaderInv, ApplicationInv, Holding, Stopped
  <2>4. accepting'.pc # "closed" => accepting.pc # "closed"
    BY DEF ListenInv, QueueType
  <2> QED BY <2>1, <2>2, <2>3, <2>4, Framed DEF ListenInv
<1>5. CASE Store
  <2> USE <1>5 DEF Store, Running
  <2>1. QueueType'
    BY DecrementType DEF ListenInv, QueueType, Steps, Stages, Holding, Stopped, Decrement
  <2>2. UNCHANGED <<queue, completed, stage, finished, accepted>>
    OBVIOUS
  <2>3. ReaderInv' /\ ApplicationInv'
    BY DEF ListenInv, QueueType, ReaderInv, ApplicationInv, Holding, Stopped, Decrement
  <2>4. accepting'.pc # "closed" => accepting.pc # "closed"
    BY DEF ListenInv, QueueType
  <2> QED BY <2>1, <2>2, <2>3, <2>4, Framed DEF ListenInv
<1>6. CASE Close
  <2> USE <1>6 DEF Close, Running
  <2>1. QueueType'
    BY DEF ListenInv, QueueType, Steps, Stages, Holding, Stopped
  <2>2. UNCHANGED <<queue, completed, stage, finished, accepted>>
    OBVIOUS
  <2>3. ReaderInv' /\ ApplicationInv'
    BY DEF ListenInv, QueueType, ReaderInv, ApplicationInv, Holding, Stopped
  <2>4. accepting'.pc # "closed" => accepting.pc # "closed"
    BY DEF ListenInv, QueueType
  <2> QED BY <2>1, <2>2, <2>3, <2>4, Framed DEF ListenInv
<1>7. CASE Join
  <2> USE <1>7 DEF Join, Running
  <2>1. QueueType'
    BY DEF ListenInv, QueueType, Steps, Stages, Holding, Stopped
  <2>2. UNCHANGED <<queue, completed, stage, finished, accepted>>
    OBVIOUS
  <2>3. ReaderInv' /\ ApplicationInv'
    BY DEF ListenInv, QueueType, ReaderInv, ApplicationInv, Holding, Stopped
  <2>4. accepting'.pc # "closed" => accepting.pc # "closed"
    BY DEF ListenInv, QueueType
  <2> QED BY <2>1, <2>2, <2>3, <2>4, Framed DEF ListenInv
<1>8. CASE CloseQueued
  <2> USE <1>8 DEF CloseQueued, Running
  <2>1. completed' = <<>> /\ DOMAIN completed' = {} /\ completed' \in Seq(Slots)
    BY EmptySeq
  <2>2. /\ \A k \in Slots : queue'[k] = None
        /\ \A d \in Conns : stage'[d] = IF \E k \in Slots : queue[k] = d THEN "closed" ELSE stage[d]
    OBVIOUS
  <2>3. QueueType'
    BY <2>1 DEF ListenInv, QueueType, Stages, Stopped, Steps
  <2>4. \A d \in Conns : stage'[d] \notin {"setup", "completed"}
    BY <2>2 DEF ListenInv, SlotsHeld, WaitsForAccept
  <2>5. SlotsHeld'
    BY <2>1, <2>2, <2>4 DEF SlotsHeld, WaitsForAccept
  <2>6. ReaderInv' /\ ApplicationInv' /\ OrderInv'
    BY DEF ListenInv, QueueType, ReaderInv, ApplicationInv, OrderInv
  <2> QED BY <2>1, <2>3, <2>5, <2>6 DEF ListenInv
<1> QED BY <1>1, <1>2, <1>3, <1>4, <1>5, <1>6, <1>7, <1>8, TakeKeeps DEF Application

-----------------------------------------------------------------------------

\* The inductive invariant holds in every state of the listening mysocket.
THEOREM ListenInvariant == ListenSpec => []ListenInv
<1>1. ListenInv /\ [ListenNext]_listenVars => ListenInv'
  <2> SUFFICES ASSUME ListenInv, [ListenNext]_listenVars PROVE ListenInv'
    OBVIOUS
  <2>1. CASE ListenNext
    BY <2>1, ReceiveKeeps, CompleteKeeps, ApplicationKeeps DEF ListenNext
  <2>2. CASE UNCHANGED listenVars
    BY <2>2 DEF listenVars, ListenInv, QueueType, SlotsHeld, WaitsForAccept, ReaderInv, ApplicationInv, OrderInv
  <2> QED BY <2>1, <2>2
<1> QED BY ListenInitial, <1>1, PTL DEF ListenSpec

\* Type correctness: cur_len in particular, whatever updates of it are lost.
THEOREM ListenType == ListenSpec => []QueueType
<1>1. ListenInv => QueueType
  BY DEF ListenInv
<1> QED BY ListenInvariant, <1>1, PTL

\* Every connection that waits holds a slot of its own, and the completed queue
\* of connection_demux.c points at exactly the completed ones, for any backlog.
THEOREM ListenSlotsHeld == ListenSpec => []SlotsHeld
<1>1. ListenInv => SlotsHeld
  BY DEF ListenInv
<1> QED BY ListenInvariant, <1>1, PTL

\* myaccept() returns the connections in the order of their completion and
\* forgets none, for any backlog and any number of peers.
THEOREM ListenAcceptedInOrder == ListenSpec => []AcceptedInOrder
<1>1. ListenInv => AcceptedInOrder
  <2> SUFFICES ASSUME ListenInv, accepting.pc # "closed"
               PROVE  finished = accepted \o [i \in DOMAIN completed |-> queue[completed[i]]]
    BY DEF AcceptedInOrder
  <2> DEFINE rest == [i \in DOMAIN completed |-> queue[completed[i]]]
             n == Len(completed)
             m == Len(accepted)
  <2>1. /\ n \in Nat /\ m \in Nat /\ DOMAIN completed = 1..n
        /\ finished \in Seq(Conns) /\ accepted \in Seq(Conns)
        /\ Len(finished) = m + n
        /\ \A i \in 1..m : finished[i] = accepted[i]
        /\ \A i \in 1..n : finished[m + i] = rest[i]
    BY Entries DEF ListenInv, QueueType, OrderInv
  <2>2. rest \in Seq(Conns) /\ Len(rest) = n
    <3>1. rest \in [1..n -> Conns]
      BY <2>1 DEF ListenInv
    <3> QED BY <3>1, <2>1, SeqDef, LenProperties
  <2> HIDE DEF rest, n, m
  <2>3. /\ accepted \o rest \in Seq(Conns) /\ Len(accepted \o rest) = m + n
        /\ \A i \in 1..(m + n) :
             (accepted \o rest)[i] = IF i <= m THEN accepted[i] ELSE rest[i - m]
    BY <2>1, <2>2, ConcatProperties DEF m
  <2>4. ASSUME NEW i \in 1..(m + n) PROVE finished[i] = (accepted \o rest)[i]
    <3>1. CASE i <= m
      BY <3>1, <2>1, <2>3
    <3>2. CASE i > m
      <4>1. i - m \in 1..n /\ m + (i - m) = i
        BY <3>2, <2>1
      <4> QED BY <3>2, <4>1, <2>1, <2>3
    <3>3. i <= m \/ i > m
      BY <2>1
    <3> QED BY <3>1, <3>2, <3>3, Zenon
  <2>5. finished = accepted \o rest
    BY <2>1, <2>3, <2>4, SeqEqual
  <2> QED BY <2>5 DEF rest
<1> QED BY ListenInvariant, <1>1, PTL
-----------------------------------------------------------------------------
(* The set-up                                                              *)

USE MaxFaultsAssumption, InitialSeqsAssumption
    DEF MaxFaultsAssumption, InitialSeqsAssumption

(* What the line does to a packet leaves it a line of packets. *)
LEMMA NetworkSendType ==
  ASSUME NEW P, NEW l \in Lines(P), NEW p \in P, NEW k \in NetworkSend(l, p)
  PROVE  k \in Lines(P)
<1> USE DEF Lines
<1>1. CASE k = Sent(l, p)
  <2>1. Append(l.wire, p) \in Seq(P)
    OBVIOUS
  <2> QED BY <1>1, <2>1 DEF Sent
<1>2. CASE /\ l.faults # MaxFaults
           /\ \E t \in Tampered(l, p) : k = [t EXCEPT !.faults = @ + 1]
  <2>1. PICK t \in Tampered(l, p) : k = [t EXCEPT !.faults = @ + 1]
    BY <1>2
  <2>2. t \in Lines(P) /\ t.faults = l.faults
    <3>1. CASE t = Dropped(l, p)
      BY <3>1 DEF Dropped
    <3>2. CASE t = Duplicated(l, p)
      <4>1. Append(Append(l.wire, p), p) \in Seq(P)
        OBVIOUS
      <4> QED BY <3>2, <4>1 DEF Duplicated
    <3>3. CASE t = Kept(l, p)
      <4>1. <<p>> \in Seq(P)
        OBVIOUS
      <4> QED BY <3>3, <4>1 DEF Kept
    <3>4. CASE t = Replayed(l, p)
      <4>1. Append(l.wire, p) \in Seq(P) /\ l.wire \o l.copy \in Seq(P)
        OBVIOUS
      <4> QED BY <3>4, <4>1 DEF Replayed
    <3> QED BY <3>1, <3>2, <3>3, <3>4 DEF Tampered
  <2>3. t.faults + 1 \in 0..MaxFaults
    BY <1>2, <2>2
  <2>4. t = [wire |-> t.wire, copy |-> t.copy, faults |-> t.faults]
    BY <2>2
  <2> QED BY <2>1, <2>2, <2>3, <2>4
<1> QED BY <1>1, <1>2 DEF NetworkSend

(* The elements of the sequences a line is built from. *)
LEMMA ElementsOfAppend ==
  ASSUME NEW P, NEW s \in Seq(P), NEW p \in P
  PROVE  ToSet(Append(s, p)) = ToSet(s) \cup {p}
<1> USE DEF ToSet
<1>1. ASSUME NEW x \in ToSet(s) \cup {p} PROVE x \in ToSet(Append(s, p))
  <2>1. CASE x = p
    BY <2>1, Append(s, p)[Len(s) + 1] = p, Len(s) + 1 \in DOMAIN Append(s, p)
  <2>2. CASE x \in ToSet(s)
    <3>1. PICK i \in DOMAIN s : x = s[i]
      BY <2>2
    <3> QED BY <3>1, Append(s, p)[i] = s[i], i \in DOMAIN Append(s, p)
  <2> QED BY <1>1, <2>1, <2>2
<1> QED BY <1>1

\* A concatenation has the elements of both sequences.
LEMMA ElementsOfConcat ==
  ASSUME NEW P, NEW s \in Seq(P), NEW t \in Seq(P)
  PROVE  ToSet(s \o t) = ToSet(s) \cup ToSet(t)
<1> USE DEF ToSet
<1>1. ASSUME NEW x \in ToSet(s) PROVE x \in ToSet(s \o t)
  <2>1. PICK i \in DOMAIN s : x = s[i]
    BY <1>1
  <2> QED BY <2>1, (s \o t)[i] = s[i], i \in DOMAIN (s \o t)
<1>2. ASSUME NEW x \in ToSet(t) PROVE x \in ToSet(s \o t)
  <2>1. PICK i \in DOMAIN t : x = t[i]
    BY <1>2
  <2> QED BY <2>1, (s \o t)[Len(s) + i] = t[i], Len(s) + i \in DOMAIN (s \o t)
<1>3. ASSUME NEW x \in ToSet(s \o t) PROVE x \in ToSet(s) \cup ToSet(t)
  <2>1. PICK i \in 1..(Len(s) + Len(t)) : x = (s \o t)[i]
    BY <1>3
  <2>2. CASE i <= Len(s)
    BY <2>1, <2>2, (s \o t)[i] = s[i], i \in DOMAIN s
  <2>3. CASE i > Len(s)
    BY <2>1, <2>3, (s \o t)[i] = t[i - Len(s)], i - Len(s) \in DOMAIN t
  <2> QED BY <2>2, <2>3
<1> QED BY <1>1, <1>2, <1>3

\* The elements of the shortest tuples.
LEMMA ElementsOfTuples ==
  ASSUME NEW p
  PROVE  ToSet(<<p>>) = {p} /\ ToSet(<<p, p>>) = {p}
BY DEF ToSet

\* The tail of a sequence has no new elements.
LEMMA ElementsOfTail ==
  ASSUME NEW P, NEW s \in Seq(P), s # <<>>
  PROVE  /\ Tail(s) \in Seq(P) /\ ToSet(Tail(s)) \subseteq ToSet(s)
         /\ Head(s) \in P /\ Head(s) \in ToSet(s)
<1> USE DEF ToSet
<1>1. ASSUME NEW i \in DOMAIN Tail(s) PROVE Tail(s)[i] \in ToSet(s)
  BY Tail(s)[i] = s[i + 1], i + 1 \in DOMAIN s
<1>2. Tail(s) \in Seq(P) /\ 1 \in DOMAIN s /\ Head(s) = s[1]
  OBVIOUS
<1> QED BY <1>1, <1>2

(* After a send the line can deliver nothing but what it could deliver      *)
(* before and the packet sent: dropping, repeating and delaying make no     *)
(* packet up.                                                               *)
LEMMA NetworkSendInFlight ==
  ASSUME NEW P, NEW l \in Lines(P), NEW p \in P, NEW k \in NetworkSend(l, p)
  PROVE  InFlight(k) \subseteq InFlight(l) \cup {p}
<1>1. PICK w \in Seq(P), c \in Seq(P), n \in 0..MaxFaults :
        l = [wire |-> w, copy |-> c, faults |-> n]
  BY DEF Lines
<1>2. InFlight(l) = ToSet(w) \cup ToSet(c)
  BY <1>1 DEF InFlight
<1>3. /\ ToSet(Append(w, p)) = ToSet(w) \cup {p}
      /\ ToSet(Append(Append(w, p), p)) = ToSet(w) \cup {p}
      /\ ToSet(w \o c) = ToSet(w) \cup ToSet(c)
      /\ ToSet(<<p>>) = {p}
  <2>1. Append(w, p) \in Seq(P)
    OBVIOUS
  <2>2. ToSet(Append(w, p)) = ToSet(w) \cup {p}
    BY ElementsOfAppend
  <2>3. ToSet(Append(Append(w, p), p)) = ToSet(Append(w, p)) \cup {p}
    <3>1. \A v \in Seq(P) : ToSet(Append(v, p)) = ToSet(v) \cup {p}
      BY ElementsOfAppend
    <3> QED BY ONLY <2>1, <3>1, Zenon
  <2>4. ToSet(w \o c) = ToSet(w) \cup ToSet(c)
    BY ElementsOfConcat
  <2> QED BY <2>2, <2>3, <2>4, ElementsOfTuples
<1>4. CASE k = Sent(l, p)
  <2>1. k.wire = Append(w, p) /\ k.copy = c
    BY <1>1, <1>4 DEF Sent
  <2> QED BY <2>1, <1>2, <1>3 DEF InFlight
<1>5. CASE \E t \in Tampered(l, p) : k = [t EXCEPT !.faults = @ + 1]
  <2>1. PICK t \in Tampered(l, p) : k = [t EXCEPT !.faults = @ + 1]
    BY <1>5
  <2>2. \/ t.wire = w /\ t.copy = c
        \/ t.wire = Append(Append(w, p), p) /\ t.copy = c
        \/ t.wire = w /\ t.copy = <<p>>
        \/ t.wire = Append(w, p) /\ t.copy = c
        \/ t.wire = w \o c /\ t.copy = c
    BY ONLY <1>1, t \in Tampered(l, p) DEF Tampered, Dropped, Duplicated, Kept, Replayed
  <2>3. k.wire = t.wire /\ k.copy = t.copy
    BY <2>1, <1>1 DEF Tampered, Dropped, Duplicated, Kept, Replayed
  <2> QED BY <2>2, <2>3, <1>2, <1>3 DEF InFlight
<1> QED BY <1>4, <1>5 DEF NetworkSend

(* Taking a packet leaves the rest of the line; the packet was in flight. *)
LEMMA ReceivedInFlight ==
  ASSUME NEW P, NEW l \in Lines(P), l.wire # <<>>
  PROVE  /\ Received(l) \in Lines(P)
         /\ InFlight(Received(l)) \subseteq InFlight(l)
         /\ Head(l.wire) \in P
         /\ Head(l.wire) \in InFlight(l)
<1>1. l.wire \in Seq(P) /\ l = [wire |-> l.wire, copy |-> l.copy, faults |-> l.faults]
  BY DEF Lines
<1>2. Received(l) = [wire |-> Tail(l.wire), copy |-> l.copy, faults |-> l.faults]
  BY <1>1 DEF Received
<1> QED BY <1>1, <1>2, ElementsOfTail DEF Lines, InFlight

-----------------------------------------------------------------------------
(* What a receive does to the two lines.                                   *)

\* The peer is the other endpoint, and its peer is the first.
LEMMA PeerFacts == \A e \in Endpoint : /\ Peer(e) \in Endpoint /\ Peer(e) # e
                                       /\ Peer(Peer(e)) = e
                                       /\ \A d \in Endpoint : d = e \/ d = Peer(e)
BY DEF Endpoint, Peer

\* A send changes the peer's line only, and adds the packet at most.
LEMMA SendEffect ==
  ASSUME TypeOK, NEW e \in Endpoint, NEW p \in Packet,
         NEW l \in NetworkSend(line[Peer(e)], p)
  PROVE  l \in Lines(Packet) /\ InFlight(l) \subseteq InFlight(line[Peer(e)]) \cup {p}
<1>1. line[Peer(e)] \in Lines(Packet)
  BY PeerFacts DEF TypeOK
<1> QED BY <1>1, NetworkSendType, NetworkSendInFlight

\* Receiving and answering: the own line loses, the peer's gains the answer.
LEMMA AnswerEffect ==
  ASSUME TypeOK, NEW e \in Endpoint, line[e].wire # <<>>, NEW p \in Packet, Answer(e, p)
  PROVE  /\ line' \in [Endpoint -> Lines(Packet)]
         /\ InFlight(line'[e]) \subseteq InFlight(line[e])
         /\ InFlight(line'[Peer(e)]) \subseteq InFlight(line[Peer(e)]) \cup {p}
<1>1. PICK l \in NetworkSend(line[Peer(e)], p) :
        line' = [line EXCEPT ![e] = Received(@), ![Peer(e)] = l]
  BY DEF Answer
<1>2. line \in [Endpoint -> Lines(Packet)] /\ line[e] \in Lines(Packet)
  BY DEF TypeOK
<1>3. line'[e] = Received(line[e]) /\ line'[Peer(e)] = l
  BY <1>1, <1>2, PeerFacts
<1>4. /\ Received(line[e]) \in Lines(Packet)
      /\ InFlight(Received(line[e])) \subseteq InFlight(line[e])
  BY <1>2, ReceivedInFlight
<1> QED BY <1>1, <1>2, <1>3, <1>4, SendEffect, PeerFacts

\* Receiving without an answer puts nothing on a line.
LEMMA ConsumeEffect ==
  ASSUME TypeOK, NEW e \in Endpoint, line[e].wire # <<>>, Consume(e)
  PROVE  /\ line' \in [Endpoint -> Lines(Packet)]
         /\ InFlight(line'[e]) \subseteq InFlight(line[e])
         /\ InFlight(line'[Peer(e)]) \subseteq InFlight(line[Peer(e)])
<1>1. line \in [Endpoint -> Lines(Packet)] /\ line[e] \in Lines(Packet)
  BY DEF TypeOK
<1>2. /\ Received(line[e]) \in Lines(Packet)
      /\ InFlight(Received(line[e])) \subseteq InFlight(line[e])
  BY <1>1, ReceivedInFlight
<1> QED BY <1>1, <1>2, PeerFacts DEF Consume

\* The packet about to be received is one of those in flight.
LEMMA ArrivingFacts ==
  ASSUME TypeOK, NEW e \in Endpoint, line[e].wire # <<>>
  PROVE  Arriving(e) \in Packet /\ Arriving(e) \in InFlight(line[e])
<1>1. line[e] \in Lines(Packet)
  BY DEF TypeOK
<1> QED BY <1>1, ReceivedInFlight DEF Arriving

-----------------------------------------------------------------------------
(* The inductive invariant and the theorems.                               *)

Inv == TypeOK /\ Consistent

\* The invariant holds before the first packet.
LEMMA InitInv == Init => Inv
<1> SUFFICES ASSUME Init PROVE Inv
  OBVIOUS
<1>1. EmptyLine \in Lines(Packet) /\ InFlight(EmptyLine) = {}
  BY DEF EmptyLine, Lines, InFlight, ToSet
<1>2. ASSUME NEW e \in Endpoint PROVE NewContext(isn[e]) \in Context
  <2>1. InitialSeqs \subseteq Nat
    OBVIOUS
  <2>2. isn[e] \in Nat
    BY <2>1 DEF Init
  <2> QED BY <2>2 DEF NewContext, Context, State
<1>3. TypeOK
  BY <1>1, <1>2 DEF Init, TypeOK
<1>4. Consistent
  BY <1>1, PeerFacts DEF Init, Consistent, ContextConsistent, NewContext, Synchronised, Endpoint
<1> QED BY <1>3, <1>4 DEF Inv

(* A step that gives e the context c, lets the lines deliver nothing new to *)
(* e and at most the packets of `sent' to its peer, keeps everything        *)
(* consistent when c and those packets are and e does not fall back.        *)
LEMMA StepConsistent ==
  ASSUME Inv, NEW e \in Endpoint, NEW c \in Context, NEW sent \in SUBSET Packet,
         isn' = isn, ctx' = [ctx EXCEPT ![e] = c],
         line' \in [Endpoint -> Lines(Packet)],
         InFlight(line'[e]) \subseteq InFlight(line[e]),
         InFlight(line'[Peer(e)]) \subseteq InFlight(line[Peer(e)]) \cup sent,
         ctx[e].state \in Synchronised => c.state \in Synchronised,
         ContextConsistent(e, c, ctx[Peer(e)]),
         \A p \in sent : PacketConsistent(Peer(e), p, c)
  PROVE  Inv'
<1>1. TypeOK'
  BY DEF Inv, TypeOK
<1>2. ctx'[e] = c /\ ctx'[Peer(e)] = ctx[Peer(e)]
  BY PeerFacts DEF Inv, TypeOK
<1>3. ContextConsistent(Peer(e), ctx[Peer(e)], c)
  BY PeerFacts DEF Inv, Consistent, ContextConsistent
<1>4. ASSUME NEW p \in InFlight(line'[e]) PROVE PacketConsistent(e, p, ctx[Peer(e)])
  BY <1>4 DEF Inv, Consistent
<1>5. ASSUME NEW p \in InFlight(line'[Peer(e)]) PROVE PacketConsistent(Peer(e), p, c)
  <2>1. CASE p \in sent
    BY <2>1
  <2>2. CASE p \in InFlight(line[Peer(e)])
    <3>1. PacketConsistent(Peer(e), p, ctx[e])
      BY <2>2, PeerFacts DEF Inv, Consistent
    <3> QED BY <3>1, PeerFacts DEF PacketConsistent
  <2> QED BY <1>5, <2>1, <2>2
<1>6. ASSUME NEW d \in Endpoint
      PROVE  /\ ContextConsistent(d, ctx'[d], ctx'[Peer(d)])
             /\ \A p \in InFlight(line'[d]) : PacketConsistent(d, p, ctx'[Peer(d)])
  <2>1. CASE d = e
    BY <2>1, <1>2, <1>4
  <2>2. CASE d = Peer(e)
    BY <2>2, <1>2, <1>3, <1>5, PeerFacts
  <2> QED BY <2>1, <2>2, PeerFacts
<1>7. Consistent'
  BY <1>6 DEF Consistent, ContextConsistent, PacketConsistent
<1> QED BY <1>1, <1>7 DEF Inv

(* What Inv says of an end with a packet to take.                          *)
LEMMA ArrivingConsistent ==
  ASSUME Inv, NEW e \in Endpoint, line[e].wire # <<>>
  PROVE  Arriving(e) \in Packet /\ PacketConsistent(e, Arriving(e), ctx[Peer(e)])
<1>1. Arriving(e) \in Packet /\ Arriving(e) \in InFlight(line[e])
  BY ArrivingFacts DEF Inv
<1> QED BY <1>1 DEF Inv, Consistent

\* What the invariant says of one end and of its peer.
LEMMA EndFacts ==
  ASSUME Inv, NEW e \in Endpoint
  PROVE  /\ ctx[e] \in Context /\ ctx[Peer(e)] \in Context
         /\ isn[e] \in Nat /\ isn[Peer(e)] \in Nat
         /\ ContextConsistent(e, ctx[e], ctx[Peer(e)])
<1>1. InitialSeqs \subseteq Nat
  OBVIOUS
<1>2. isn[e] \in Nat /\ isn[Peer(e)] \in Nat
  BY <1>1, PeerFacts DEF Inv, TypeOK
<1> QED BY <1>2, PeerFacts DEF Inv, TypeOK, Consistent

(* An end that answers the packet it takes with p, ending in context c.    *)
LEMMA AnswerInv ==
  ASSUME Inv, NEW e \in Endpoint, line[e].wire # <<>>, NEW c \in Context,
         NEW p \in Packet, isn' = isn, ctx' = [ctx EXCEPT ![e] = c], Answer(e, p),
         c.state \in Synchronised, ContextConsistent(e, c, ctx[Peer(e)]),
         PacketConsistent(Peer(e), p, c)
  PROVE  Inv'
<1>1. /\ line' \in [Endpoint -> Lines(Packet)]
      /\ InFlight(line'[e]) \subseteq InFlight(line[e])
      /\ InFlight(line'[Peer(e)]) \subseteq InFlight(line[Peer(e)]) \cup {p}
  BY AnswerEffect DEF Inv
<1>2. {p} \in SUBSET Packet /\ \A q \in {p} : PacketConsistent(Peer(e), q, c)
  OBVIOUS
<1> QED BY <1>1, <1>2, StepConsistent

(* An end that takes a packet and sends nothing, ending in context c.      *)
LEMMA ConsumeInv ==
  ASSUME Inv, NEW e \in Endpoint, line[e].wire # <<>>, NEW c \in Context,
         isn' = isn, ctx' = [ctx EXCEPT ![e] = c], Consume(e),
         ctx[e].state \in Synchronised => c.state \in Synchronised,
         ContextConsistent(e, c, ctx[Peer(e)])
  PROVE  Inv'
<1>1. /\ line' \in [Endpoint -> Lines(Packet)]
      /\ InFlight(line'[e]) \subseteq InFlight(line[e])
      /\ InFlight(line'[Peer(e)]) \subseteq InFlight(line[Peer(e)]) \cup {}
  BY ConsumeEffect DEF Inv
<1>2. {} \in SUBSET Packet /\ \A q \in {} : PacketConsistent(Peer(e), q, c)
  OBVIOUS
<1> QED BY <1>1, <1>2, StepConsistent

-----------------------------------------------------------------------------
(* The actions.                                                            *)

\* The fields of the context after sending a SYN.
LEMMA SynSentFacts ==
  ASSUME NEW c \in Context, NEW s \in State
  PROVE  /\ SynSent(c, s) \in Context
         /\ SynSent(c, s).state = s
         /\ SynSent(c, s).lastSentSeq = c.initialSeq + 1
         /\ SynSent(c, s).initialSeq = c.initialSeq
         /\ SynSent(c, s).ackNum = c.ackNum
         /\ SynSent(c, s).nextSeqExpected = c.nextSeqExpected
<1>1. SynAcked(c) \in Nat /\ SynAcked(c) = c.initialSeq + 1
  BY DEF Context, SynAcked
<1> HIDE DEF SynAcked
<1> QED BY <1>1 DEF Context, SynSent

\* The fields of the context once established.
LEMMA EstablishedFacts ==
  ASSUME NEW c \in Context
  PROVE  /\ Established(c) \in Context /\ Established(c).state = "ESTABLISHED"
         /\ Established(c).initialSeq = c.lastSentSeq
         /\ Established(c).lastSentSeq = c.lastSentSeq
         /\ Established(c).ackNum = c.ackNum
         /\ Established(c).nextSeqExpected = c.nextSeqExpected
BY DEF Context, State, Established

\* The fields of the context after taking the peer's number.
LEMMA ExpectingFacts ==
  ASSUME NEW c \in Context, NEW p \in Packet
  PROVE  /\ Expecting(c, p) \in Context
         /\ Expecting(c, p).state = c.state
         /\ Expecting(c, p).initialSeq = c.initialSeq
         /\ Expecting(c, p).lastSentSeq = c.lastSentSeq
         /\ Expecting(c, p).ackNum = p.seq + 1
         /\ Expecting(c, p).nextSeqExpected = p.seq + 1
<1>1. NextAfter(p) \in Nat /\ NextAfter(p) = p.seq + 1
  BY DEF Packet, NextAfter
<1> HIDE DEF NextAfter
<1> QED BY <1>1 DEF Context, Expecting

\* The first SYN keeps the invariant.
LEMMA ConnectInv == ASSUME Inv, NEW e \in Endpoint, Connect(e) PROVE Inv'
<1> DEFINE c == SynSent(ctx[e], "SYN_SENT")
           p == [flags |-> {"SYN"}, seq |-> ctx[e].initialSeq, ack |-> 0]
<1>1. /\ ctx[e] \in Context /\ ctx[e].state = "LISTEN" /\ isn[e] \in Nat
      /\ ContextConsistent(e, ctx[e], ctx[Peer(e)])
  BY EndFacts DEF Connect
<1>2. c \in Context /\ c.state = "SYN_SENT" /\ c.lastSentSeq = ctx[e].initialSeq + 1
      /\ c.initialSeq = ctx[e].initialSeq
  BY <1>1, SynSentFacts DEF State
<1>3. p \in Packet
  BY <1>1 DEF Context, Packet, Flags
<1>4. PICK l \in NetworkSend(line[Peer(e)], p) : line' = [line EXCEPT ![Peer(e)] = l]
  BY DEF Connect
<1>5. l \in Lines(Packet) /\ InFlight(l) \subseteq InFlight(line[Peer(e)]) \cup {p}
  BY <1>3, SendEffect DEF Inv
<1>6. /\ line' \in [Endpoint -> Lines(Packet)]
      /\ line'[e] = line[e] /\ line'[Peer(e)] = l
  BY <1>4, <1>5, PeerFacts DEF Inv, TypeOK
<1>7. isn' = isn /\ ctx' = [ctx EXCEPT ![e] = c]
  BY DEF Connect, Inv, TypeOK
<1>8. ContextConsistent(e, c, ctx[Peer(e)])
  BY <1>1, <1>2 DEF ContextConsistent, Synchronised
<1>9. {p} \in SUBSET Packet /\ \A q \in {p} : PacketConsistent(Peer(e), q, c)
  BY <1>1, <1>3, PeerFacts DEF ContextConsistent, PacketConsistent
<1> HIDE DEF c, p
<1> QED BY <1>1, <1>2, <1>5, <1>6, <1>7, <1>8, <1>9, StepConsistent DEF Synchronised

\* Taking a SYN|ACK and answering with an ACK keeps the invariant.
LEMMA RecvSynAckInv == ASSUME Inv, NEW e \in Endpoint, RecvSynAck(e) PROVE Inv'
<1> DEFINE q == Arriving(e)
           c == Expecting(Established(ctx[e]), q)
           p == [flags |-> {"ACK"}, seq |-> c.initialSeq, ack |-> NextAfter(q)]
<1>1. /\ line[e].wire # <<>> /\ "SYN" \in q.flags /\ "ACK" \in q.flags
      /\ ctx[e].state = "SYN_RECEIVED"
      /\ isn' = isn /\ ctx' = [ctx EXCEPT ![e] = c]
  BY DEF RecvSynAck, Waiting, AcceptsAck
<1>2. /\ q \in Packet /\ PacketConsistent(e, q, ctx[Peer(e)])
      /\ ctx[e] \in Context /\ isn[e] \in Nat /\ isn[Peer(e)] \in Nat
      /\ ContextConsistent(e, ctx[e], ctx[Peer(e)])
  BY <1>1, ArrivingConsistent, EndFacts
<1>3. /\ c \in Context /\ c.state = "ESTABLISHED"
      /\ c.initialSeq = ctx[e].lastSentSeq /\ c.lastSentSeq = ctx[e].lastSentSeq
      /\ c.ackNum = q.seq + 1 /\ c.nextSeqExpected = q.seq + 1
  BY <1>2, EstablishedFacts, ExpectingFacts
<1>4. p \in Packet
  BY <1>2, <1>3 DEF Context, Packet, Flags, NextAfter
<1>5. ctx'[e] = c
  BY <1>1 DEF Inv, TypeOK
<1>6. Answer(e, p)
  BY <1>5 DEF RecvSynAck
<1>7. ContextConsistent(e, c, ctx[Peer(e)])
  BY <1>1, <1>2, <1>3 DEF ContextConsistent, PacketConsistent, Synchronised
<1>8. PacketConsistent(Peer(e), p, c)
  BY <1>1, <1>2, <1>3, PeerFacts DEF PacketConsistent, NextAfter, Synchronised
<1>9. c.state \in Synchronised
  BY <1>3 DEF Synchronised
<1> HIDE DEF c, p
<1> QED BY <1>1, <1>3, <1>4, <1>6, <1>7, <1>8, <1>9, AnswerInv

\* Taking the final ACK keeps the invariant.
LEMMA RecvAckInv == ASSUME Inv, NEW e \in Endpoint, RecvAck(e) PROVE Inv'
<1> DEFINE q == Arriving(e)
           c == Established(ctx[e])
<1>1. /\ line[e].wire # <<>> /\ "ACK" \in q.flags
      /\ ctx[e].state = "SYN_RECEIVED" /\ Consume(e)
      /\ isn' = isn /\ ctx' = [ctx EXCEPT ![e] = c]
  BY DEF RecvAck, Waiting, AcceptsAck
<1>2. /\ PacketConsistent(e, q, ctx[Peer(e)])
      /\ ctx[e] \in Context /\ isn[e] \in Nat /\ isn[Peer(e)] \in Nat
      /\ ContextConsistent(e, ctx[e], ctx[Peer(e)])
  BY <1>1, ArrivingConsistent, EndFacts
<1>3. /\ c \in Context /\ c.state = "ESTABLISHED"
      /\ c.initialSeq = ctx[e].lastSentSeq /\ c.lastSentSeq = ctx[e].lastSentSeq
      /\ c.ackNum = ctx[e].ackNum /\ c.nextSeqExpected = ctx[e].nextSeqExpected
  BY <1>2 DEF Context, State, Established
<1>4. ContextConsistent(e, c, ctx[Peer(e)])
  BY <1>1, <1>2, <1>3 DEF ContextConsistent, PacketConsistent, Synchronised
<1>5. c.state \in Synchronised
  BY <1>3 DEF Synchronised
<1> HIDE DEF c
<1> QED BY <1>1, <1>3, <1>4, <1>5, ConsumeInv

\* Answering a SYN keeps the invariant.
LEMMA RecvSynInv == ASSUME Inv, NEW e \in Endpoint, RecvSyn(e) PROVE Inv'
<1> DEFINE q == Arriving(e)
           c == SynSent(Expecting(ctx[e], q), "SYN_RECEIVED")
           p == [flags |-> {"SYN", "ACK"}, seq |-> ctx[e].initialSeq, ack |-> NextAfter(q)]
<1>1. /\ line[e].wire # <<>> /\ "SYN" \in q.flags
      /\ ctx[e].state \in {"SYN_SENT", "LISTEN"} /\ Answer(e, p)
      /\ isn' = isn /\ ctx' = [ctx EXCEPT ![e] = c]
  BY DEF RecvSyn, Waiting, AcceptsSyn, Inv, TypeOK
<1>2. /\ q \in Packet /\ PacketConsistent(e, q, ctx[Peer(e)])
      /\ ctx[e] \in Context /\ isn[e] \in Nat /\ isn[Peer(e)] \in Nat
      /\ ContextConsistent(e, ctx[e], ctx[Peer(e)])
  BY <1>1, ArrivingConsistent, EndFacts
<1>3. /\ c \in Context /\ c.state = "SYN_RECEIVED"
      /\ c.initialSeq = ctx[e].initialSeq /\ c.lastSentSeq = ctx[e].initialSeq + 1
      /\ c.ackNum = q.seq + 1 /\ c.nextSeqExpected = q.seq + 1
  <2>1. PICK d \in Context : d = Expecting(ctx[e], q)
    BY <1>2, ExpectingFacts
  <2>2. /\ SynSent(d, "SYN_RECEIVED") \in Context
        /\ SynSent(d, "SYN_RECEIVED").state = "SYN_RECEIVED"
        /\ SynSent(d, "SYN_RECEIVED").initialSeq = d.initialSeq
        /\ SynSent(d, "SYN_RECEIVED").lastSentSeq = d.initialSeq + 1
        /\ SynSent(d, "SYN_RECEIVED").ackNum = d.ackNum
        /\ SynSent(d, "SYN_RECEIVED").nextSeqExpected = d.nextSeqExpected
    BY SynSentFacts DEF State
  <2> QED BY <1>2, <2>1, <2>2, ExpectingFacts
<1>4. p \in Packet
  BY <1>2 DEF Context, Packet, Flags, NextAfter
<1>5. ContextConsistent(e, c, ctx[Peer(e)])
  BY <1>1, <1>2, <1>3 DEF ContextConsistent, PacketConsistent, Synchronised
<1>6. PacketConsistent(Peer(e), p, c)
  BY <1>1, <1>2, <1>3, PeerFacts DEF ContextConsistent, PacketConsistent, NextAfter, Synchronised
<1>7. c.state \in Synchronised
  BY <1>3 DEF Synchronised
<1> HIDE DEF c, p
<1> QED BY <1>1, <1>3, <1>4, <1>5, <1>6, <1>7, AnswerInv

(* A step that leaves every context alone.                                 *)
LEMMA IgnoreInv ==
  ASSUME Inv, NEW e \in Endpoint, Ignore(e) \/ RecvStaleAck(e) PROVE Inv'
<1>1. /\ line[e].wire # <<>> /\ Consume(e) /\ UNCHANGED <<isn, ctx>>
  BY DEF Ignore, RecvStaleAck, Waiting
<1>2. ctx[e] \in Context /\ ContextConsistent(e, ctx[e], ctx[Peer(e)])
  BY EndFacts
<1>3. ctx' = [ctx EXCEPT ![e] = ctx[e]]
  BY <1>1 DEF Inv, TypeOK
<1> QED BY <1>1, <1>2, <1>3, ConsumeInv

\* Acknowledging an old SYN again keeps the invariant.
LEMMA RecvStaleSynInv == ASSUME Inv, NEW e \in Endpoint, RecvStaleSyn(e) PROVE Inv'
<1> DEFINE p == [flags |-> {"ACK"}, seq |-> ctx[e].initialSeq, ack |-> ctx[e].ackNum]
<1>1. /\ line[e].wire # <<>> /\ ctx[e].state = "ESTABLISHED"
      /\ Answer(e, p) /\ UNCHANGED <<isn, ctx>>
  BY DEF RecvStaleSyn
<1>2. /\ ctx[e] \in Context /\ isn[Peer(e)] \in Nat
      /\ ContextConsistent(e, ctx[e], ctx[Peer(e)])
  BY EndFacts
<1>3. ctx' = [ctx EXCEPT ![e] = ctx[e]] /\ ctx[e].state \in Synchronised
  BY <1>1 DEF Inv, TypeOK, Synchronised
<1>4. p \in Packet
  BY <1>2 DEF Context, Packet, Flags
<1>5. PacketConsistent(Peer(e), p, ctx[e])
  BY <1>2, <1>3, PeerFacts DEF ContextConsistent, PacketConsistent
<1> HIDE DEF p
<1> QED BY <1>1, <1>2, <1>3, <1>4, <1>5, AnswerInv

\* Every step, and every stuttering step, keeps the invariant.
LEMMA NextInv == Inv /\ [Next]_vars => Inv'
<1> SUFFICES ASSUME Inv, [Next]_vars PROVE Inv'
  OBVIOUS
<1>1. CASE UNCHANGED vars
  BY <1>1 DEF vars, Inv, TypeOK, Consistent, ContextConsistent, PacketConsistent
<1>2. ASSUME NEW e \in Endpoint, Connect(e) PROVE Inv'
  BY <1>2, ConnectInv
<1>3. ASSUME NEW e \in Endpoint, Receive(e) PROVE Inv'
  <2>1. CASE RecvSynAck(e)
    BY <2>1, RecvSynAckInv
  <2>2. CASE RecvAck(e)
    BY <2>2, RecvAckInv
  <2>3. CASE RecvSyn(e)
    BY <2>3, RecvSynInv
  <2>4. CASE Ignore(e) \/ RecvStaleAck(e)
    BY <2>4, IgnoreInv
  <2>5. CASE RecvStaleSyn(e)
    BY <2>5, RecvStaleSynInv
  <2> QED BY <1>3, <2>1, <2>2, <2>3, <2>4, <2>5 DEF Receive
<1> QED BY <1>1, <1>2, <1>3 DEF Next

(* The inductive invariant holds in every state.                           *)
LEMMA HandshakeInvariant == Spec => []Inv
<1> QED BY InitInv, NextInv, PTL DEF Spec

(* Contexts and packets in flight stay consistent, whatever the line does. *)
THEOREM HandshakeConsistent == Spec => []Consistent
<1>1. Inv => Consistent
  BY DEF Inv
<1> QED BY <1>1, HandshakeInvariant, PTL

(* Every state is well typed: numbers stay natural numbers, lines stay     *)
(* lines of the packets the set-up sends.                                  *)
THEOREM HandshakeType == Spec => []TypeOK
<1>1. Inv => TypeOK
  BY DEF Inv
<1> QED BY <1>1, HandshakeInvariant, PTL

(* Established ends agree on both first data sequence numbers.             *)
THEOREM HandshakeAgreement == Spec => []EstablishedAgree
<1>1. Inv => EstablishedAgree
  <2> SUFFICES ASSUME Inv, NEW e \in Endpoint, ctx[e].state = "ESTABLISHED"
               PROVE  /\ ctx[Peer(e)].state \in Synchronised
                      /\ ctx[e].initialSeq = ctx[Peer(e)].nextSeqExpected
                      /\ ctx[e].nextSeqExpected = isn[Peer(e)] + 1
    BY DEF EstablishedAgree
  <2>1. ContextConsistent(e, ctx[e], ctx[Peer(e)])
    BY EndFacts
  <2>2. ContextConsistent(Peer(e), ctx[Peer(e)], ctx[e])
    BY EndFacts, PeerFacts
  <2> QED BY <2>1, <2>2, PeerFacts DEF ContextConsistent, Synchronised
<1> QED BY <1>1, HandshakeInvariant, PTL

(* The asserts of transport_init() never abort the process.                *)
THEOREM HandshakeAsserts == Spec => []AssertsHold
<1>1. Inv => AssertsHold
  <2> SUFFICES ASSUME Inv, NEW e \in Endpoint, Waiting(e), AcceptsAck(e, Arriving(e))
               PROVE  ctx[e].lastSentSeq = Arriving(e).ack
    BY DEF AssertsHold, AssertFails
  <2>1. PacketConsistent(e, Arriving(e), ctx[Peer(e)])
    BY ArrivingConsistent DEF Waiting
  <2>2. ContextConsistent(e, ctx[e], ctx[Peer(e)])
    BY EndFacts
  <2> QED BY <2>1, <2>2 DEF ContextConsistent, PacketConsistent, AcceptsAck
<1> QED BY <1>1, HandshakeInvariant, PTL

(* A handshake packet still in flight never passes for data at an          *)
(* established end.                                                        *)
THEOREM HandshakeStaleSyn == Spec => []StaleSynIsOld
<1>1. Inv => StaleSynIsOld
  <2> SUFFICES ASSUME Inv, NEW e \in Endpoint, NEW p \in InFlight(line[e]),
                      ctx[e].state = "ESTABLISHED", "SYN" \in p.flags
               PROVE  p.seq < ctx[e].ackNum
    BY DEF StaleSynIsOld
  <2>1. PacketConsistent(e, p, ctx[Peer(e)])
    BY DEF Inv, Consistent
  <2>2. ContextConsistent(e, ctx[e], ctx[Peer(e)]) /\ isn[Peer(e)] \in Nat
    BY EndFacts
  <2> QED BY <2>1, <2>2 DEF ContextConsistent, PacketConsistent, Synchronised
<1> QED BY <1>1, HandshakeInvariant, PTL
-----------------------------------------------------------------------------
(* The receive buffer                                                      *)

USE RecvBufferAssumption DEF RecvBufferAssumption

\* The window has room for a packet and for the FINs still to come.
WindowRoom == /\ ourWindow >= MaxPayload + (MaxFins - fins) * HeaderLen
              /\ ourWindow <= RecvLen

\* Within a turn, all that lies in the buffer came after the last short packet.
TurnIsClean == last < RecvLen => since >= last

ReadWithin == /\ 0 <= read.copied /\ read.copied <= read.len
              /\ read.len <= RecvLen

\* The inductive invariant: the bounds depend on WindowRoom, since a narrow
\* window would cut the limit, and the distance of short packets on TurnIsClean.
BufferInv == /\ BufferType
             /\ last < RecvLen + MaxPayload
             /\ WindowRoom
             /\ TurnIsClean
             /\ ReadWithin

\* A multiple of a length that is not negative is not negative.
LEMMA NatProduct == \A m, n \in Nat : m * n \in Nat
  OBVIOUS

\* One FIN less to come frees one header.
LEMMA NextProduct == \A m \in Nat : (m - 1) * HeaderLen = m * HeaderLen - HeaderLen
  OBVIOUS

\* With room in the window for a packet, only the end of the buffer limits what
\* is copied.
LEMMA Limit ==
  ASSUME BufferInv
  PROVE  /\ ourWindow >= MaxPayload
         /\ NewTurn => MaxPackLen = MaxPayload
         /\ ~NewTurn => MaxPackLen = MinOf(RecvLen - last, MaxPayload)
<1>1. (MaxFins - fins) \in Nat
  BY DEF BufferInv, BufferType
<1>2. (MaxFins - fins) * HeaderLen \in Nat
  BY <1>1, NatProduct
<1>3. ourWindow >= MaxPayload /\ ourWindow \in Int /\ last \in Nat
  BY <1>2 DEF BufferInv, BufferType, WindowRoom
<1> QED
  BY <1>3 DEF MaxPackLen, Narrowed, NewTurn, MinOf

\* A packet is read short only past the end of the buffer, within a turn.
LEMMA ShortAtEnd ==
  ASSUME BufferInv, NEW n \in PacketLens, Short(Dequeue(n, MaxPackLen))
  PROVE  ~NewTurn /\ last + n > RecvLen
<1>1. n \in Nat /\ n <= MaxPayload /\ last \in Nat
  BY DEF BufferInv, BufferType
<1>2. MaxPackLen < n
  BY <1>1, Limit DEF Short, Dequeue, MinOf, NewTurn
<1> QED
  BY <1>1, <1>2, Limit DEF NewTurn, MinOf

\* The buffer as the connection starts satisfies the invariant.
LEMMA BufferInitInv == BufferInit => BufferInv
<1> SUFFICES ASSUME BufferInit PROVE BufferInv
  OBVIOUS
<1>1. MaxFins * HeaderLen \in Nat
  BY NatProduct
<1>2. fins = 0 /\ MaxFins - fins = MaxFins
  BY DEF BufferInit
<1> QED
  BY <1>1, <1>2 DEF BufferInit, BufferInv, BufferType, WindowRoom, TurnIsClean, ReadWithin

\* Every arrival keeps the invariant.
LEMMA BufferReceiveInv ==
  ASSUME BufferInv, NEW n \in PacketLens, NEW fin \in BOOLEAN, ReceivePacket(n, fin)
  PROVE  BufferInv'
<1>1. n \in Nat /\ HeaderLen <= n /\ n <= MaxPayload /\ n <= RecvLen
  BY NatProduct
<1>2. /\ last \in Nat /\ since \in 0..RecvLen /\ ourWindow \in Int
      /\ fins \in 0..MaxFins
  BY DEF BufferInv, BufferType
<1>3. MaxPackLen \in Nat /\ MaxPackLen <= MaxPayload
  BY <1>2, Limit DEF NewTurn, MinOf
<1>4. read' = [len |-> n, copied |-> MinOf(MaxPackLen, n)]
  BY DEF ReceivePacket, Dequeue
<1>5. MinOf(MaxPackLen, n) \in Nat /\ MinOf(MaxPackLen, n) <= n
  BY <1>1, <1>3 DEF MinOf
<1>6. ReadWithin' /\ read' \in [len : Nat, copied : Int]
  BY <1>1, <1>4, <1>5 DEF ReadWithin
<1>7. last' \in Nat /\ last' < RecvLen + MaxPayload
  BY <1>1, <1>2, NatProduct DEF ReceivePacket, LastAfter, NewTurn
<1>8. fins' \in 0..MaxFins /\ ourWindow' \in Int /\ WindowRoom'
  <2>1. CASE fin
    <3>1. n = HeaderLen /\ fins < MaxFins /\ fins' = fins + 1 /\ ourWindow' = ourWindow - HeaderLen
      BY <2>1 DEF ReceivePacket, WindowAfter
    <3>2. (MaxFins - fins) \in Nat
      BY <1>2
    <3>3. ((MaxFins - fins) - 1) * HeaderLen = (MaxFins - fins) * HeaderLen - HeaderLen
      BY <3>2, NextProduct
    <3>4. MaxFins - fins' = (MaxFins - fins) - 1
      BY <1>2, <3>1
    <3>5. (MaxFins - fins) * HeaderLen \in Int
      BY <3>2, NatProduct
    <3> QED
      BY <1>2, <3>1, <3>3, <3>4, <3>5 DEF BufferInv, WindowRoom
  <2>2. CASE ~fin
    BY <1>2, <2>2 DEF ReceivePacket, WindowAfter, BufferInv, WindowRoom
  <2> QED
    BY <2>1, <2>2
<1>9. since' \in 0..RecvLen
  BY <1>1, <1>2 DEF ReceivePacket, MinOf
<1>10. TurnIsClean'
  <2>1. CASE Short(Dequeue(n, MaxPackLen))
    BY <1>1, <1>2, <2>1, ShortAtEnd DEF ReceivePacket, LastAfter, TurnIsClean
  <2>2. CASE ~Short(Dequeue(n, MaxPackLen))
    <3>1. since' = MinOf(since + n, RecvLen)
      BY <2>2 DEF ReceivePacket
    <3>2. last' = IF NewTurn THEN n ELSE last + n
      BY DEF ReceivePacket, LastAfter
    <3> QED
      BY <1>1, <1>2, <3>1, <3>2 DEF BufferInv, TurnIsClean, NewTurn, MinOf
  <2> QED
    BY <2>1, <2>2
<1> QED
  BY <1>6, <1>7, <1>8, <1>9, <1>10 DEF BufferInv, BufferType

\* Every reachable state satisfies the inductive invariant.
THEOREM RecvBufferInvariant == BufferSpec => []BufferInv
<1>1. ASSUME BufferInv, [BufferNext]_bufferVars PROVE BufferInv'
  <2>1. CASE BufferNext
    BY <1>1, <2>1, BufferReceiveInv DEF BufferNext
  <2>2. CASE UNCHANGED bufferVars
    BY <1>1, <2>2 DEF bufferVars, BufferInv, BufferType, WindowRoom, TurnIsClean, ReadWithin
  <2> QED
    BY <1>1, <2>1, <2>2
<1> QED
  BY BufferInitInv, <1>1, PTL DEF BufferSpec

\* The arithmetic of control_loop() stays inside the buffer and the limit it
\* passes as a size_t is never negative, for every size and any arrivals.
THEOREM RecvBufferBounds == BufferSpec => []BufferBounds
<1>1. BufferInv => BufferBounds
  <2> SUFFICES ASSUME BufferInv PROVE BufferBounds
    OBVIOUS
  <2>1. MaxPayload \in Nat /\ last \in Nat
    BY DEF BufferInv, BufferType
  <2> QED
    BY <2>1, Limit DEF BufferInv, WindowRoom, ReadWithin, BufferBounds, NewTurn, MinOf
<1> QED
  BY RecvBufferInvariant, <1>1, PTL

\* Type correctness of the receive buffer.
THEOREM RecvBufferType == BufferSpec => []BufferType
<1>1. BufferInv => BufferType
  BY DEF BufferInv
<1> QED
  BY RecvBufferInvariant, <1>1, PTL

\* Two packets read short are always more than RecvLen bytes apart.
THEOREM RecvBufferShort == BufferSpec => ShortOnlyAtTheEnd
<1>1. ASSUME BufferInv, NEW n \in PacketLens, NEW fin \in BOOLEAN,
             ReceivePacket(n, fin), Short(read')
      PROVE  since + n > RecvLen
  <2>1. Short(Dequeue(n, MaxPackLen))
    BY <1>1 DEF ReceivePacket
  <2>2. n \in Nat /\ last \in Nat /\ since \in Nat
    BY <1>1 DEF BufferInv, BufferType
  <2> QED
    BY <1>1, <2>1, <2>2, ShortAtEnd DEF BufferInv, TurnIsClean, NewTurn
<1>2. BufferInv => [\A n \in PacketLens, fin \in BOOLEAN :
                 ReceivePacket(n, fin) /\ Short(read') => since + n > RecvLen]_bufferVars
  BY <1>1
<1> QED
  BY RecvBufferInvariant, <1>2, PTL DEF ShortOnlyAtTheEnd
=============================================================================

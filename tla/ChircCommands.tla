--------------------------- MODULE ChircCommands ---------------------------
(***************************************************************************)
(* What the commands of command.c do to the mutexes: `lock', the mutex of  *)
(* the user list, which is also held while a reply is sent; `chanLock',    *)
(* that of the channel list; and the chanUserLock of each channel, named   *)
(* here by its channel.                                                    *)
(*                                                                         *)
(* A command is the set of the step sequences it can go through, one for   *)
(* each way its conditions may turn out.  Critical sections of one mutex    *)
(* that follow each other directly, with no other mutex in them, count as  *)
(* one: a reply of several lines, or a pass per user.                      *)
(***************************************************************************)
EXTENDS SequencesExt

CONSTANT Channels

Users == "lock"
Chans == "chanLock"
ChircLock == {Users, Chans} \cup Channels
ChircRank == [m \in ChircLock |-> IF m = Users THEN 0 ELSE IF m = Chans THEN 2 ELSE 1]

Locked(m) == {<<[op |-> "lock", lock |-> m]>>}
Unlocked(m) == {<<[op |-> "unlock", lock |-> m]>>}

\* s ends and t begins with a critical section of the same mutex.
Repeats(s, t) ==
  \E m \in ChircLock : \E x \in {a \o b : a \in Locked(m), b \in Unlocked(m)} :
    IsSuffix(x, s) /\ IsPrefix(x, t)

\* What S may do, then what T may do.
S ** T == {IF Repeats(s, t) THEN s \o Tail(Tail(t)) ELSE s \o t : s \in S, t \in T}

Nothing == {<<>>}
Maybe(S) == Nothing \cup S

\* S between lock and unlock of m, and the critical sections that lock nothing
\* else; Pause unlocks m, does S and locks it again.
Within(m, S) == Locked(m) ** S ** Unlocked(m)
Section(m) == Within(m, Nothing)
Pause(m, S) == Unlocked(m) ** S ** Locked(m)

\* A loop over the channels of a client, or of the server.
Iterations == UNION {SetToSeqs(cs) : cs \in SUBSET Channels}
ForEach(Body(_)) ==
  LET Add(S, c) == S ** Body(c)
  IN  UNION {FoldLeft(Add, Nothing, cs) : cs \in Iterations}

\* send_response(); the search for a channel; a message to all of its users.
Reply == Section(Users)
FindChannel == Section(Chans)
Broadcast(c) == Section(c)

-----------------------------------------------------------------------------
(* Registration, messages and queries about users                          *)

Motd == Reply
Lusers == Section(Users) ** Reply
Ping == Section(Users)

\* The channel list of the new user; its entry in the user list; the welcome.
Register == Section(Users) ** Section(Users) ** Reply ** Lusers ** Motd

User == Nothing \cup Reply \cup Register

\* Each channel of the user is told, then its entry is replaced.
RenameIn(c) == Pause(Users, FindChannel ** Broadcast(c) ** Section(Users) ** Section(c))
Rename == Within(Users, ForEach(RenameIn)) ** Section(Users)

Nick == Maybe(Section(Users)) ** Section(Users)
          ** (Nothing \cup Reply \cup Register \cup Rename)

\* A message of a client that is not on the channel, or may not talk there: the
\* user lock, which PRIVMSG has not locked, is unlocked before the reply.
PrivmsgRefused(c) == FindChannel ** Section(c) ** Unlocked(Users) ** Reply

Privmsg ==
  (FindChannel ** Reply)
    \cup UNION {FindChannel ** Section(c) ** Broadcast(c) : c \in Channels}
    \cup (Section(Users) ** (Reply \cup Maybe(Reply) ** Section(Users)))

\* A NOTICE to a channel locks chanLock and unlocks the user lock instead.
NoticeChannel(c) ==
  Locked(Chans) ** Unlocked(Users) ** Section(c) ** (Unlocked(Users) \cup Section(Users))

Notice == FindChannel \cup (Section(Users) ** Maybe(Section(Users)))

WhoisChannels == Pause(Users, Nothing) ** Pause(Users, Reply)
Whois == Section(Users) ** Reply ** Maybe(Within(Users, Maybe(WhoisChannels)) ** Reply)

\* Each channel of the user is told while the user list is locked.
QuitFrom(c) == FindChannel
Quit == Section(Users) ** Section(Users) ** Within(Users, ForEach(QuitFrom))

-----------------------------------------------------------------------------
(* Channels                                                                *)

NamesOf(c) == FindChannel ** Maybe(Section(c) ** Reply) ** Reply

\* TOPIC without a text; JOIN sends it too.
ShowTopic(c) == FindChannel ** Maybe(Section(Users)) ** Reply

\* Mutant: the channel list is locked before the user list.
CreateReversed(c) ==
  FindChannel ** Within(Chans, Section(Users)) ** Section(Users) ** NamesOf(c)

\* JOIN creates the channel.  The list keeps a copy of it; the message of the
\* JOIN locks the creator's own channelData, which nobody else knows.
Create(c) ==
  FindChannel ** Within(Users, Section(Chans)) ** Section(Users) ** NamesOf(c)

Enter(c) ==
  FindChannel ** Section(Users)
    ** Maybe(Within(c, Section(Chans)) ** Section(Users)
               ** Broadcast(c) ** Maybe(ShowTopic(c)) ** NamesOf(c))

Join == UNION {Create(c) \cup Enter(c) : c \in Channels}

\* PART: out of the client's list, the message to the channel, out of the
\* channel's list, and the channel itself when it is empty.
Parting(c) ==
  Section(Users) ** Maybe(Section(c)) ** Broadcast(c) ** Section(c) ** Maybe(Section(Chans))

\* Mutants: a client that is not on the channel gets its answer with the lock
\* still held, or after it was unlocked twice.
LeaveHolding(c) == FindChannel ** (Locked(c) ** Reply \cup Section(c) ** Parting(c))
LeaveTwice(c) == FindChannel ** Section(c) ** (Unlocked(c) ** Reply \cup Parting(c))

\* The client is looked for on the channel first.
Leave(c) == FindChannel ** Section(c) ** (Reply \cup Parting(c))

Part == (FindChannel ** Reply) \cup UNION {Leave(c) : c \in Channels}

SetTopic(c) ==
  FindChannel ** Section(Users) ** Maybe(Section(c)) ** (Reply \cup Broadcast(c))
Topic == (FindChannel ** Reply) \cup UNION {ShowTopic(c) \cup SetTopic(c) : c \in Channels}

\* A channel that is named "*" is passed over.
ListOne(c) == Pause(Chans, Maybe(Section(c) ** Reply))
ListAll == Within(Chans, ForEach(ListOne)) ** Reply

\* LIST of one channel replies while it holds chanLock.
ListNamed(c) == Within(Chans, Section(c) ** Reply) ** Reply
List == ListAll \cup (FindChannel ** Reply)

\* A flag of the channel, or of one of its users.
ModeFlag(c) == Maybe(Reply \cup Broadcast(c))
ModeMember(c) == Section(c) ** (Reply \cup Broadcast(c) ** Section(Users))
ModeChannel(c) ==
  FindChannel ** (Reply \cup Section(c) ** (Reply \cup ModeFlag(c) \cup ModeMember(c)))
ModeUser == Reply \cup (Section(Users) ** Maybe(Reply \cup Section(Users)))
Mode == (FindChannel ** Reply) \cup ModeUser \cup UNION {ModeChannel(c) : c \in Channels}

\* OPER and AWAY replace the entry of the user everywhere, under the user lock.
RefreshIn(c) == FindChannel ** Section(c)
Refresh == Within(Users, ForEach(RefreshIn))

Oper == Reply \cup (Refresh ** Reply)
Away == (Section(Users) \cup Refresh) ** Reply

NamesOne(c) == Pause(Chans, Section(c) ** Reply)
NamesAll == Within(Chans, ForEach(NamesOne)) ** Section(Users) ** Reply
Names == NamesAll \cup UNION {NamesOf(c) : c \in Channels}

\* Who is on a channel of the client; then a reply for each of the others.
SeeIn(c) == Pause(Chans, Within(c, Maybe(Pause(c, Nothing))))
WhoAll ==
  Section(Users) ** Within(Chans, ForEach(SeeIn))
    ** Within(Users, Maybe(Pause(Users, Reply))) ** Reply

\* WHO of a channel replies while it holds chanUserLock.
WhoChannel(c) == FindChannel ** Within(c, Reply) ** Reply
Who == WhoAll \cup FindChannel

-----------------------------------------------------------------------------
(* run_client() and run_command()                                          *)

\* The thread counts itself, also when it ends; an unknown command.
Count == Section(Users)
Unknown == Reply

Command == Count \cup Unknown \cup User \cup Nick \cup Motd \cup Privmsg \cup Notice
             \cup Lusers \cup Whois \cup Ping \cup Quit \cup Join \cup Part \cup Topic
             \cup List \cup Mode \cup Oper \cup Away \cup Names \cup Who

\* The four commands that break the order, on one channel each.
Disorderly(c) == PrivmsgRefused(c) \cup NoticeChannel(c) \cup ListNamed(c) \cup WhoChannel(c)

AnyCommand == Command \cup UNION {Disorderly(c) : c \in Channels}
=============================================================================

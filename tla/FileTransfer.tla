---------------------------- MODULE FileTransfer ----------------------------
(***************************************************************************)
(* client.c and server.c over mysockets: clients ask for files by name,    *)
(* the server answers with a line "name,length,text" and the file.  Both   *)
(* talk through the queues of mysock.c and stcp_api.c with the transport   *)
(* thread of their end, which the module takes by what it does: it moves   *)
(* the bytes of a direction in order, in segments, and ends when each end  *)
(* has closed.  One thing StcpTransfer shows it may also do is here too:   *)
(* the last bytes before a FIN can get lost, and the stream end early.     *)
(*                                                                         *)
(* A character stands for a field of a line or one byte of a file; a line  *)
(* ends with CR LF.  The files do not change while they are served.        *)
(***************************************************************************)
EXTENDS MysockQueue, Integers, FiniteSets, SequencesExt

CONSTANTS
  Clients,     \* the clients that connect to the server
  Names,       \* what a client may ask for
  FileLen,     \* FileLen[n]: the length of file n, -1 when it cannot be opened
  Failing,     \* the files read() may fail on
  Asks,        \* Asks[c]: what c's user types, in order
  OneFile,     \* the clients started with -f: one request
  Window,      \* at most this many bytes are dequeued by stcp_app_recv()
  MaxData,     \* MAXPAYLOAD without its header: the data of a segment
  ReadSize,    \* sizeof(resp) of process_line()
  LineSize     \* sizeof(line) of loop_until_end()

ASSUME FileTransferAssumption ==
  /\ FileLen \in [Names -> Nat \cup {-1}]
  /\ Failing \subseteq Names /\ OneFile \subseteq Clients
  /\ Asks \in [Clients -> Seq(Names)]
  /\ \A c \in OneFile : Len(Asks[c]) = 1
  /\ {Window, MaxData, ReadSize, LineSize} \subseteq Nat \ {0}

Sides == {"client", "server"}
Ends == Clients \X Sides
Other(e) == <<e[1], IF e[2] = "client" THEN "server" ELSE "client">>

\* kind: what the character is; of: the file it belongs to; at: its value.
Char == [kind : {"name", "comma", "length", "text", "CR", "LF", "byte"},
         of : Names, at : Int]
Ch(kind, n, at) == [kind |-> kind, of |-> n, at |-> at]

CrLf(n) == <<Ch("CR", n, 0), Ch("LF", n, 0)>>
FileBytes(n) == [i \in 1..FileLen[n] |-> Ch("byte", n, i)]

VARIABLES
  sock,     \* sock[e]: the mysock context of end e
  thread,   \* thread[e]: what e's transport thread has sent, seen and done
  pipe,     \* pipe[e]: the segments on their way to e; the empty one is a FIN
  client,   \* client[c]: loop_until_end() of c
  server,   \* server: main() and do_connection()
  pending,  \* the completed connections waiting for myaccept()
  wrote,    \* wrote[e]: all that e's application has written
  read      \* read[e]: all that e's application has read

vars == <<sock, thread, pipe, client, server, pending, wrote, read>>

\* partApp and partThread: how many bytes a dequeue begun by the application
\* (myread) or the thread (stcp_app_recv) takes from the head; 0 when none is.
NewSock == [app_recv_queue |-> <<>>, app_send_queue |-> <<>>,
            partApp |-> 0, partThread |-> 0, close_requested |-> FALSE, eof |-> FALSE]

NewClient(c) == [pc |-> "connect", asks |-> Asks[c], line |-> <<>>, length |-> 0,
                 rcvd |-> [of |-> "", data |-> <<>>, state |-> "none"]]

Init == /\ sock = [e \in Ends |-> NewSock]
        /\ thread = [e \in Ends |-> [fin |-> FALSE, finReceived |-> FALSE, done |-> FALSE]]
        /\ pipe = [e \in Ends |-> <<>>]
        /\ client = [c \in Clients |-> NewClient(c)]
        /\ server = [pc |-> "accept", sd |-> <<>>, line |-> <<>>, pos |-> 0]
        /\ pending = <<>>
        /\ wrote = [e \in Ends |-> <<>>]
        /\ read = [e \in Ends |-> <<>>]

-----------------------------------------------------------------------------
(* The socket calls of an application                                      *)

\* mywrite()
Write(e, data) ==
  /\ sock' = [sock EXCEPT ![e].app_recv_queue = Enqueued(@, data)]
  /\ wrote' = [wrote EXCEPT ![e] = @ \o data]

\* myclose(): the request; the call returns once the thread has ended.
Close(e) == sock' = [sock EXCEPT ![e].close_requested = TRUE]

\* myread() of at most max bytes finds more in the head of the queue.
BeginRead(e, max) ==
  /\ ~sock[e].eof /\ sock[e].partApp = 0
  /\ sock[e].app_send_queue # <<>> /\ ~Fits(sock[e].app_send_queue, max)
  /\ sock' = [sock EXCEPT ![e].partApp = max]
  /\ UNCHANGED <<thread, pipe, client, server, pending, wrote, read>>

\* myread() returns; after the first 0 bytes it returns 0 at once.
CanRead(e, max) ==
  \/ sock[e].eof
  \/ /\ sock[e].app_send_queue # <<>>
     /\ sock[e].partApp > 0 \/ Fits(sock[e].app_send_queue, max)

Got(e, max) == IF sock[e].eof THEN <<>> ELSE Copied(sock[e].app_send_queue, max)

EndRead(e, max) ==
  /\ sock' = IF sock[e].eof THEN sock
             ELSE [sock EXCEPT ![e].app_send_queue = Dequeued(@, max),
                               ![e].partApp = 0,
                               ![e].eof = (Got(e, max) = <<>>)]
  /\ read' = [read EXCEPT ![e] = @ \o Got(e, max)]

-----------------------------------------------------------------------------
(* The transport thread of an end                                          *)

Running(e) == /\ ~thread[e].done /\ sock[e].partThread = 0
              /\ client[e[1]].pc # "connect"

Segments(data) ==
  [i \in 1..((Len(data) + MaxData - 1) \div MaxData) |->
     SubSeq(data, (i - 1) * MaxData + 1, IF i * MaxData < Len(data) THEN i * MaxData ELSE Len(data))]

\* stcp_app_recv() finds more than the window in the head of the queue.
BeginTake(e) ==
  /\ Running(e)
  /\ sock[e].app_recv_queue # <<>> /\ ~Fits(sock[e].app_recv_queue, Window)
  /\ sock' = [sock EXCEPT ![e].partThread = Window]
  /\ UNCHANGED <<thread, pipe, client, server, pending, wrote, read>>

\* stcp_app_recv() returns, and what it returned goes out.
Take(e) ==
  /\ sock[e].app_recv_queue # <<>>
  /\ sock[e].partThread > 0 \/ (Running(e) /\ Fits(sock[e].app_recv_queue, Window))
  /\ pipe' = [pipe EXCEPT ![Other(e)] = @ \o Segments(Copied(sock[e].app_recv_queue, Window))]
  /\ sock' = [sock EXCEPT ![e].app_recv_queue = Dequeued(@, Window), ![e].partThread = 0]
  /\ UNCHANGED <<thread, client, server, pending, wrote, read>>

\* stcp_wait_for_event() reports the close request: once, and after all data.
TakeClose(e) ==
  /\ Running(e)
  /\ sock[e].close_requested /\ sock[e].app_recv_queue = <<>>
  /\ sock' = [sock EXCEPT ![e].close_requested = FALSE]
  /\ thread' = [thread EXCEPT ![e].fin = TRUE]
  /\ pipe' = [pipe EXCEPT ![Other(e)] = Append(@, <<>>)]
  /\ UNCHANGED <<client, server, pending, wrote, read>>

\* stcp_app_send(): a segment's data goes up to the application.
PassUp(e) ==
  /\ Running(e)
  /\ pipe[e] # <<>> /\ Head(pipe[e]) # <<>>
  /\ sock' = [sock EXCEPT ![e].app_send_queue = Enqueued(@, Head(pipe[e]))]
  /\ pipe' = [pipe EXCEPT ![e] = Tail(@)]
  /\ UNCHANGED <<thread, client, server, pending, wrote, read>>

\* Mutant: the end of the stream is not queued for the application.
FinReceivedSilently(q) == q

\* stcp_fin_received(): a node without data.
FinReceived(q) == Enqueued(q, <<>>)

\* The FIN is taken: in its turn, or early when the segments before it are lost.
TakeFin(e) ==
  /\ Running(e)
  /\ pipe[e] # <<>> /\ Last(pipe[e]) = <<>>
  /\ sock' = [sock EXCEPT ![e].app_send_queue = FinReceived(@)]
  /\ thread' = [thread EXCEPT ![e].finReceived = TRUE]
  /\ pipe' = [pipe EXCEPT ![e] = <<>>]
  /\ UNCHANGED <<client, server, pending, wrote, read>>

\* transport_thread_func() after transport_init(): one more end of the stream.
ThreadEnds(e) ==
  /\ Running(e)
  /\ thread[e].fin /\ thread[e].finReceived
  /\ thread' = [thread EXCEPT ![e].done = TRUE]
  /\ sock' = [sock EXCEPT ![e].app_send_queue = Enqueued(@, <<>>)]
  /\ UNCHANGED <<pipe, client, server, pending, wrote, read>>

Thread(e) == BeginTake(e) \/ Take(e) \/ TakeClose(e) \/ PassUp(e) \/ TakeFin(e) \/ ThreadEnds(e)

-----------------------------------------------------------------------------
(* get_nvt_line(), the same in client.c and server.c                       *)

\* The character read, added to the line so far, completes it.
Completes(line, ch) == ch.kind = "LF" /\ line # <<>> /\ Last(line).kind = "CR"

\* The call returns: at the end of the line, or of the stream with what it has.
LineRead(line, got) == got = <<>> \/ Completes(line, got[1])

\* The line it returns.
Line(line, got) == IF got = <<>> THEN line ELSE Front(line)

-----------------------------------------------------------------------------
(* client.c                                                                *)

ClientEnd(c) == <<c, "client">>
ServerEnd(c) == <<c, "server">>

\* main(): mysocket() and myconnect().
Connect(c) ==
  /\ client[c].pc = "connect"
  /\ client' = [client EXCEPT ![c].pc = "prompt"]
  /\ pending' = Append(pending, c)
  /\ UNCHANGED <<sock, thread, pipe, server, wrote, read>>

\* A request is typed and sent.
Ask(c) ==
  /\ client[c].pc = "prompt" /\ client[c].asks # <<>>
  /\ LET n == Head(client[c].asks)
     IN  /\ Write(ClientEnd(c), <<Ch("name", n, 0)>> \o CrLf(n))
         /\ client' = [client EXCEPT ![c].pc = "response", ![c].line = <<>>,
                                     ![c].asks = Tail(@), ![c].rcvd.of = n,
                                     ![c].rcvd.data = <<>>, ![c].rcvd.state = "none"]
  /\ UNCHANGED <<thread, pipe, server, pending, read>>

\* The end of the input, and what ends the loop: myclose().
Leave(c) ==
  /\ \/ client[c].pc = "prompt" /\ client[c].asks = <<>>
     \/ client[c].pc = "leave"
  /\ client' = [client EXCEPT ![c].pc = "closing"]
  /\ Close(ClientEnd(c))
  /\ UNCHANGED <<thread, pipe, server, pending, wrote, read>>

\* myclose() returns and the program ends.
ClientEnds(c) ==
  /\ client[c].pc = "closing" /\ thread[ClientEnd(c)].done
  /\ client' = [client EXCEPT ![c].pc = "end"]
  /\ sock' = [sock EXCEPT ![ClientEnd(c)] = NewSock]
  /\ UNCHANGED <<thread, pipe, server, pending, wrote, read>>

\* strrchr() finds the last comma, then the one before it; what is between them
\* is the length.
Commas(line) == {i \in DOMAIN line : line[i].kind = "comma"}
Malformed(line) == Cardinality(Commas(line)) < 2

\* Mutant: one byte less.
LengthInShort(line) ==
  LET i == CHOOSE i \in Commas(line) :
             Cardinality({j \in Commas(line) : j > i}) = 1
  IN  IF line[i + 1].at > 0 THEN line[i + 1].at - 1 ELSE line[i + 1].at

LengthIn(line) ==
  LET i == CHOOSE i \in Commas(line) :
             Cardinality({j \in Commas(line) : j > i}) = 1
  IN  line[i + 1].at

\* What the client does with a whole response line.
Response(k, c, line) ==
  IF Malformed(line) THEN [k EXCEPT !.pc = "leave", !.line = <<>>]
  ELSE IF LengthIn(line) = -1
       THEN [k EXCEPT !.pc = IF c \in OneFile THEN "leave" ELSE "prompt", !.line = <<>>]
       ELSE [k EXCEPT !.pc = "file", !.line = <<>>, !.length = LengthIn(line),
                      !.rcvd.state = "open"]

ReadResponse(c) ==
  /\ client[c].pc = "response" /\ CanRead(ClientEnd(c), 1)
  /\ EndRead(ClientEnd(c), 1)
  /\ LET got == Got(ClientEnd(c), 1)
         line == client[c].line
     IN  client' = [client EXCEPT ![c] =
           IF LineRead(line, got) THEN Response(@, c, Line(line, got))
           ELSE [@ EXCEPT !.line = line \o got]]
  /\ UNCHANGED <<thread, pipe, server, pending, wrote>>

\* to_read
ToRead(k) == IF k.length < LineSize THEN k.length ELSE LineSize

\* The loop over the file: data, or the end of the stream too early.
ReadFile(c) ==
  /\ client[c].pc = "file" /\ client[c].length > 0
  /\ CanRead(ClientEnd(c), ToRead(client[c]))
  /\ EndRead(ClientEnd(c), ToRead(client[c]))
  /\ LET got == Got(ClientEnd(c), ToRead(client[c]))
     IN  client' = [client EXCEPT
           ![c].rcvd.data = @ \o got,
           ![c].length = @ - Len(got),
           ![c].pc = IF got = <<>> THEN "check" ELSE @]
  /\ UNCHANGED <<thread, pipe, server, pending, wrote>>

\* Mutant: what is missing is not looked at.
WholeAnyway(k) == TRUE

\* The check after the loop: no byte is missing.
Whole(k) == k.length = 0

\* fclose(), and on to the next request or out; a short file ends the program.
FileDone(c) ==
  /\ client[c].pc = "check" \/ (client[c].pc = "file" /\ client[c].length = 0)
  /\ client' = [client EXCEPT
       ![c].pc = IF Whole(client[c]) /\ c \notin OneFile THEN "prompt" ELSE "leave",
       ![c].rcvd.state = IF Whole(client[c]) THEN "whole" ELSE "short",
       ![c].length = 0]
  /\ UNCHANGED <<sock, thread, pipe, server, pending, wrote, read>>

BeginClientRead(c) ==
  \/ client[c].pc = "response" /\ BeginRead(ClientEnd(c), 1)
  \/ /\ client[c].pc = "file" /\ client[c].length > 0
     /\ BeginRead(ClientEnd(c), ToRead(client[c]))

Client(c) == \/ Connect(c) \/ Ask(c) \/ Leave(c) \/ ClientEnds(c)
             \/ BeginClientRead(c) \/ ReadResponse(c) \/ ReadFile(c) \/ FileDone(c)

-----------------------------------------------------------------------------
(* server.c                                                                *)

Sd == ServerEnd(server.sd[1])

\* main(): myaccept() returns the first completed connection.
Accept ==
  /\ server.pc = "accept" /\ pending # <<>>
  /\ server' = [server EXCEPT !.pc = "line", !.sd = <<Head(pending)>>, !.line = <<>>]
  /\ pending' = Tail(pending)
  /\ UNCHANGED <<sock, thread, pipe, client, wrote, read>>

BeginServerRead == server.pc = "line" /\ BeginRead(Sd, 1)

\* do_connection(): an empty line ends the connection.
ReadRequest ==
  /\ server.pc = "line" /\ CanRead(Sd, 1)
  /\ EndRead(Sd, 1)
  /\ LET got == Got(Sd, 1)
         line == Line(server.line, got)
     IN  server' = IF LineRead(server.line, got)
                   THEN [server EXCEPT !.pc = IF line = <<>> THEN "close" ELSE "process",
                                       !.line = line]
                   ELSE [server EXCEPT !.line = @ \o got]
  /\ UNCHANGED <<thread, pipe, client, pending, wrote>>

\* process_line(): the response.  Only a line that is just a name can be a file's.
Requested == server.line[1].of
Opened == Len(server.line) = 1 /\ FileLen[Requested] # -1

ResponseLine(n, len) ==
  <<Ch("name", n, 0), Ch("comma", n, 0), Ch("length", n, len), Ch("comma", n, 0),
    Ch("text", n, 0)>> \o CrLf(n)

Respond ==
  /\ server.pc = "process"
  /\ Write(Sd, ResponseLine(Requested, IF Opened THEN FileLen[Requested] ELSE -1))
  /\ server' = IF Opened THEN [server EXCEPT !.pc = "send", !.pos = 0]
               ELSE [server EXCEPT !.pc = "line", !.line = <<>>]
  /\ UNCHANGED <<thread, pipe, client, pending, read>>

\* The bytes read() returns at position pos.
Block(n, pos) ==
  SubSeq(FileBytes(n), pos + 1, IF pos + ReadSize < FileLen[n] THEN pos + ReadSize ELSE FileLen[n])

\* The loop of read() and mywrite().
SendBlock ==
  /\ server.pc = "send" /\ server.pos < FileLen[Requested]
  /\ Write(Sd, Block(Requested, server.pos))
  /\ server' = [server EXCEPT !.pos = @ + Len(Block(Requested, @))]
  /\ UNCHANGED <<thread, pipe, client, pending, read>>

\* read() returns 0.
FileSent ==
  /\ server.pc = "send" /\ server.pos >= FileLen[Requested]
  /\ server' = [server EXCEPT !.pc = "line", !.line = <<>>, !.pos = 0]
  /\ UNCHANGED <<sock, thread, pipe, client, pending, wrote, read>>

\* read() fails: process_line() returns -1 and the connection is closed.
ReadFails ==
  /\ server.pc = "send" /\ Requested \in Failing
  /\ server' = [server EXCEPT !.pc = "close", !.line = <<>>, !.pos = 0]
  /\ UNCHANGED <<sock, thread, pipe, client, pending, wrote, read>>

ServerCloses ==
  /\ server.pc = "close"
  /\ Close(Sd)
  /\ server' = [server EXCEPT !.pc = "closing"]
  /\ UNCHANGED <<thread, pipe, client, pending, wrote, read>>

\* myclose() returns, and the server is back at myaccept().
ServerClosed ==
  /\ server.pc = "closing" /\ thread[Sd].done
  /\ sock' = [sock EXCEPT ![Sd] = NewSock]
  /\ server' = [server EXCEPT !.pc = "accept", !.sd = <<>>]
  /\ UNCHANGED <<thread, pipe, client, pending, wrote, read>>

Server == \/ Accept \/ BeginServerRead \/ ReadRequest \/ Respond \/ SendBlock
          \/ FileSent \/ ReadFails \/ ServerCloses \/ ServerClosed

Next == \/ \E c \in Clients : Client(c)
        \/ Server
        \/ \E e \in Ends : Thread(e)

\* Every thread goes on when it can, and the users type on.
Fairness == /\ \A c \in Clients : WF_vars(Client(c))
            /\ WF_vars(Server)
            /\ \A e \in Ends : WF_vars(Thread(e))

Spec == Init /\ [][Next]_vars /\ Fairness
-----------------------------------------------------------------------------
(* Properties                                                              *)

\* A file the client has kept as complete is, byte for byte, the file it asked
\* for, whatever becomes of the connection: a read() that fails at the server
\* and a stream that ends early leave a short file, and the client says so.
SavedIsServed ==
  \A c \in Clients : client[c].rcvd.state = "whole" =>
                       client[c].rcvd.data = FileBytes(client[c].rcvd.of)

\* All the characters on their way to e's application, in order.
Unread(e) == FlattenSeq(sock[e].app_send_queue \o pipe[e] \o sock[Other(e)].app_recv_queue)

\* The server's answer ends where the client stops reading it: at the prompt
\* nothing of an earlier answer is left anywhere on the way, nor has the server
\* more of it to send.  One byte left would be taken for the next response.
PromptIsClean ==
  \A c \in Clients : client[c].pc = "prompt" =>
    /\ Unread(ClientEnd(c)) = <<>> /\ Unread(ServerEnd(c)) = <<>>
    /\ server.sd = <<c>> /\ server.pc = "send" => server.pos = FileLen[Requested]

\* The queues and partial dequeues on both sides keep the stream: what an
\* application has read, followed by what is on its way, is what the other one
\* wrote; only a FIN taken early cuts its end off, and nothing is read after it.
StreamKept ==
  \A e \in Ends :
    /\ IsPrefix(read[e] \o FlattenSeq(sock[e].app_send_queue), wrote[Other(e)])
       \/ client[e[1]].pc = "end"
    /\ ~thread[e].finReceived => read[e] \o Unread(e) = wrote[Other(e)]

\* Every client gets to its end, closed by both sides, and the server, which
\* serves one client after the other, gets through with all of them.
SessionsEnd == <>[](/\ \A c \in Clients : client[c].pc = "end"
                    /\ server.pc = "accept" /\ pending = <<>>)
=============================================================================

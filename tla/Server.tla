------------------------------- MODULE Server -------------------------------
(***************************************************************************)
(* The event loop of src/Server.cpp between sockets that hold little and   *)
(* clients that pipeline their requests as src/benchmark_main.cpp does.    *)
(*                                                                         *)
(* A request travels as two pieces, so that a read may end inside it; an   *)
(* answer is its request's number and the unit of writing.                 *)
(***************************************************************************)
EXTENDS Integers, Sequences, FiniteSets

CONSTANTS
  Client,
  Scripts,    \* Scripts[c]: the sequences of requests client c may send
  Depth,      \* pipeline_depth: requests sent before their answers are read
  RecvSize,   \* pieces a socket holds for the server
  SendSize,   \* answers a socket holds for its client
  ChunkSize   \* pieces one read() returns: the buffer of ReadFromConnection

Kind == {"command", "quit", "malformed"}

ASSUME ServerAssumption ==
  /\ Scripts \in [Client -> SUBSET (Seq(Kind) \ {<<>>})]
  /\ {Depth, RecvSize, SendSize, ChunkSize} \subseteq Nat \ {0}

VARIABLES
  script,   \* the requests of each client
  client,   \* "new", "connected" or "left"
  sent,     \* how many pieces it has sent
  got,      \* the answers it has read
  wire,     \* pieces the server has not read yet
  reply,    \* answers the client has not read yet
  conn,     \* "none", "backlog", "open" (in connections_) or "closed"
  codec, writeBuffer, closeAfterWrite,  \* fields of Connection
  interest, \* whether EPOLLOUT is in interest_events
  executed, \* the requests CommandProcessor has executed
  pc,       \* where the loop is, and for which connection
  events,   \* what is left of the events epoll_wait returned
  accepting \* whether the listening socket is among them

clientVars == <<script, client, sent, got>>
connVars   == <<conn, codec, writeBuffer, closeAfterWrite, interest>>
vars == <<clientVars, wire, reply, connVars, executed, pc, events, accepting>>

Everywhere(x) == [c \in Client |-> x]
None == Everywhere({})
At(where, c) == pc = <<where, c>>
Loop(where)  == pc = <<where>>

Smaller(m, n) == IF m < n THEN m ELSE n
First(s, n)   == SubSeq(s, 1, n)
From(s, n)    == SubSeq(s, n, Len(s))
Prefixes(s)   == {First(s, n) : n \in 0 .. Len(s)}

Init ==
  /\ script \in {f \in [Client -> UNION {Scripts[c] : c \in Client}] :
                   \A c \in Client : f[c] \in Scripts[c]}
  /\ client = Everywhere("new") /\ sent = Everywhere(0) /\ got = Everywhere(<<>>)
  /\ wire = Everywhere(<<>>) /\ reply = Everywhere(<<>>)
  /\ conn = Everywhere("none") /\ codec = Everywhere(<<>>)
  /\ writeBuffer = Everywhere(<<>>) /\ closeAfterWrite = Everywhere(FALSE)
  /\ interest = Everywhere(FALSE) /\ executed = Everywhere(<<>>)
  /\ pc = <<"wait">> /\ events = None /\ accepting = FALSE

-----------------------------------------------------------------------------
(* Clients: send a batch with blocking writes, read its answers, go on.     *)

Connect(c) ==
  /\ client[c] = "new" /\ ~ Loop("stopped")
  /\ client' = [client EXCEPT ![c] = "connected"]
  /\ conn' = [conn EXCEPT ![c] = "backlog"]
  /\ UNCHANGED <<script, sent, got, wire, reply, codec, writeBuffer,
                 closeAfterWrite, interest, executed, pc, events, accepting>>

\* The pieces of the batches begun so far.
Due(c) == 2 * Smaller(Len(script[c]), Depth * (Len(got[c]) \div Depth + 1))

Send(c) ==
  /\ client[c] = "connected" /\ conn[c] # "closed"
  /\ sent[c] < Due(c) /\ Len(wire[c]) < RecvSize
  /\ sent' = [sent EXCEPT ![c] = @ + 1]
  /\ wire' = [wire EXCEPT ![c] = Append(@, sent'[c])]
  /\ UNCHANGED <<script, client, got, reply, connVars, executed, pc, events, accepting>>

Receive(c) ==
  /\ client[c] = "connected" /\ sent[c] = Due(c) /\ reply[c] # <<>>
  /\ got' = [got EXCEPT ![c] = Append(@, Head(reply[c]))]
  /\ reply' = [reply EXCEPT ![c] = Tail(@)]
  /\ UNCHANGED <<script, client, sent, wire, connVars, executed, pc, events, accepting>>

\* The client has its answers, or finds the connection closed.
Through(c) ==
  \/ Len(got[c]) = Len(script[c])
  \/ conn[c] = "closed" /\ (sent[c] < Due(c) \/ reply[c] = <<>>)

CloseSocket(c) ==
  /\ client' = [client EXCEPT ![c] = "left"]
  /\ reply' = [reply EXCEPT ![c] = <<>>]
  /\ UNCHANGED <<script, sent, got, wire, connVars, executed, pc, events, accepting>>

Finish(c) == client[c] = "connected" /\ Through(c) /\ CloseSocket(c)
GiveUp(c) == client[c] = "connected" /\ ~ Through(c) /\ CloseSocket(c)

-----------------------------------------------------------------------------
(* RequestCodec: the complete requests at the front of what has arrived,    *)
(* what stays in the buffer, and whether ExtractRequests throws.            *)

Requests(pieces) == [i \in 1 .. Len(pieces) \div 2 |-> pieces[2 * i] \div 2]

\* Mutant: what has been decoded is not erased.
AllOfIt(pieces) == pieces
Rest(pieces) == From(pieces, 2 * (Len(pieces) \div 2) + 1)

Throws(c, pieces) ==
  \E i \in 1 .. Len(pieces) : script[c][(pieces[i] + 1) \div 2] = "malformed"

-----------------------------------------------------------------------------
(* The loop.                                                                *)

Pending == {c \in Client : conn[c] = "backlog"}

\* Mutant: while an answer waits to be sent, nothing is read.
ReadyOneWay(c) ==
  IF conn[c] # "open" THEN {}
  ELSE {f \in {"in", "out", "hup"} :
          \/ f = "in"  /\ ~ interest[c] /\ (wire[c] # <<>> \/ client[c] = "left")
          \/ f = "out" /\ interest[c] /\ Len(reply[c]) < SendSize
          \/ f = "hup" /\ client[c] = "left"}

\* The events of a connection, level triggered.
Ready(c) ==
  IF conn[c] # "open" THEN {}
  ELSE {f \in {"in", "out", "hup"} :
          \/ f = "in"  /\ (wire[c] # <<>> \/ client[c] = "left")
          \/ f = "out" /\ interest[c] /\ Len(reply[c]) < SendSize
          \/ f = "hup" /\ client[c] = "left"}

Wait ==
  /\ Loop("wait")
  /\ Pending # {} \/ \E c \in Client : Ready(c) # {}
  /\ events' = [c \in Client |-> Ready(c)]
  /\ accepting' = (Pending # {})
  /\ pc' = <<"batch">>
  /\ UNCHANGED <<clientVars, wire, reply, connVars, executed>>

EndBatch ==
  /\ Loop("batch") /\ events = None /\ ~ accepting
  /\ pc' = <<"wait">>
  /\ UNCHANGED <<clientVars, wire, reply, connVars, executed, events, accepting>>

BeginAccept ==
  /\ Loop("batch") /\ accepting
  /\ pc' = <<"accept">> /\ accepting' = FALSE
  /\ UNCHANGED <<clientVars, wire, reply, connVars, executed, events>>

Accept(c) ==
  /\ Loop("accept") /\ c \in Pending
  /\ conn' = [conn EXCEPT ![c] = "open"]
  /\ UNCHANGED <<clientVars, wire, reply, codec, writeBuffer, closeAfterWrite,
                 interest, executed, pc, events, accepting>>

EndAccept ==
  /\ Loop("accept") /\ Pending = {}
  /\ pc' = <<"batch">>
  /\ UNCHANGED <<clientVars, wire, reply, connVars, executed, events, accepting>>

-----------------------------------------------------------------------------
(* One connection.                                                          *)

\* What a closed socket still delivers: with unread input it is reset, which
\* may take unread answers with it.
Delivered(c) == IF wire[c] = <<>> THEN {reply[c]} ELSE Prefixes(reply[c])

CloseConnection(c) ==
  /\ conn' = [conn EXCEPT ![c] = "closed"]
  /\ codec' = [codec EXCEPT ![c] = <<>>]
  /\ writeBuffer' = [writeBuffer EXCEPT ![c] = <<>>]
  /\ closeAfterWrite' = [closeAfterWrite EXCEPT ![c] = FALSE]
  /\ interest' = [interest EXCEPT ![c] = FALSE]
  /\ \E r \in Delivered(c) : reply' = [reply EXCEPT ![c] = r]
  /\ wire' = [wire EXCEPT ![c] = <<>>]
  /\ events' = [events EXCEPT ![c] = {}]
  /\ pc' = <<"batch">>
  /\ UNCHANGED <<clientVars, executed, accepting>>

HangUp(c) == Loop("batch") /\ "hup" \in events[c] /\ CloseConnection(c)

BeginRead(c) ==
  /\ Loop("batch") /\ "in" \in events[c] /\ "hup" \notin events[c]
  /\ pc' = <<"read", c>>
  /\ events' = [events EXCEPT ![c] = @ \ {"in"}]
  /\ UNCHANGED <<clientVars, wire, reply, connVars, executed, accepting>>

BeginWrite(c) ==
  /\ Loop("batch") /\ events[c] = {"out"}
  /\ pc' = <<"write", c>>
  /\ events' = [events EXCEPT ![c] = {}]
  /\ UNCHANGED <<clientVars, wire, reply, connVars, executed, accepting>>

\* A handler returns true: an EPOLLOUT of the same event is next.
Resume(c) ==
  /\ pc' = IF "out" \in events[c] THEN <<"write", c>> ELSE <<"batch">>
  /\ events' = [events EXCEPT ![c] = {}]

Chunk(c)   == Smaller(ChunkSize, Len(wire[c]))
Arrived(c) == codec[c] \o First(wire[c], Chunk(c))

\* read(), ExtractRequests and the execution of what it returns.
Read(c) ==
  LET requests == Requests(Arrived(c)) IN
  /\ At("read", c) /\ wire[c] # <<>> /\ ~ Throws(c, Arrived(c))
  /\ wire' = [wire EXCEPT ![c] = From(@, Chunk(c) + 1)]
  /\ codec' = [codec EXCEPT ![c] = Rest(Arrived(c))]
  /\ executed' = [executed EXCEPT ![c] = @ \o requests]
  /\ writeBuffer' = [writeBuffer EXCEPT ![c] = @ \o requests]
  /\ closeAfterWrite' = [closeAfterWrite EXCEPT ![c] =
       @ \/ \E i \in 1 .. Len(requests) : script[c][requests[i]] = "quit"]
  /\ UNCHANGED <<clientVars, reply, conn, interest, pc, events, accepting>>

\* read() fails or returns 0, or ExtractRequests throws.
ReadEnds(c) ==
  /\ At("read", c)
  /\ client[c] = "left" \/ (wire[c] # <<>> /\ Throws(c, Arrived(c)))
  /\ CloseConnection(c)

\* Mutant: a connection that has said QUIT is closed at once.
QuitAtOnce(c) ==
  /\ At("read", c) /\ wire[c] = <<>> /\ client[c] # "left"
  /\ IF closeAfterWrite[c] THEN CloseConnection(c)
     ELSE /\ IF writeBuffer[c] # <<>> THEN pc' = <<"write", c>> /\ UNCHANGED events
                                      ELSE Resume(c)
          /\ UNCHANGED <<clientVars, wire, reply, connVars, executed, accepting>>

NoMoreInput(c) ==
  /\ At("read", c) /\ wire[c] = <<>> /\ client[c] # "left"
  /\ IF writeBuffer[c] # <<>> THEN pc' = <<"write", c>> /\ UNCHANGED events
                              ELSE Resume(c)
  /\ UNCHANGED <<clientVars, wire, reply, connVars, executed, accepting>>

\* Mutant: what write() has not taken is dropped.
NothingUnsent(c, n) == <<>>
Unsent(c, n) == From(writeBuffer[c], n + 1)

Space(c) == SendSize - Len(reply[c])

\* write() takes what fits; a socket whose client has left takes it for nobody.
Write(c) ==
  LET n == Smaller(Space(c), Len(writeBuffer[c])) IN
  /\ At("write", c) /\ n > 0
  /\ reply' = [reply EXCEPT ![c] = IF client[c] = "left" THEN @
                                   ELSE @ \o First(writeBuffer[c], n)]
  /\ writeBuffer' = [writeBuffer EXCEPT ![c] = Unsent(c, n)]
  /\ UNCHANGED <<clientVars, wire, conn, codec, closeAfterWrite, interest,
                 executed, pc, events, accepting>>

WriteFails(c) ==
  /\ At("write", c) /\ writeBuffer[c] # <<>> /\ client[c] = "left"
  /\ CloseConnection(c)

\* The socket is full: EAGAIN.
Blocked(c) ==
  /\ At("write", c) /\ writeBuffer[c] # <<>> /\ Space(c) = 0
  /\ interest' = [interest EXCEPT ![c] = TRUE]
  /\ Resume(c)
  /\ UNCHANGED <<clientVars, wire, reply, conn, codec, writeBuffer,
                 closeAfterWrite, executed, accepting>>

\* Mutant: the interest in EPOLLOUT is kept.
StillInterested(c) == interest[c]
NotInterested(c)   == FALSE

WrittenOut(c) ==
  /\ At("write", c) /\ writeBuffer[c] = <<>> /\ ~ closeAfterWrite[c]
  /\ interest' = [interest EXCEPT ![c] = NotInterested(c)]
  /\ Resume(c)
  /\ UNCHANGED <<clientVars, wire, reply, conn, codec, writeBuffer,
                 closeAfterWrite, executed, accepting>>

CloseWritten(c) ==
  /\ At("write", c) /\ writeBuffer[c] = <<>> /\ closeAfterWrite[c]
  /\ CloseConnection(c)

\* The process ends: a signal seen between two batches, accept() failing, an
\* exception from the engine, or SIGPIPE from a write to a client that has left.
\* Its sockets are closed.
Stop ==
  /\ \/ Loop("wait") \/ Loop("accept")
     \/ \E c \in Client : At("read", c)
     \/ \E c \in Client : At("write", c) /\ client[c] = "left"
  /\ pc' = <<"stopped">> /\ events' = None /\ accepting' = FALSE
  /\ conn' = [c \in Client |-> IF conn[c] = "none" THEN "none" ELSE "closed"]
  /\ codec' = Everywhere(<<>>) /\ writeBuffer' = Everywhere(<<>>)
  /\ closeAfterWrite' = Everywhere(FALSE) /\ interest' = Everywhere(FALSE)
  /\ reply' \in {f \in [Client -> UNION {Delivered(c) : c \in Client}] :
                   \A c \in Client : f[c] \in Delivered(c)}
  /\ wire' = Everywhere(<<>>)
  /\ UNCHANGED <<clientVars, executed>>

-----------------------------------------------------------------------------
Handle(c) ==
  \/ HangUp(c) \/ BeginRead(c) \/ BeginWrite(c)
  \/ Read(c) \/ ReadEnds(c) \/ NoMoreInput(c)
  \/ Write(c) \/ WriteFails(c) \/ Blocked(c) \/ WrittenOut(c) \/ CloseWritten(c)

Run ==
  \/ Wait \/ EndBatch \/ BeginAccept \/ EndAccept
  \/ \E c \in Client : Accept(c) \/ Handle(c)

ClientStep(c) == Send(c) \/ Receive(c) \/ Finish(c)

Next ==
  \/ Run \/ Stop
  \/ \E c \in Client : Connect(c) \/ ClientStep(c) \/ GiveUp(c)

Spec == Init /\ [][Next]_vars

\* The one thread of the server runs; a client that has connected goes on.
FairSpec == Spec /\ WF_vars(Run) /\ \A c \in Client : WF_vars(ClientStep(c))

=============================================================================

---------------------------- MODULE ServerProofs ----------------------------
(***************************************************************************)
(* For any clients, requests, depth and sizes of sockets: between two      *)
(* handlers EPOLLOUT is asked for exactly when an answer waits (IInv);     *)
(* requests are executed and answered in order with none missing, and a    *)
(* connection is closed only for its reasons (StreamInv).                  *)
(***************************************************************************)
EXTENDS ServerSafety, TLAPS

\* The types of what the loop decides by.
Types ==
  /\ conn \in [Client -> {"none", "backlog", "open", "closed"}]
  /\ interest \in [Client -> BOOLEAN]
  /\ client \in [Client -> {"new", "connected", "left"}] /\ sent \in [Client -> Nat]
  /\ wire \in [Client -> Seq(Nat)] /\ codec \in [Client -> Seq(Nat)]
  /\ writeBuffer \in [Client -> Seq(Nat)]
  /\ events \in [Client -> SUBSET {"in", "out", "hup"}]
  /\ pc \in {<<"wait">>, <<"batch">>, <<"accept">>, <<"stopped">>}
              \union ({"read", "write"} \X Client)

\* The loop is in a handler of c.
Handled(c) == At("read", c) \/ At("write", c)

\* A connection that is not open is as its constructor or its end leaves it, and
\* neither has events nor is being handled; one that is being read does not ask
\* for EPOLLOUT without need, though it may not ask yet.
Connection(c) ==
  /\ client[c] = "new" => conn[c] = "none"
  /\ conn[c] # "open" =>
       ~ interest[c] /\ writeBuffer[c] = <<>> /\ events[c] = {} /\ ~ Handled(c)
  /\ At("read", c) /\ interest[c] => writeBuffer[c] # <<>>
  /\ conn[c] = "open" /\ ~ Handled(c) => (interest[c] <=> writeBuffer[c] # <<>>)

IInv == Types /\ \A c \in Client : Connection(c)

-----------------------------------------------------------------------------
(* Where the loop is.                                                       *)

\* A place in the loop is outside all handlers, and a handler has one connection.
LEMMA Places ==
  /\ \A c \in Client : Loop("wait") \/ Loop("batch") \/ Loop("accept") \/ Loop("stopped")
                         => ~ Handled(c)
  /\ \A c, d \in Client : At("read", c) => ~ At("write", d)
  /\ \A c, d \in Client : At("read", c) /\ At("read", d) => c = d
  /\ \A c, d \in Client : At("write", c) /\ At("write", d) => c = d
BY DEF Loop, At, Handled

\* Whatever does not touch a connection keeps what is known of it.
LEMMA Untouched ==
  ASSUME NEW c \in Client, Connection(c), ~ Handled(c), ~ Handled(c)',
         conn'[c] = conn[c], interest'[c] = interest[c],
         writeBuffer'[c] = writeBuffer[c], events'[c] = events[c],
         client'[c] = client[c]
  PROVE  Connection(c)'
BY DEF Connection, Handled, At

LEMMA InitIInv == Init => IInv
<1> SUFFICES ASSUME Init PROVE IInv
  OBVIOUS
<1>1. Types
  BY DEF Init, Types, Everywhere, None
<1>2. ASSUME NEW c \in Client PROVE Connection(c)
  BY DEF Init, Connection, Handled, At, Everywhere, None
<1> QED
  BY <1>1, <1>2 DEF IInv

-----------------------------------------------------------------------------
(* The end of a handler.                                                    *)

\* However a connection is closed, nothing of it stays.
LEMMA Closing ==
  ASSUME IInv, NEW c \in Client, conn[c] = "open", CloseConnection(c),
         \A d \in Client \ {c} : ~ Handled(d)
  PROVE  IInv'
<1>1. Types'
  <2>1. /\ conn' \in [Client -> {"none", "backlog", "open", "closed"}]
        /\ interest' \in [Client -> BOOLEAN]
        /\ events' \in [Client -> SUBSET {"in", "out", "hup"}]
        /\ client' = client /\ sent' = sent /\ pc' = <<"batch">>
    BY DEF CloseConnection, clientVars, IInv, Types
  <2>2. wire' \in [Client -> Seq(Nat)] /\ codec' \in [Client -> Seq(Nat)]
        /\ writeBuffer' \in [Client -> Seq(Nat)]
    BY DEF CloseConnection, IInv, Types
  <2> QED
    BY <2>1, <2>2 DEF IInv, Types
<1>2. \A d \in Client : ~ Handled(d)'
  BY DEF CloseConnection, Handled, At
<1>3. ASSUME NEW d \in Client, d # c PROVE Connection(d)'
  <2>1. conn'[d] = conn[d] /\ interest'[d] = interest[d]
        /\ writeBuffer'[d] = writeBuffer[d] /\ events'[d] = events[d] /\ client' = client
    BY <1>3 DEF CloseConnection, clientVars, IInv, Types
  <2> QED
    BY <1>2, <1>3, <2>1, Untouched DEF IInv
<1>4. Connection(c)'
  BY <1>2 DEF CloseConnection, clientVars, IInv, Types, Connection
<1> QED
  BY <1>1, <1>3, <1>4 DEF IInv

\* A handler that goes on to write, or ends with the interest right, leaves all
\* connections right.
LEMMA Resuming ==
  ASSUME IInv, NEW c \in Client, Resume(c), conn[c] = "open",
         \A d \in Client \ {c} : ~ Handled(d),
         UNCHANGED <<client, sent, wire, codec, conn, writeBuffer>>,
         interest' \in [Client -> BOOLEAN],
         \A d \in Client \ {c} : interest'[d] = interest[d],
         interest'[c] <=> writeBuffer[c] # <<>>
  PROVE  IInv'
<1>1. Types'
  BY DEF Resume, IInv, Types
<1>2. pc' = <<"write", c>> \/ pc' = <<"batch">>
  BY DEF Resume
<1>3. ASSUME NEW d \in Client, d # c PROVE Connection(d)'
  <2>1. ~ Handled(d)' /\ events'[d] = events[d]
    BY <1>2, <1>3 DEF Resume, IInv, Types, Handled, At
  <2> QED
    BY <1>3, <2>1, Untouched DEF IInv
<1>4. Connection(c)'
  BY <1>2 DEF IInv, Connection, Handled, At
<1> QED
  BY <1>1, <1>3, <1>4 DEF IInv

-----------------------------------------------------------------------------
(* Reading and writing.                                                     *)

\* Parts of sequences, and what is decoded from them, are sequences.
LEMMA Pieces ==
  /\ \A s \in Seq(Nat), n \in Int : n >= 0 /\ n <= Len(s) => First(s, n) \in Seq(Nat)
  /\ \A s \in Seq(Nat), n \in Int : n >= 1 => From(s, n) \in Seq(Nat)
  /\ \A s \in Seq(Nat) : Requests(s) \in Seq(Nat) /\ Rest(s) \in Seq(Nat)
<1>1. \A s \in Seq(Nat), n \in Int : n >= 0 /\ n <= Len(s) => First(s, n) \in Seq(Nat)
  BY DEF First
<1>2. \A s \in Seq(Nat), n \in Int : n >= 1 => From(s, n) \in Seq(Nat)
  BY DEF From
<1>3. ASSUME NEW s \in Seq(Nat) PROVE Requests(s) \in Seq(Nat) /\ Rest(s) \in Seq(Nat)
  <2>1. Len(s) \in Nat /\ Len(s) \div 2 \in Nat
    OBVIOUS
  <2>2. \A i \in 1 .. Len(s) \div 2 : s[2 * i] \div 2 \in Nat
    <3> TAKE i \in 1 .. Len(s) \div 2
    <3>1. 2 * i \in 1 .. Len(s)
      BY <2>1
    <3> QED
      BY <3>1
  <2>3. Requests(s) \in Seq(Nat)
    BY <2>1, <2>2 DEF Requests
  <2> QED
    BY <1>2, <2>1, <2>3 DEF Rest
<1> QED
  BY <1>1, <1>2, <1>3

\* The chunk a read() returns is part of what there is.
LEMMA Chunks ==
  ASSUME Types, NEW c \in Client
  PROVE  /\ Chunk(c) \in Nat /\ Chunk(c) <= Len(wire[c])
         /\ Arrived(c) \in Seq(Nat)
<1>1. Chunk(c) \in Nat /\ Chunk(c) <= Len(wire[c])
  BY ServerAssumption DEF Types, Chunk, Smaller
<1>2. First(wire[c], Chunk(c)) \in Seq(Nat)
  BY <1>1, Pieces DEF Types
<1> QED
  BY <1>1, <1>2 DEF Types, Arrived

\* A read cannot empty the write buffer, and ends in the same handler.
LEMMA Reading ==
  ASSUME IInv, NEW c \in Client, Read(c)
  PROVE  IInv'
<1> DEFINE requests == Requests(Arrived(c))
<1>1. Types /\ Connection(c) /\ conn[c] = "open"
  BY DEF IInv, Connection, Read, Handled
<1>2. /\ From(wire[c], Chunk(c) + 1) \in Seq(Nat) /\ requests \in Seq(Nat)
      /\ Rest(Arrived(c)) \in Seq(Nat)
  <2>1. wire[c] \in Seq(Nat) /\ Chunk(c) + 1 \in Int /\ Chunk(c) + 1 >= 1
    BY <1>1, Chunks DEF Types
  <2> QED
    BY <1>1, <2>1, Chunks, Pieces
<1>3. /\ wire' = [wire EXCEPT ![c] = From(@, Chunk(c) + 1)]
      /\ codec' = [codec EXCEPT ![c] = Rest(Arrived(c))]
      /\ writeBuffer' = [writeBuffer EXCEPT ![c] = @ \o requests]
      /\ UNCHANGED <<client, sent, conn, interest, pc, events>>
  BY DEF Read, clientVars
<1> HIDE DEF requests
<1>4. Types'
  <2>1. wire' \in [Client -> Seq(Nat)] /\ codec' \in [Client -> Seq(Nat)]
    BY <1>1, <1>2, <1>3 DEF Types
  <2>2. writeBuffer' \in [Client -> Seq(Nat)]
    BY <1>1, <1>2, <1>3 DEF Types
  <2> QED
    BY <1>1, <1>3, <2>1, <2>2 DEF Types
<1>5. ASSUME NEW d \in Client, d # c PROVE Connection(d)'
  <2>1. writeBuffer'[d] = writeBuffer[d]
    BY <1>1, <1>3, <1>5 DEF Types
  <2> QED
    BY <1>3, <2>1 DEF IInv, Connection, Handled, At
<1>6. Connection(c)'
  <2>1. At("read", c)' /\ conn'[c] = "open" /\ interest'[c] = interest[c]
        /\ client' = client /\ client[c] # "new"
    BY <1>1, <1>3 DEF Read, At, Connection
  <2>2. writeBuffer[c] # <<>> => writeBuffer'[c] # <<>>
    BY <1>1, <1>2, <1>3 DEF Types
  <2> QED
    BY <1>1, <2>1, <2>2 DEF Connection, Handled, Read
<1> QED
  BY <1>4, <1>5, <1>6 DEF IInv

\* A write leaves a sequence, and ends in the same handler.
LEMMA Writing ==
  ASSUME IInv, NEW c \in Client, Write(c)
  PROVE  IInv'
<1>1. Types /\ Connection(c) /\ conn[c] = "open"
  BY DEF IInv, Connection, Write, Handled
<1> DEFINE n == Smaller(Space(c), Len(writeBuffer[c]))
<1>2. PICK unsent \in Seq(Nat) :
        /\ writeBuffer' = [writeBuffer EXCEPT ![c] = unsent]
        /\ UNCHANGED <<client, sent, wire, codec, conn, interest, pc, events>>
  <2>1. n > 0 /\ n \in Int
    <3>1. n > 0
      BY DEF Write
    <3>2. Len(writeBuffer[c]) \in Int
      BY <1>1 DEF Types
    <3> QED
      BY <3>1, <3>2, ServerAssumption DEF Smaller, Space
  <2>2. Unsent(c, n) \in Seq(Nat)
    BY <1>1, <2>1, Pieces DEF Unsent, Types
  <2> QED
    BY <2>2 DEF Write, clientVars
<1>3. Types'
  BY <1>1, <1>2 DEF Types
<1>4. ASSUME NEW d \in Client, d # c PROVE Connection(d)'
  <2>1. writeBuffer'[d] = writeBuffer[d]
    BY <1>1, <1>2, <1>4 DEF Types
  <2> QED
    BY <1>2, <2>1 DEF IInv, Connection, Handled, At
<1>5. Connection(c)'
  <2>1. At("write", c)' /\ ~ At("read", c)' /\ conn'[c] = "open"
        /\ client' = client /\ client[c] # "new"
    BY <1>1, <1>2 DEF Write, At, Connection
  <2> QED
    BY <2>1 DEF Connection, Handled
<1> QED
  BY <1>3, <1>4, <1>5 DEF IInv

-----------------------------------------------------------------------------
(* The steps.                                                               *)

\* A handler works for one connection at a time.
LEMMA OneHandled ==
  ASSUME NEW c \in Client, Handled(c)
  PROVE  \A d \in Client \ {c} : ~ Handled(d)
BY DEF Handled, At

\* Clients do not touch what the loop keeps of a connection.
LEMMA ClientSteps ==
  ASSUME IInv, NEW c \in Client, Connect(c) \/ ClientStep(c) \/ GiveUp(c)
  PROVE  IInv'
<1> USE DEF IInv, Types
<1>1. ASSUME UNCHANGED <<conn, interest, writeBuffer, events, pc>>,
             \A d \in Client : client'[d] = "new" => client[d] = "new"
      PROVE  \A d \in Client : Connection(d)'
  BY <1>1 DEF Connection, Handled, At
<1>2. CASE Connect(c)
  <2>1. Types'
    BY <1>2 DEF Connect
  <2>2. conn[c] = "none"
    BY <1>2 DEF Connect, Connection
  <2>3. ASSUME NEW d \in Client PROVE Connection(d)'
    <3>1. UNCHANGED <<interest, writeBuffer, events, pc>> /\ Connection(d)
      BY <1>2 DEF Connect
    <3>2. CASE d = c
      <4>1. conn'[c] = "backlog" /\ client'[c] = "connected"
        BY <1>2 DEF Connect
      <4> QED
        BY <2>2, <3>1, <3>2, <4>1 DEF Connection, Handled, At
    <3>3. CASE d # c
      <4>1. conn'[d] = conn[d] /\ client'[d] = client[d]
        BY <1>2, <3>3 DEF Connect
      <4> QED
        BY <3>1, <4>1 DEF Connection, Handled, At
    <3> QED
      BY <3>2, <3>3
  <2> QED
    BY <2>1, <2>3
<1>3. CASE Send(c)
  <2>1. /\ wire' = [wire EXCEPT ![c] = Append(@, sent'[c])]
        /\ sent' = [sent EXCEPT ![c] = @ + 1]
        /\ UNCHANGED <<client, codec, conn, interest, writeBuffer, events, pc>>
    BY <1>3 DEF Send, connVars
  <2>2. sent' \in [Client -> Nat]
    BY <2>1
  <2>3. wire' \in [Client -> Seq(Nat)]
    BY <2>1, <2>2
  <2> QED
    BY <1>1, <2>1, <2>2, <2>3
<1>4. CASE Receive(c) \/ Finish(c) \/ GiveUp(c)
  <2>1. UNCHANGED <<sent, wire, codec, conn, writeBuffer, interest, events, pc>>
    BY <1>4 DEF Receive, Finish, GiveUp, CloseSocket, connVars
  <2>2. client' = client \/ client' = [client EXCEPT ![c] = "left"]
    BY <1>4 DEF Receive, Finish, GiveUp, CloseSocket
  <2> QED
    BY <1>1, <2>1, <2>2
<1> QED
  BY <1>2, <1>3, <1>4 DEF ClientStep

\* Between two connections the loop changes none that is open.
LEMMA LoopSteps ==
  ASSUME IInv, Wait \/ EndBatch \/ BeginAccept \/ EndAccept \/ Stop
  PROVE  IInv'
<1>1. CASE Wait \/ EndBatch \/ BeginAccept \/ EndAccept
  <2>1. /\ UNCHANGED <<client, sent, wire, codec, conn, interest, writeBuffer>>
        /\ Loop("wait") \/ Loop("batch") \/ Loop("accept")
        /\ Loop("wait")' \/ Loop("batch")' \/ Loop("accept")'
    BY <1>1 DEF Wait, EndBatch, BeginAccept, EndAccept, clientVars, connVars, Loop
  <2>2. \A d \in Client : ~ Handled(d) /\ ~ Handled(d)'
    BY <2>1 DEF Loop, Handled, At
  <2>3. events' \in [Client -> SUBSET {"in", "out", "hup"}]
    <3>1. \A d \in Client : Ready(d) \in SUBSET {"in", "out", "hup"}
      BY DEF Ready
    <3>2. CASE Wait
      BY <3>1, <3>2 DEF Wait
    <3>3. CASE EndBatch \/ BeginAccept \/ EndAccept
      BY <3>3 DEF EndBatch, BeginAccept, EndAccept, IInv, Types
    <3> QED
      BY <1>1, <3>2, <3>3
  <2>4. \A d \in Client : conn[d] # "open" => events'[d] = {}
    BY <1>1 DEF Wait, EndBatch, BeginAccept, EndAccept, Ready, IInv, Connection
  <2>5. Types'
    BY <2>1, <2>3 DEF IInv, Types, Loop
  <2>6. \A d \in Client : Connection(d)'
    BY <2>1, <2>2, <2>4 DEF IInv, Connection, Handled, At
  <2> QED
    BY <2>5, <2>6 DEF IInv
<1>2. CASE Stop
  <2>1. /\ wire' = Everywhere(<<>>) /\ codec' = Everywhere(<<>>)
        /\ writeBuffer' = Everywhere(<<>>) /\ interest' = Everywhere(FALSE)
        /\ events' = None /\ pc' = <<"stopped">> /\ UNCHANGED <<client, sent>>
        /\ conn' = [d \in Client |-> IF conn[d] = "none" THEN "none" ELSE "closed"]
    BY <1>2 DEF Stop, clientVars
  <2>2. Types'
    BY <2>1 DEF Everywhere, None, IInv, Types
  <2>3. \A d \in Client : Connection(d)'
    BY <2>1 DEF Everywhere, None, IInv, Connection, Handled, At
  <2> QED
    BY <2>2, <2>3 DEF IInv
<1> QED
  BY <1>1, <1>2

\* A connection enters connections_ with nothing to write.
LEMMA Accepting ==
  ASSUME IInv, NEW c \in Client, Accept(c)
  PROVE  IInv'
<1>1. Types'
  BY DEF Accept, clientVars, IInv, Types
<1>2. \A d \in Client : ~ Handled(d) /\ ~ Handled(d)'
  BY DEF Accept, Loop, Handled, At
<1>3. conn[c] = "backlog"
  BY DEF Accept, Pending
<1>4. ASSUME NEW d \in Client PROVE Connection(d)'
  <2>1. UNCHANGED <<client, interest, writeBuffer, events>> /\ Connection(d)
    BY DEF Accept, clientVars, IInv
  <2>2. CASE d = c
    <3>1. client[c] # "new" /\ ~ interest[c] /\ writeBuffer[c] = <<>>
      BY <1>3, <2>1, <2>2 DEF Connection
    <3>2. conn'[c] = "open"
      BY DEF Accept, IInv, Types
    <3> QED
      BY <1>2, <2>1, <2>2, <3>1, <3>2 DEF Connection
  <2>3. CASE d # c
    <3>1. conn'[d] = conn[d]
      BY <2>3 DEF Accept, IInv, Types
    <3> QED
      BY <1>2, <2>1, <3>1, Untouched
  <2> QED
    BY <2>2, <2>3
<1> QED
  BY <1>1, <1>4 DEF IInv

\* The steps of the handlers, one by one.
LEMMA HandlerSteps ==
  ASSUME IInv, NEW c \in Client, Handle(c)
  PROVE  IInv'
<1>1. Connection(c) /\ Types
  BY DEF IInv
<1>2. CASE HangUp(c)
  <2>1. \A d \in Client : ~ Handled(d)
    BY <1>2 DEF HangUp, Loop, Handled, At
  <2>2. conn[c] = "open" /\ CloseConnection(c)
    BY <1>1, <1>2 DEF HangUp, Connection
  <2> QED
    BY <2>1, <2>2, Closing
<1>3. ASSUME BeginRead(c) \/ BeginWrite(c) PROVE IInv'
  <2>1. /\ UNCHANGED <<client, sent, wire, codec, conn, interest, writeBuffer>>
        /\ pc' = <<"read", c>> \/ pc' = <<"write", c>>
        /\ events[c] # {}
        /\ \A d \in Client : ~ Handled(d)
    BY <1>3 DEF BeginRead, BeginWrite, clientVars, connVars, Loop, Handled, At
  <2>2. /\ events' \in [Client -> SUBSET {"in", "out", "hup"}]
        /\ \A d \in Client \ {c} : events'[d] = events[d]
    <3>1. events[c] \ {"in"} \in SUBSET {"in", "out", "hup"}
      BY <1>1 DEF Types
    <3>2. PICK left \in SUBSET {"in", "out", "hup"} : events' = [events EXCEPT ![c] = left]
      BY <1>3, <3>1 DEF BeginRead, BeginWrite
    <3> QED
      BY <1>1, <3>2 DEF Types
  <2>3. Types'
    BY <1>1, <2>1, <2>2 DEF Types
  <2>4. ASSUME NEW d \in Client, d # c PROVE Connection(d)'
    <3>1. ~ Handled(d)'
      BY <2>1, <2>4 DEF Handled, At
    <3> QED
      BY <2>1, <2>2, <2>4, <3>1, Untouched DEF IInv
  <2>5. Connection(c)'
    BY <1>1, <2>1 DEF Connection, Handled, At
  <2> QED
    BY <2>3, <2>4, <2>5 DEF IInv
<1>4. ASSUME Handled(c) PROVE conn[c] = "open" /\ \A d \in Client \ {c} : ~ Handled(d)
  BY <1>1, <1>4, OneHandled DEF Connection
<1>5. CASE Read(c)
  BY <1>5, Reading
<1>6. CASE ReadEnds(c) \/ WriteFails(c) \/ CloseWritten(c)
  <2>1. Handled(c) /\ CloseConnection(c)
    BY <1>6 DEF ReadEnds, WriteFails, CloseWritten, Handled
  <2> QED
    BY <1>4, <2>1, Closing
<1>7. CASE NoMoreInput(c)
  <2>1. Handled(c) /\ (interest[c] => writeBuffer[c] # <<>>)
    BY <1>1, <1>7 DEF NoMoreInput, Handled, Connection
  <2>2. UNCHANGED <<client, sent, wire, codec, conn, interest, writeBuffer>>
    BY <1>7 DEF NoMoreInput, clientVars, connVars
  <2>3. CASE writeBuffer[c] = <<>>
    <3>1. Resume(c)
      BY <1>7, <2>3 DEF NoMoreInput
    <3>2. interest' \in [Client -> BOOLEAN] /\ (interest'[c] <=> writeBuffer[c] # <<>>)
      BY <1>1, <2>1, <2>2, <2>3 DEF Types
    <3> QED
      BY <1>4, <2>1, <2>2, <3>1, <3>2, Resuming
  <2>4. CASE writeBuffer[c] # <<>>
    <3>1. pc' = <<"write", c>> /\ events' = events
      BY <1>7, <2>4 DEF NoMoreInput
    <3>2. Types'
      BY <1>1, <2>2, <3>1 DEF Types
    <3>3. ASSUME NEW d \in Client PROVE Connection(d)'
      BY <1>4, <2>1, <2>2, <3>1 DEF IInv, Connection, Handled, At
    <3> QED
      BY <3>2, <3>3 DEF IInv
  <2> QED
    BY <2>3, <2>4
<1>8. CASE Write(c)
  BY <1>8, Writing
<1>9. CASE Blocked(c)
  <2>1. Handled(c) /\ Resume(c) /\ UNCHANGED <<client, sent, wire, codec, conn, writeBuffer>>
    BY <1>9 DEF Blocked, Handled, clientVars
  <2>2. interest' = [interest EXCEPT ![c] = TRUE] /\ writeBuffer[c] # <<>>
    BY <1>9 DEF Blocked
  <2>3. /\ interest' \in [Client -> BOOLEAN]
        /\ \A d \in Client \ {c} : interest'[d] = interest[d]
        /\ interest'[c] <=> writeBuffer[c] # <<>>
    BY <1>1, <2>2 DEF Types
  <2> QED
    BY <1>4, <2>1, <2>3, Resuming
<1>10. CASE WrittenOut(c)
  <2>1. Handled(c) /\ Resume(c) /\ UNCHANGED <<client, sent, wire, codec, conn, writeBuffer>>
    BY <1>10 DEF WrittenOut, Handled, clientVars
  <2>2. interest' = [interest EXCEPT ![c] = FALSE] /\ writeBuffer[c] = <<>>
    BY <1>10 DEF WrittenOut, NotInterested
  <2>3. /\ interest' \in [Client -> BOOLEAN]
        /\ \A d \in Client \ {c} : interest'[d] = interest[d]
        /\ interest'[c] <=> writeBuffer[c] # <<>>
    BY <1>1, <2>2 DEF Types
  <2> QED
    BY <1>4, <2>1, <2>3, Resuming
<1> QED
  BY <1>2, <1>3, <1>5, <1>6, <1>7, <1>8, <1>9, <1>10 DEF Handle

\* The strengthened invariant is inductive.
LEMMA NextIInv == IInv /\ [Next]_vars => IInv'
<1> SUFFICES ASSUME IInv, [Next]_vars PROVE IInv'
  OBVIOUS
<1>1. CASE UNCHANGED vars
  BY <1>1 DEF vars, clientVars, connVars, IInv, Types, Connection, Handled, At
<1>2. CASE Wait \/ EndBatch \/ BeginAccept \/ EndAccept \/ Stop
  BY <1>2, LoopSteps
<1>3. CASE \E c \in Client : Accept(c)
  BY <1>3, Accepting
<1>4. CASE \E c \in Client : Handle(c)
  BY <1>4, HandlerSteps
<1>5. CASE \E c \in Client : Connect(c) \/ ClientStep(c) \/ GiveUp(c)
  BY <1>5, ClientSteps
<1> QED
  BY <1>1, <1>2, <1>3, <1>4, <1>5 DEF Next, Run

\* For any clients, requests, socket sizes and pipeline depth, EPOLLOUT is asked
\* for between two handlers exactly when an answer waits (SetConnectionInterest).
THEOREM InterestFollowsBufferHolds == Spec => []InterestFollowsBuffer
<1>1. IInv => InterestFollowsBuffer
  BY DEF IInv, Connection, Handled, InterestFollowsBuffer
<1> QED
  BY InitIInv, NextIInv, <1>1, PTL DEF Spec

-----------------------------------------------------------------------------
(* Numbers in order.                                                        *)

\* s holds the numbers that follow n.
Counts(s, n) == \A i \in 1 .. Len(s) : s[i] = n + i

LEMMA CountsAppend ==
  ASSUME NEW s \in Seq(Nat), NEW n \in Nat, Counts(s, n)
  PROVE  /\ Append(s, n + Len(s) + 1) \in Seq(Nat)
         /\ Len(Append(s, n + Len(s) + 1)) = Len(s) + 1
         /\ Counts(Append(s, n + Len(s) + 1), n)
BY DEF Counts

LEMMA CountsTail ==
  ASSUME NEW s \in Seq(Nat), NEW n \in Nat, Counts(s, n), s # <<>>
  PROVE  /\ Head(s) = n + 1 /\ Tail(s) \in Seq(Nat) /\ Len(Tail(s)) = Len(s) - 1
         /\ Counts(Tail(s), n + 1)
<1>1. Len(s) \in Nat /\ Len(s) >= 1 /\ Head(s) = s[1]
  OBVIOUS
<1>2. Tail(s) \in Seq(Nat) /\ Len(Tail(s)) = Len(s) - 1
      /\ \A i \in 1 .. Len(s) - 1 : Tail(s)[i] = s[i + 1]
  OBVIOUS
<1> QED
  BY <1>1, <1>2 DEF Counts

LEMMA CountsFirst ==
  ASSUME NEW s \in Seq(Nat), NEW n \in Nat, Counts(s, n), NEW k \in Nat, k <= Len(s)
  PROVE  First(s, k) \in Seq(Nat) /\ Len(First(s, k)) = k /\ Counts(First(s, k), n)
<1>1. First(s, k) \in Seq(Nat) /\ Len(First(s, k)) = k
      /\ \A i \in 1 .. k : First(s, k)[i] = s[i]
  BY DEF First
<1>2. \A i \in 1 .. k : i \in 1 .. Len(s)
  OBVIOUS
<1> QED
  BY <1>1, <1>2 DEF Counts

LEMMA CountsFrom ==
  ASSUME NEW s \in Seq(Nat), NEW n \in Nat, Counts(s, n), NEW k \in Nat, k <= Len(s)
  PROVE  /\ From(s, k + 1) \in Seq(Nat) /\ Len(From(s, k + 1)) = Len(s) - k
         /\ Counts(From(s, k + 1), n + k)
<1>1. From(s, k + 1) \in Seq(Nat) /\ Len(From(s, k + 1)) = Len(s) - k
      /\ \A i \in 1 .. Len(s) - k : From(s, k + 1)[i] = s[k + i]
  BY DEF From
<1>2. ASSUME NEW i \in 1 .. Len(s) - k
      PROVE  s[k + i] = n + k + i
  <2>1. k + i \in 1 .. Len(s)
    OBVIOUS
  <2>2. s[k + i] = n + (k + i)
    BY <2>1 DEF Counts
  <2> QED
    BY <2>2
<1> QED
  BY <1>1, <1>2 DEF Counts

LEMMA CountsJoin ==
  ASSUME NEW s \in Seq(Nat), NEW n \in Nat, Counts(s, n),
         NEW t \in Seq(Nat), Counts(t, n + Len(s))
  PROVE  s \o t \in Seq(Nat) /\ Len(s \o t) = Len(s) + Len(t) /\ Counts(s \o t, n)
<1>1. /\ s \o t \in Seq(Nat) /\ Len(s \o t) = Len(s) + Len(t) /\ Len(s) \in Nat /\ Len(t) \in Nat
      /\ \A i \in 1 .. Len(s) + Len(t) : (s \o t)[i] = IF i <= Len(s) THEN s[i] ELSE t[i - Len(s)]
  OBVIOUS
<1> QED
  BY <1>1 DEF Counts

\* Two sequences of the same numbers are the same.
LEMMA CountsSame ==
  ASSUME NEW s \in Seq(Nat), NEW t \in Seq(Nat), NEW n \in Nat, Counts(s, n), Counts(t, n),
         Len(s) = Len(t)
  PROVE  s = t
BY DEF Counts

\* The requests whose pieces these are, and the piece that is left.
LEMMA CountsRequests ==
  ASSUME NEW s \in Seq(Nat), NEW n \in Nat, Counts(s, 2 * n)
  PROVE  /\ Requests(s) \in Seq(Nat) /\ Counts(Requests(s), n)
         /\ Rest(s) \in Seq(Nat) /\ Counts(Rest(s), 2 * (n + Len(Requests(s))))
         /\ Len(Rest(s)) = Len(s) - 2 * Len(Requests(s)) /\ Len(Rest(s)) <= 1
         /\ Len(Requests(s)) \in Nat
<1> DEFINE k == Len(s) \div 2
<1>1. Len(s) \in Nat /\ k \in Nat /\ 2 * k <= Len(s) /\ Len(s) <= 2 * k + 1
  OBVIOUS
<1> HIDE DEF k
<1>2. ASSUME NEW i \in 1 .. k
      PROVE  s[2 * i] \div 2 = n + i
  <2>1. 2 * i \in 1 .. Len(s)
    BY <1>1
  <2>2. s[2 * i] = 2 * n + 2 * i
    BY <2>1 DEF Counts
  <2> QED
    BY <1>1, <2>2
<1>3. Requests(s) = [i \in 1 .. k |-> s[2 * i] \div 2]
  BY DEF Requests, k
<1>4. Requests(s) \in Seq(Nat) /\ Len(Requests(s)) = k /\ Counts(Requests(s), n)
  <2>1. \A i \in 1 .. k : s[2 * i] \div 2 \in Nat
    BY <1>1, <1>2
  <2> QED
    BY <1>1, <1>2, <1>3, <2>1 DEF Counts
<1>5. Rest(s) = From(s, 2 * k + 1)
  BY DEF Rest, k
<1>6. Rest(s) \in Seq(Nat) /\ Len(Rest(s)) = Len(s) - 2 * k /\ Counts(Rest(s), 2 * n + 2 * k)
  BY <1>1, <1>5, CountsFrom
<1>7. 2 * n + 2 * k = 2 * (n + k)
  BY <1>1
<1> QED
  BY <1>1, <1>4, <1>6, <1>7

-----------------------------------------------------------------------------
(* The streams of requests and answers.                                     *)

\* Why a connection was closed whose client stays.
Bye(c) ==
  \/ Says(c, "malformed")
  \/ /\ Says(c, "quit")
     /\ (\A i \in 1 .. Len(script[c]) - 1 : script[c][i] # "quit") =>
          Len(Answered(c)) = Len(script[c])

\* No request is executed that was not sent, and the sockets hold what they can.
Sizes(c) ==
  /\ conn[c] = "none" => client[c] = "new" /\ sent[c] = 0
  /\ 2 * Len(executed[c]) <= sent[c] /\ sent[c] <= 2 * Len(script[c])
  /\ Len(wire[c]) <= RecvSize /\ Len(reply[c]) <= SendSize /\ Len(codec[c]) <= 1

\* Requests are executed in order, and answered in that order.
Answers(c) ==
  /\ Counts(executed[c], 0) /\ Counts(got[c], 0) /\ Counts(reply[c], Len(got[c]))
  /\ Len(got[c]) + Len(reply[c]) <= Len(executed[c])

\* On a connection that is not closed nothing is missing: what the server has not
\* executed is in the codec or the socket, what a client has not read is in the
\* buffer or the socket.
Unbroken(c) ==
  conn[c] # "closed" =>
    /\ Counts(codec[c], 2 * Len(executed[c]))
    /\ Counts(wire[c], 2 * Len(executed[c]) + Len(codec[c]))
    /\ 2 * Len(executed[c]) + Len(codec[c]) + Len(wire[c]) = sent[c]
    /\ client[c] # "left" =>
         /\ Counts(writeBuffer[c], Len(got[c]) + Len(reply[c]))
         /\ Len(got[c]) + Len(reply[c]) + Len(writeBuffer[c]) = Len(executed[c])

\* What a connection is closed for has happened.
Reasons(c) ==
  /\ closeAfterWrite[c] => \E i \in 1 .. Len(executed[c]) : script[c][i] = "quit"
  /\ "hup" \in events[c] => client[c] = "left"
  /\ conn[c] = "closed" /\ client[c] = "connected" /\ ~ Loop("stopped") => Bye(c)

Stream(c) == Sizes(c) /\ Answers(c) /\ Unbroken(c) /\ Reasons(c)

\* The types that the loop does not decide by.
StreamTypes ==
  /\ script \in [Client -> Seq(Kind)] /\ \A c \in Client : script[c] \in Scripts[c]
  /\ got \in [Client -> Seq(Nat)] /\ reply \in [Client -> Seq(Nat)]
  /\ executed \in [Client -> Seq(Nat)]
  /\ closeAfterWrite \in [Client -> BOOLEAN] /\ accepting \in BOOLEAN

StreamInv == StreamTypes /\ \A c \in Client : Stream(c)

\* What all these are, for one connection.
LEMMA StreamParts ==
  ASSUME IInv, StreamTypes, NEW c \in Client
  PROVE  /\ script[c] \in Seq(Kind) /\ Len(script[c]) \in Nat \ {0}
         /\ sent[c] \in Nat
         /\ got[c] \in Seq(Nat) /\ Len(got[c]) \in Nat
         /\ reply[c] \in Seq(Nat) /\ Len(reply[c]) \in Nat
         /\ wire[c] \in Seq(Nat) /\ Len(wire[c]) \in Nat
         /\ codec[c] \in Seq(Nat) /\ Len(codec[c]) \in Nat
         /\ writeBuffer[c] \in Seq(Nat) /\ Len(writeBuffer[c]) \in Nat
         /\ executed[c] \in Seq(Nat) /\ Len(executed[c]) \in Nat
         /\ closeAfterWrite[c] \in BOOLEAN
<1>1. script[c] \in Seq(Kind) /\ script[c] # <<>>
  BY ServerAssumption DEF StreamTypes
<1>2. Len(script[c]) \in Nat \ {0}
  BY <1>1
<1>3. /\ sent[c] \in Nat /\ got[c] \in Seq(Nat) /\ reply[c] \in Seq(Nat) /\ wire[c] \in Seq(Nat)
      /\ codec[c] \in Seq(Nat) /\ writeBuffer[c] \in Seq(Nat) /\ executed[c] \in Seq(Nat)
      /\ closeAfterWrite[c] \in BOOLEAN
  BY DEF IInv, Types, StreamTypes
<1> QED
  BY <1>1, <1>2, <1>3

LEMMA InitStream == Init => StreamInv
<1> SUFFICES ASSUME Init PROVE StreamInv
  OBVIOUS
<1>1. StreamTypes
  <2>1. script \in [Client -> Seq(Kind)] /\ \A c \in Client : script[c] \in Scripts[c]
    <3>1. (\A c \in Client : script[c] \in Scripts[c]) /\ DOMAIN script = Client
          /\ script = [c \in Client |-> script[c]]
      BY DEF Init
    <3>2. \A c \in Client : script[c] \in Seq(Kind)
      BY <3>1, ServerAssumption
    <3> QED
      BY <3>1, <3>2
  <2>2. got \in [Client -> Seq(Nat)] /\ reply \in [Client -> Seq(Nat)]
        /\ executed \in [Client -> Seq(Nat)]
    BY DEF Init, Everywhere
  <2>3. closeAfterWrite \in [Client -> BOOLEAN] /\ accepting \in BOOLEAN
    BY DEF Init, Everywhere
  <2> QED
    BY <2>1, <2>2, <2>3 DEF StreamTypes
<1>2. ASSUME NEW c \in Client PROVE Stream(c)
  <2>1. script[c] \in Seq(Kind) /\ Len(script[c]) \in Nat
    BY <1>1, <1>2, ServerAssumption DEF StreamTypes
  <2>2. /\ sent[c] = 0 /\ got[c] = <<>> /\ reply[c] = <<>> /\ executed[c] = <<>> /\ codec[c] = <<>>
        /\ wire[c] = <<>> /\ writeBuffer[c] = <<>> /\ ~ closeAfterWrite[c] /\ conn[c] = "none"
        /\ events[c] = {} /\ client[c] = "new"
    BY DEF Init, Everywhere, None
  <2>3. \A n : Counts(<<>>, n)
    BY DEF Counts
  <2>4. Len(<<>>) = 0
    OBVIOUS
  <2> QED
    BY <2>1, <2>2, <2>3, <2>4, ServerAssumption DEF Stream, Sizes, Answers, Unbroken, Reasons
<1> QED
  BY <1>1, <1>2 DEF StreamInv

\* A process that has ended stays ended.
LEMMA StaysStopped ==
  ASSUME [Next]_vars, Loop("stopped")
  PROVE  Loop("stopped")'
<1>1. CASE UNCHANGED vars
  BY <1>1 DEF vars, Loop
<1>2. CASE Run \/ Stop
  BY <1>2 DEF Run, Stop, Wait, EndBatch, BeginAccept, EndAccept, Accept, Handle, HangUp, BeginRead,
              BeginWrite, Read, ReadEnds, NoMoreInput, Write, WriteFails, Blocked, WrittenOut,
              CloseWritten, Loop, At
<1>3. CASE \E c \in Client : Connect(c) \/ ClientStep(c) \/ GiveUp(c)
  BY <1>3 DEF Connect, ClientStep, Send, Receive, Finish, GiveUp, CloseSocket, Loop
<1> QED
  BY <1>1, <1>2, <1>3 DEF Next

\* Whatever moves neither requests nor answers of c, nor closes its connection.
LEMMA Still ==
  ASSUME Loop("stopped") => Loop("stopped")', NEW c \in Client, Stream(c),
         script'[c] = script[c], sent'[c] = sent[c], got'[c] = got[c], wire'[c] = wire[c],
         reply'[c] = reply[c], codec'[c] = codec[c], writeBuffer'[c] = writeBuffer[c],
         closeAfterWrite'[c] = closeAfterWrite[c], executed'[c] = executed[c],
         client'[c] = client[c] \/ client[c] = "new",
         conn'[c] = conn[c] \/ (conn'[c] # "closed" /\ conn[c] # "closed"),
         conn'[c] = "none" => conn[c] = "none" /\ client'[c] = client[c],
         client[c] = "new" => conn[c] # "closed",
         "hup" \in events'[c] => client'[c] = "left"
  PROVE  Stream(c)'
<1>1. client'[c] = "left" => client[c] = "left" \/ client[c] = "new"
  OBVIOUS
<1>2. Bye(c) => Bye(c)'
  BY DEF Bye, Says, Answered
<1>3. conn'[c] = "closed" => conn[c] = "closed" /\ client'[c] = client[c]
  OBVIOUS
<1> QED
  BY <1>1, <1>2, <1>3 DEF Stream, Sizes, Answers, Unbroken, Reasons

\* A step that is about one connection leaves the streams of the others.
LEMMA OthersStill ==
  ASSUME IInv, StreamInv, Loop("stopped") => Loop("stopped")', NEW c \in Client, Connect(c) \/ ClientStep(c) \/ GiveUp(c)
                                                 \/ Accept(c) \/ Handle(c),
         NEW d \in Client, d # c
  PROVE  Stream(d)'
<1>1. Stream(d) /\ Types /\ StreamTypes /\ (client[d] = "new" => conn[d] # "closed")
  BY DEF StreamInv, IInv, Connection
<1>2. /\ script'[d] = script[d] /\ sent'[d] = sent[d] /\ got'[d] = got[d] /\ wire'[d] = wire[d]
      /\ reply'[d] = reply[d] /\ codec'[d] = codec[d] /\ writeBuffer'[d] = writeBuffer[d]
      /\ closeAfterWrite'[d] = closeAfterWrite[d] /\ executed'[d] = executed[d]
      /\ client'[d] = client[d] /\ conn'[d] = conn[d] /\ events'[d] = events[d]
  <2>1. CASE Connect(c) \/ ClientStep(c) \/ GiveUp(c) \/ Accept(c)
    BY <1>1, <2>1, SMTT(30) DEF Connect, ClientStep, Send, Receive, Finish, GiveUp, CloseSocket, Accept,
                      clientVars, connVars, Types, StreamTypes
  <2>3. CASE HangUp(c) \/ ReadEnds(c) \/ WriteFails(c) \/ CloseWritten(c)
    BY <1>1, <2>3 DEF HangUp, ReadEnds, WriteFails, CloseWritten, CloseConnection, clientVars, Types,
                      StreamTypes
  <2>4. CASE BeginRead(c) \/ BeginWrite(c) \/ NoMoreInput(c) \/ Blocked(c) \/ WrittenOut(c)
    BY <1>1, <2>4 DEF BeginRead, BeginWrite, NoMoreInput, Blocked, WrittenOut, Resume,
                      clientVars, connVars, Types
  <2>5. CASE Read(c)
    BY <1>1, <2>5 DEF Read, clientVars, Types, StreamTypes
  <2>6. CASE Write(c)
    BY <1>1, <2>6 DEF Write, clientVars, Types, StreamTypes
  <2> QED
    BY <2>1, <2>3, <2>4, <2>5, <2>6 DEF Handle
<1>3. "hup" \in events'[d] => client'[d] = "left"
  BY <1>1, <1>2 DEF Stream, Reasons
<1>4. /\ client'[d] = client[d] \/ client[d] = "new"
      /\ conn'[d] = conn[d] \/ (conn'[d] # "closed" /\ conn[d] # "closed")
      /\ conn'[d] = "none" => conn[d] = "none" /\ client'[d] = client[d]
  BY <1>2
<1>5. Stream(d) /\ (client[d] = "new" => conn[d] # "closed")
  BY <1>1
<1> QED
  BY <1>2, <1>3, <1>4, <1>5, Still

\* Connecting, and a loop that goes from one connection to the next.
LEMMA QuietStream ==
  ASSUME IInv, StreamInv, Loop("stopped") => Loop("stopped")', NEW c \in Client,
         Connect(c) \/ Accept(c) \/ BeginRead(c) \/ BeginWrite(c) \/ NoMoreInput(c)
         \/ Blocked(c) \/ WrittenOut(c)
  PROVE  Stream(c)'
<1>1. /\ Stream(c) /\ Types /\ StreamTypes /\ Connection(c)
  BY DEF StreamInv, IInv
<1>2. client[c] = "new" => conn[c] # "closed"
  BY <1>1 DEF Connection
<1>3. /\ script'[c] = script[c] /\ sent'[c] = sent[c] /\ got'[c] = got[c] /\ wire'[c] = wire[c]
      /\ reply'[c] = reply[c] /\ codec'[c] = codec[c] /\ writeBuffer'[c] = writeBuffer[c]
      /\ closeAfterWrite'[c] = closeAfterWrite[c] /\ executed'[c] = executed[c]
  BY DEF Connect, Accept, BeginRead, BeginWrite, NoMoreInput, Blocked, WrittenOut,
         clientVars, connVars
<1>4. (client'[c] = client[c] \/ client[c] = "new") /\ (client[c] # "new" => client'[c] = client[c])
  BY DEF Connect, Accept, BeginRead, BeginWrite, NoMoreInput, Blocked, WrittenOut, clientVars
<1>5. conn'[c] = conn[c] \/ (conn'[c] # "closed" /\ conn[c] # "closed")
  <2>1. CASE Connect(c)
    BY <1>1, <2>1 DEF Connect, Connection, Types
  <2>2. CASE Accept(c)
    BY <1>1, <2>2 DEF Accept, Pending, Types
  <2>3. CASE BeginRead(c) \/ BeginWrite(c) \/ NoMoreInput(c) \/ Blocked(c) \/ WrittenOut(c)
    BY <2>3 DEF BeginRead, BeginWrite, NoMoreInput, Blocked, WrittenOut, clientVars, connVars
  <2> QED
    BY <2>1, <2>2, <2>3
<1>6. "hup" \in events'[c] => "hup" \in events[c]
  BY <1>1 DEF Connect, Accept, BeginRead, BeginWrite, NoMoreInput, Blocked, WrittenOut, Resume, Types
<1>7. "hup" \in events'[c] => client'[c] = "left"
  BY <1>1, <1>4, <1>6 DEF Stream, Reasons
<1>8. client'[c] = client[c] \/ client[c] = "new"
  BY <1>4
<1>9. conn'[c] = "none" => conn[c] = "none" /\ client'[c] = client[c]
  <2>1. CASE Connect(c)
    BY <1>1, <2>1 DEF Connect, Types
  <2>2. CASE Accept(c)
    BY <1>1, <2>2 DEF Accept, Types
  <2>3. CASE BeginRead(c) \/ BeginWrite(c) \/ NoMoreInput(c) \/ Blocked(c) \/ WrittenOut(c)
    BY <2>3 DEF BeginRead, BeginWrite, NoMoreInput, Blocked, WrittenOut, clientVars, connVars
  <2> QED
    BY <2>1, <2>2, <2>3
<1> QED
  BY <1>1, <1>2, <1>3, <1>5, <1>7, <1>8, <1>9, Still

\* The bytes of a batch.
LEMMA DueBound ==
  ASSUME NEW c \in Client, IInv, StreamTypes
  PROVE  Due(c) <= 2 * Len(script[c]) /\ Due(c) \in Int
<1>1. Len(script[c]) \in Nat /\ Len(got[c]) \in Nat
  BY StreamParts
<1>2. Depth * (Len(got[c]) \div Depth + 1) \in Int
  BY <1>1, ServerAssumption
<1> DEFINE b == Depth * (Len(got[c]) \div Depth + 1)
<1>3. b \in Int
  BY <1>2
<1>4. Due(c) = 2 * Smaller(Len(script[c]), b)
  BY DEF Due
<1> HIDE DEF b
<1> QED
  BY <1>1, <1>3, <1>4 DEF Smaller

LEMMA SendStream ==
  ASSUME IInv, StreamInv, NEW c \in Client, Send(c)
  PROVE  Stream(c)'
<1>1. Stream(c) /\ StreamTypes
  BY DEF StreamInv
<1>2. /\ client[c] = "connected" /\ conn[c] # "closed" /\ sent[c] < Due(c) /\ Len(wire[c]) < RecvSize
      /\ sent'[c] = sent[c] + 1 /\ wire'[c] = Append(wire[c], sent[c] + 1)
      /\ UNCHANGED <<script, client, got, reply, conn, codec, writeBuffer, closeAfterWrite, executed,
                     pc, events>>
  BY DEF Send, connVars, IInv, Types
<1>3. /\ sent \in [Client -> Nat] /\ wire \in [Client -> Seq(Nat)] /\ codec \in [Client -> Seq(Nat)]
      /\ executed \in [Client -> Seq(Nat)] /\ script \in [Client -> Seq(Kind)]
  BY <1>1 DEF IInv, Types, StreamTypes
<1>0. Counts(wire[c], 2 * Len(executed[c]) + Len(codec[c]))
  BY <1>1, <1>2 DEF Stream, Unbroken
<1>4. 2 * Len(executed[c]) + Len(codec[c]) + Len(wire[c]) = sent[c]
  BY <1>1, <1>2 DEF Stream, Unbroken
<1>5. Due(c) <= 2 * Len(script[c]) /\ Due(c) \in Int /\ RecvSize \in Nat
  BY <1>1, DueBound, ServerAssumption
<1>6. /\ Counts(wire'[c], 2 * Len(executed[c]) + Len(codec[c])) /\ Len(wire'[c]) = Len(wire[c]) + 1
  <2> DEFINE n == 2 * Len(executed[c]) + Len(codec[c])
  <2>1. n \in Nat /\ sent[c] + 1 = n + Len(wire[c]) + 1
    BY <1>3, <1>4
  <2>2. Counts(wire[c], n) /\ wire'[c] = Append(wire[c], n + Len(wire[c]) + 1)
    BY <1>0, <1>2, <2>1
  <2> HIDE DEF n
  <2>3. Counts(wire'[c], n) /\ Len(wire'[c]) = Len(wire[c]) + 1
    BY <1>3, <2>1, <2>2, CountsAppend
  <2> QED
    BY <2>3 DEF n
<1>7. Sizes(c)'
  <2>0. sent[c] < Due(c) /\ Len(wire[c]) < RecvSize
    BY <1>2
  <2>1. sent[c] + 1 <= 2 * Len(script[c]) /\ 2 * Len(executed[c]) <= sent[c] + 1
        /\ Len(wire[c]) + 1 <= RecvSize
    BY <1>3, <1>4, <1>5, <2>0
  <2> QED
    BY <1>1, <1>2, <1>6, <2>1 DEF Stream, Sizes
<1>8. Answers(c)'
  BY <1>1, <1>2 DEF Stream, Answers
<1>9. Unbroken(c)'
  <2>1. 2 * Len(executed[c]) + Len(codec[c]) + (Len(wire[c]) + 1) = sent[c] + 1
    BY <1>3, <1>4
  <2> QED
    BY <1>1, <1>2, <1>6, <2>1 DEF Stream, Unbroken
<1>10. Reasons(c)'
  BY <1>1, <1>2 DEF Stream, Reasons
<1> QED
  BY <1>7, <1>8, <1>9, <1>10 DEF Stream

LEMMA ReceiveStream ==
  ASSUME IInv, StreamInv, NEW c \in Client, Receive(c)
  PROVE  Stream(c)'
<1>1. Stream(c) /\ StreamTypes
  BY DEF StreamInv
<1>2. /\ client[c] = "connected" /\ reply[c] # <<>>
      /\ got'[c] = Append(got[c], Head(reply[c])) /\ reply'[c] = Tail(reply[c])
      /\ UNCHANGED <<script, client, sent, wire, conn, codec, writeBuffer, closeAfterWrite, executed,
                     pc, events>>
  BY <1>1 DEF Receive, connVars, StreamTypes
<1>3. /\ reply \in [Client -> Seq(Nat)] /\ got \in [Client -> Seq(Nat)]
      /\ executed \in [Client -> Seq(Nat)] /\ writeBuffer \in [Client -> Seq(Nat)] /\ SendSize \in Nat
  BY <1>1, ServerAssumption DEF IInv, Types, StreamTypes
<1>4. Counts(got[c], 0) /\ Counts(reply[c], Len(got[c])) /\ Len(reply[c]) <= SendSize
  BY <1>1 DEF Stream, Answers, Sizes
<1>5. /\ Head(reply[c]) = Len(got[c]) + 1
      /\ Counts(reply'[c], Len(got[c]) + 1) /\ reply'[c] \in Seq(Nat)
      /\ Len(reply'[c]) = Len(reply[c]) - 1
  <2>1. /\ reply[c] \in Seq(Nat) /\ Len(got[c]) \in Nat /\ Counts(reply[c], Len(got[c]))
        /\ reply[c] # <<>>
    BY <1>1, <1>2, <1>4, StreamParts
  <2>2. /\ Head(reply[c]) = Len(got[c]) + 1
        /\ Counts(Tail(reply[c]), Len(got[c]) + 1) /\ Tail(reply[c]) \in Seq(Nat)
        /\ Len(Tail(reply[c])) = Len(reply[c]) - 1
    BY <2>1, CountsTail
  <2> QED
    BY <1>2, <2>2
<1>0. Len(reply'[c]) = Len(reply[c]) - 1
  BY <1>5
<1>6. /\ Len(got'[c]) = Len(got[c]) + 1 /\ Counts(got'[c], 0) /\ got'[c] \in Seq(Nat)
  <2>1. got'[c] = Append(got[c], 0 + Len(got[c]) + 1)
    BY <1>2, <1>3, <1>5
  <2> QED
    BY <1>3, <1>4, <2>1, CountsAppend
<1>7. Len(got'[c]) + Len(reply'[c]) = Len(got[c]) + Len(reply[c])
  <2>1. Len(got'[c]) = Len(got[c]) + 1
    BY <1>6
  <2> QED
    BY <1>0, <1>3, <2>1
<1>8. Bye(c) => Bye(c)'
  <2>1. Len(Answered(c)) = Len(got[c]) + Len(reply[c])
    BY <1>3 DEF Answered
  <2>2. Len(Answered(c))' = Len(got'[c]) + Len(reply'[c])
    <3>1. reply'[c] \in Seq(Nat) /\ got'[c] \in Seq(Nat)
      BY <1>5, <1>6
    <3> QED
      BY <3>1 DEF Answered
  <2> QED
    BY <1>2, <1>7, <2>1, <2>2 DEF Bye, Says
<1>9. Sizes(c)'
  <2>1. Len(reply'[c]) <= SendSize
    BY <1>0, <1>3, <1>4
  <2> QED
    BY <1>1, <1>2, <2>1 DEF Stream, Sizes
<1>10. Answers(c)'
  BY <1>1, <1>2, <1>5, <1>6, <1>7 DEF Stream, Answers
<1>11. Unbroken(c)'
  BY <1>1, <1>2, <1>7 DEF Stream, Unbroken
<1>12. Reasons(c)'
  BY <1>1, <1>2, <1>8 DEF Stream, Reasons, Loop
<1> QED
  BY <1>9, <1>10, <1>11, <1>12 DEF Stream

LEMMA LeaveStream ==
  ASSUME IInv, StreamInv, NEW c \in Client, client[c] = "connected", CloseSocket(c)
  PROVE  Stream(c)'
<1>1. Stream(c) /\ StreamTypes
  BY DEF StreamInv
<1>2. /\ client'[c] = "left" /\ reply'[c] = <<>>
      /\ UNCHANGED <<script, sent, got, wire, conn, codec, writeBuffer, closeAfterWrite, executed,
                     events>>
  BY <1>1 DEF CloseSocket, connVars, IInv, Types, StreamTypes
<1>3. /\ reply \in [Client -> Seq(Nat)] /\ got \in [Client -> Seq(Nat)]
      /\ executed \in [Client -> Seq(Nat)] /\ SendSize \in Nat
  BY <1>1, ServerAssumption DEF StreamTypes
<1>4. Len(reply'[c]) = 0 /\ Counts(reply'[c], Len(got[c]))
  BY <1>2 DEF Counts
<1>5. Sizes(c)'
  BY <1>1, <1>2, <1>3, <1>4 DEF Stream, Sizes
<1>6. Answers(c)'
  <2>1. Len(got[c]) + Len(reply[c]) <= Len(executed[c])
    BY <1>1 DEF Stream, Answers
  <2>2. Len(got[c]) + 0 <= Len(executed[c])
    <3>1. Len(got[c]) + 0 <= Len(got[c]) + Len(reply[c])
      BY <1>3
    <3> QED
      BY <1>3, <2>1, <3>1
  <2> QED
    BY <1>1, <1>2, <1>4, <2>2 DEF Stream, Answers
<1>7. Unbroken(c)'
  BY <1>1, <1>2 DEF Stream, Unbroken
<1>8. Reasons(c)'
  BY <1>1, <1>2 DEF Stream, Reasons
<1> QED
  BY <1>5, <1>6, <1>7, <1>8 DEF Stream
-----------------------------------------------------------------------------
(* Closing, reading and writing one connection.                             *)

\* What a closed socket delivers is the front of what it held.
LEMMA DeliveredFront ==
  ASSUME IInv, StreamInv, NEW c \in Client, NEW r \in Delivered(c)
  PROVE  r \in Seq(Nat) /\ Len(r) <= Len(reply[c]) /\ Counts(r, Len(got[c]))
<1>1. reply[c] \in Seq(Nat) /\ Len(reply[c]) \in Nat /\ Len(got[c]) \in Nat
  BY StreamParts DEF StreamInv
<1>2. Counts(reply[c], Len(got[c]))
  BY DEF StreamInv, Stream, Answers
<1>3. CASE r = reply[c]
  BY <1>1, <1>2, <1>3
<1>4. CASE r \in Prefixes(reply[c])
  <2>1. PICK n \in 0 .. Len(reply[c]) : r = First(reply[c], n)
    BY <1>4 DEF Prefixes
  <2>2. n \in Nat /\ n <= Len(reply[c])
    BY <1>1
  <2>3. r \in Seq(Nat) /\ Len(r) = n /\ Counts(r, Len(got[c]))
    BY <1>1, <1>2, <2>1, <2>2, CountsFirst
  <2> QED
    BY <2>2, <2>3
<1> QED
  BY <1>3, <1>4 DEF Delivered

\* A connection that is closed for a reason.
LEMMA CloseStream ==
  ASSUME IInv, StreamInv, NEW c \in Client, CloseConnection(c), client[c] = "connected" => Bye(c)'
  PROVE  Stream(c)'
<1>1. Stream(c) /\ StreamTypes
  BY DEF StreamInv
<1>2. /\ conn'[c] = "closed" /\ codec'[c] = <<>> /\ wire'[c] = <<>> /\ ~ closeAfterWrite'[c]
      /\ events'[c] = {}
      /\ UNCHANGED <<script, client, sent, got, executed>>
  BY <1>1 DEF CloseConnection, clientVars, IInv, Types, StreamTypes
<1>3. PICK r \in Delivered(c) : reply' = [reply EXCEPT ![c] = r]
  BY DEF CloseConnection
<1>4. reply'[c] = r
  BY <1>1, <1>3 DEF StreamTypes
<1>5. reply'[c] \in Seq(Nat) /\ Len(reply'[c]) <= Len(reply[c]) /\ Counts(reply'[c], Len(got[c]))
  BY <1>4, DeliveredFront
<1>6. /\ reply \in [Client -> Seq(Nat)] /\ got \in [Client -> Seq(Nat)]
      /\ executed \in [Client -> Seq(Nat)] /\ SendSize \in Nat /\ RecvSize \in Nat
      /\ Len(reply'[c]) \in Nat
  BY <1>1, <1>5, ServerAssumption DEF StreamTypes
<1>7. Len(<<>>) = 0
  OBVIOUS
<1>8. Sizes(c)'
  <2>1. Len(reply[c]) <= SendSize
    BY <1>1 DEF Stream, Sizes
  <2>2. Len(reply'[c]) <= Len(reply[c])
    BY <1>5
  <2>3. Len(reply'[c]) <= SendSize
    BY <1>6, <2>1, <2>2
  <2> QED
    BY <1>1, <1>2, <1>6, <1>7, <2>3 DEF Stream, Sizes
<1>9. Answers(c)'
  <2>1. Len(got[c]) + Len(reply[c]) <= Len(executed[c])
    BY <1>1 DEF Stream, Answers
  <2>2. Len(reply'[c]) <= Len(reply[c])
    BY <1>5
  <2>3. Len(got[c]) + Len(reply'[c]) <= Len(executed[c])
    BY <1>6, <2>1, <2>2
  <2> QED
    BY <1>1, <1>2, <1>5, <2>3 DEF Stream, Answers
<1>10. Unbroken(c)'
  BY <1>2 DEF Unbroken
<1>11. Reasons(c)'
  BY <1>2 DEF Reasons
<1> QED
  BY <1>8, <1>9, <1>10, <1>11 DEF Stream

\* What a read of an open connection has before it.
LEMMA ArrivedCounts ==
  ASSUME IInv, StreamInv, NEW c \in Client, conn[c] # "closed"
  PROVE  /\ Arrived(c) \in Seq(Nat) /\ Counts(Arrived(c), 2 * Len(executed[c]))
         /\ Len(Arrived(c)) = Len(codec[c]) + Chunk(c)
         /\ Chunk(c) \in Nat /\ Chunk(c) <= Len(wire[c])
<1>1. Stream(c) /\ StreamTypes
  BY DEF StreamInv
<1>2. /\ codec[c] \in Seq(Nat) /\ Len(codec[c]) \in Nat /\ wire[c] \in Seq(Nat) /\ Len(wire[c]) \in Nat
      /\ Len(executed[c]) \in Nat
  BY <1>1, StreamParts
<1>3. /\ Counts(codec[c], 2 * Len(executed[c]))
      /\ Counts(wire[c], 2 * Len(executed[c]) + Len(codec[c]))
  BY <1>1 DEF Stream, Unbroken
<1> DEFINE m == 2 * Len(executed[c])
           n == Len(codec[c])
           k == Len(wire[c])
<1>4. m \in Nat /\ m + n \in Nat
  <2>1. \A x \in Nat : 2 * x \in Nat
    OBVIOUS
  <2> HIDE DEF n
  <2>2. n \in Nat
    BY <1>2 DEF n
  <2>3. m \in Nat
    BY <1>2, <2>1
  <2> HIDE DEF m
  <2> QED
    BY <2>2, <2>3
<1>5. Chunk(c) \in Nat /\ Chunk(c) <= k
  <2>1. Chunk(c) = Smaller(ChunkSize, k)
    BY DEF Chunk
  <2>2. k \in Nat /\ ChunkSize \in Nat
    BY <1>2, ServerAssumption
  <2> HIDE DEF k
  <2> QED
    BY <2>1, <2>2 DEF Smaller
<1>6. Counts(codec[c], m) /\ Counts(wire[c], m + n)
  BY <1>3
<1> HIDE DEF m
<1>7. /\ First(wire[c], Chunk(c)) \in Seq(Nat) /\ Len(First(wire[c], Chunk(c))) = Chunk(c)
      /\ Counts(First(wire[c], Chunk(c)), m + n)
  BY <1>2, <1>4, <1>5, <1>6, CountsFirst
<1>8. /\ Arrived(c) \in Seq(Nat) /\ Len(Arrived(c)) = Len(codec[c]) + Len(First(wire[c], Chunk(c)))
      /\ Counts(Arrived(c), m)
  BY <1>2, <1>4, <1>6, <1>7, CountsJoin DEF Arrived
<1> QED
  BY <1>5, <1>7, <1>8 DEF m

\* Only a malformed request of the client makes ExtractRequests throw.
LEMMA ThrowsMalformed ==
  ASSUME IInv, StreamInv, NEW c \in Client, conn[c] # "closed", Throws(c, Arrived(c))
  PROVE  Says(c, "malformed")
<1>1. Stream(c) /\ StreamTypes
  BY DEF StreamInv
<1>2. PICK i \in 1 .. Len(Arrived(c)) : script[c][(Arrived(c)[i] + 1) \div 2] = "malformed"
  BY DEF Throws
<1> DEFINE e == Len(executed[c])
           n == Len(codec[c])
           k == Len(wire[c])
           l == Len(script[c])
<1>3. e \in Nat /\ n \in Nat /\ k \in Nat /\ l \in Nat
  BY <1>1, StreamParts
<1>4. 2 * e + n + k = sent[c] /\ sent[c] <= 2 * l /\ sent[c] \in Nat
  BY <1>1, StreamParts DEF Stream, Unbroken, Sizes
<1>5. Arrived(c)[i] = 2 * e + i
  BY ArrivedCounts DEF Counts
<1>6. Len(Arrived(c)) = n + Chunk(c) /\ Chunk(c) \in Nat /\ Chunk(c) <= k
  BY ArrivedCounts
<1> HIDE DEF e, n, k, l
<1>7. i \in Nat /\ 1 <= i /\ i <= n + k
  BY <1>3, <1>6
<1>8. 2 * e + i <= 2 * l /\ 2 * e + i >= 1
  BY <1>3, <1>4, <1>7
<1>9. (2 * e + i + 1) \div 2 \in 1 .. l
  BY <1>3, <1>7, <1>8
<1> QED
  BY <1>2, <1>5, <1>9 DEF Says, l
\* A connection that has said QUIT is closed when its answers are in the socket.
LEMMA WrittenBye ==
  ASSUME IInv, StreamInv, NEW c \in Client, conn[c] # "closed", client[c] = "connected",
         CloseWritten(c)
  PROVE  Bye(c)'
<1>1. Stream(c) /\ StreamTypes
  BY DEF StreamInv
<1>2. /\ writeBuffer[c] = <<>> /\ closeAfterWrite[c] /\ CloseConnection(c)
      /\ UNCHANGED <<script, got>>
  BY DEF CloseWritten, CloseConnection, clientVars
<1> DEFINE e == Len(executed[c])
           n == Len(codec[c])
           k == Len(wire[c])
           l == Len(script[c])
           g == Len(got[c])
           r == Len(reply[c])
<1>3. e \in Nat /\ n \in Nat /\ k \in Nat /\ l \in Nat \ {0} /\ g \in Nat /\ r \in Nat
  BY <1>1, StreamParts
<1>4. 2 * e + n + k = sent[c] /\ sent[c] <= 2 * l /\ sent[c] \in Nat
  BY <1>1, StreamParts DEF Stream, Unbroken, Sizes
<1>5. g + r + Len(writeBuffer[c]) = e /\ Len(<<>>) = 0
  BY <1>1 DEF Stream, Unbroken
<1>6. g + r + 0 = e
  BY <1>2, <1>5
<1>7. PICK i \in 1 .. e : script[c][i] = "quit"
  BY <1>1, <1>2 DEF Stream, Reasons
<1> HIDE DEF e, n, k, l, g, r
<1>8. i \in 1 .. l
  BY <1>3, <1>4
<1>9. Says(c, "quit")' /\ Says(c, "quit")
  BY <1>2, <1>7, <1>8 DEF Says, l
<1>10. ASSUME \A j \in 1 .. l - 1 : script[c][j] # "quit"
       PROVE  Len(Answered(c))' = l
  <2>1. i = l
    BY <1>3, <1>7, <1>8, <1>10
  <2>2. e = l /\ k = 0
    BY <1>3, <1>4, <2>1
  <2>3. wire[c] = <<>>
    <3>1. wire[c] \in Seq(Nat) /\ Len(wire[c]) = 0
      BY <1>1, <2>2, StreamParts DEF k
    <3> QED
      BY <3>1
  <2>4. reply' = reply
    <3>1. \E x \in {reply[c]} : reply' = [reply EXCEPT ![c] = x]
      BY <1>2, <2>3 DEF CloseConnection, Delivered
    <3> QED
      BY <1>1, <3>1 DEF StreamTypes
  <2>5. Answered(c)' = Answered(c)
    BY <1>2, <2>4 DEF Answered
  <2>6. Len(Answered(c)) = g + r
    <3>1. got[c] \in Seq(Nat) /\ reply[c] \in Seq(Nat)
      BY <1>1, StreamParts
    <3> QED
      BY <3>1 DEF Answered, g, r
  <2> QED
    BY <1>3, <1>6, <2>2, <2>5, <2>6
<1> QED
  BY <1>2, <1>9, <1>10 DEF Bye, l

\* Every way the loop closes a connection has its reason.
LEMMA ClosingStream ==
  ASSUME IInv, StreamInv, NEW c \in Client,
         HangUp(c) \/ ReadEnds(c) \/ WriteFails(c) \/ CloseWritten(c)
  PROVE  Stream(c)'
<1>1. Stream(c) /\ Connection(c) /\ CloseConnection(c)
  BY DEF StreamInv, IInv, HangUp, ReadEnds, WriteFails, CloseWritten
<1>2. conn[c] = "open"
  BY <1>1 DEF Connection, Handled, HangUp, ReadEnds, WriteFails, CloseWritten
<1>3. ASSUME client[c] = "connected"
      PROVE  Bye(c)'
  <2>1. CASE HangUp(c) \/ WriteFails(c)
    BY <1>1, <1>3, <2>1 DEF HangUp, WriteFails, Stream, Reasons
  <2>2. CASE ReadEnds(c)
    <3>1. Says(c, "malformed")
      BY <1>2, <1>3, <2>2, ThrowsMalformed DEF ReadEnds
    <3> QED
      BY <1>1, <3>1 DEF CloseConnection, clientVars, Bye, Says
  <2>3. CASE CloseWritten(c)
    BY <1>2, <1>3, <2>3, WrittenBye
  <2> QED
    BY <2>1, <2>2, <2>3
<1> QED
  BY <1>1, <1>3, CloseStream

\* A read takes pieces from the socket, and what is decoded of them is executed
\* and answered in order.
LEMMA ReadStream ==
  ASSUME IInv, StreamInv, NEW c \in Client, Read(c)
  PROVE  Stream(c)'
<1>1. Stream(c) /\ StreamTypes /\ Connection(c)
  BY DEF StreamInv, IInv
<1>2. conn[c] # "closed"
  BY <1>1 DEF Connection, Handled, Read
<1> DEFINE a == Arrived(c)
           q == Requests(a)
<1>3. /\ wire'[c] = From(wire[c], Chunk(c) + 1) /\ codec'[c] = Rest(a)
      /\ executed'[c] = executed[c] \o q /\ writeBuffer'[c] = writeBuffer[c] \o q
      /\ closeAfterWrite'[c] =
           (closeAfterWrite[c] \/ \E i \in 1 .. Len(q) : script[c][q[i]] = "quit")
      /\ UNCHANGED <<script, client, sent, got, reply, conn, pc, events>>
  BY <1>1 DEF Read, clientVars, IInv, Types, StreamTypes
<1>4. /\ codec[c] \in Seq(Nat) /\ wire[c] \in Seq(Nat) /\ executed[c] \in Seq(Nat)
      /\ writeBuffer[c] \in Seq(Nat)
  BY <1>1, StreamParts
<1> DEFINE e == Len(executed[c])
           n == Len(codec[c])
           k == Len(wire[c])
           w == Len(writeBuffer[c])
           g == Len(got[c])
           r == Len(reply[c])
           x == Chunk(c)
<1>5. e \in Nat /\ n \in Nat /\ k \in Nat /\ w \in Nat /\ g \in Nat /\ r \in Nat
  BY <1>1, StreamParts
<1>6. /\ Counts(executed[c], 0) /\ Counts(wire[c], 2 * e + n)
      /\ client[c] # "left" => Counts(writeBuffer[c], g + r)
  BY <1>1, <1>2 DEF Stream, Answers, Unbroken
<1>7. /\ 2 * e + n + k = sent[c] /\ sent[c] <= 2 * Len(script[c])
      /\ client[c] # "left" => g + r + w = e
      /\ k <= RecvSize /\ g + r <= e
  BY <1>1, <1>2 DEF Stream, Answers, Unbroken, Sizes
<1>8. a \in Seq(Nat) /\ Counts(a, 2 * e)
  BY <1>2, ArrivedCounts
<1>9. Len(a) = n + x /\ x \in Nat /\ x <= k
  BY <1>2, ArrivedCounts
<1> HIDE DEF a, e, n, k, w, g, r, x
<1>10. /\ q \in Seq(Nat) /\ Counts(q, e) /\ Rest(a) \in Seq(Nat) /\ Counts(Rest(a), 2 * (e + Len(q)))
       /\ Len(q) \in Nat
  BY <1>5, <1>8, CountsRequests
<1>11. Len(Rest(a)) = Len(a) - 2 * Len(q) /\ Len(Rest(a)) <= 1
  BY <1>5, <1>8, CountsRequests
<1> DEFINE y == Len(q)
           z == Len(Rest(a))
<1>12. y \in Nat /\ z \in Nat /\ z = n + x - 2 * y /\ z <= 1
  <2> DEFINE l == Len(a)
  <2>1. z \in Nat
    BY <1>10
  <2> HIDE DEF z
  <2>2. y \in Nat /\ z = l - 2 * y /\ z <= 1
    BY <1>10, <1>11 DEF z
  <2> HIDE DEF y
  <2>3. l = n + x /\ n \in Nat /\ x \in Nat
    BY <1>5, <1>9
  <2> HIDE DEF l
  <2>4. z = n + x - 2 * y
    BY <2>1, <2>2, <2>3
  <2> QED
    BY <2>1, <2>2, <2>4
<1>13. Counts(q, e) /\ Counts(Rest(a), 2 * (e + y))
  BY <1>10
<1> HIDE DEF q, y, z
<1>14. Len(executed'[c]) = e + y /\ Counts(executed'[c], 0)
  <2>1. Counts(q, 0 + Len(executed[c])) /\ 0 \in Nat
    BY <1>5, <1>13 DEF e
  <2> QED
    BY <1>3, <1>4, <1>6, <1>10, <2>1, CountsJoin DEF e, y
<1>15. Len(codec'[c]) = z /\ Counts(codec'[c], 2 * Len(executed'[c]))
  BY <1>3, <1>13, <1>14 DEF z
<1>16. Len(wire'[c]) = k - x /\ Counts(wire'[c], 2 * e + n + x)
  <2>1. 2 * e + n \in Nat
    BY <1>5
  <2> QED
    BY <1>3, <1>4, <1>6, <1>9, <2>1, CountsFrom DEF k, x
<1>17. 2 * (e + y) + z = 2 * e + n + x /\ 2 * (e + y) + z + (k - x) = sent[c]
  <2>1. x \in Nat /\ 2 * e + n + k = sent[c]
    BY <1>7, <1>9
  <2>2. 2 * (e + y) + z = 2 * e + n + x
    BY <1>5, <1>12, <2>1
  <2>3. 2 * (e + y) + z + (k - x) = 2 * e + n + k
    BY <1>5, <1>12, <2>1, <2>2
  <2> QED
    BY <2>1, <2>2, <2>3
<1>18. Sizes(c)'
  <2>0. RecvSize \in Nat /\ sent[c] \in Nat /\ k <= RecvSize
    BY <1>1, <1>7, StreamParts, ServerAssumption
  <2>1. 2 * (e + y) <= sent[c] /\ k - x <= RecvSize
    BY <1>5, <1>9, <1>12, <1>17, <2>0
  <2> QED
    BY <1>1, <1>3, <1>7, <1>12, <1>14, <1>15, <1>16, <2>1 DEF Stream, Sizes
<1>19. Answers(c)'
  <2>1. g + r <= e + y
    BY <1>5, <1>7, <1>12
  <2> QED
    BY <1>1, <1>3, <1>14, <2>1 DEF Stream, Answers, g, r
<1>20. ASSUME client[c] # "left"
       PROVE  Counts(writeBuffer'[c], g + r) /\ g + r + Len(writeBuffer'[c]) = e + y
  <2>1. g + r \in Nat /\ g + r + w = e
    BY <1>5, <1>7, <1>20
  <2>2. Counts(writeBuffer[c], g + r) /\ Counts(q, (g + r) + Len(writeBuffer[c]))
    BY <1>6, <1>13, <1>20, <2>1 DEF w
  <2>3. Counts(writeBuffer'[c], g + r) /\ Len(writeBuffer'[c]) = w + y
    <3>1. q \in Seq(Nat)
      BY <1>10
    <3>2. /\ Counts(writeBuffer[c] \o q, g + r)
          /\ Len(writeBuffer[c] \o q) = Len(writeBuffer[c]) + Len(q)
      BY <1>4, <2>1, <2>2, <3>1, CountsJoin
    <3> QED
      BY <1>3, <3>2 DEF w, y
  <2>4. g + r + (w + y) = e + y
    BY <1>5, <1>12, <2>1
  <2> QED
    BY <2>3, <2>4
<1>21. Unbroken(c)'
  BY <1>3, <1>14, <1>15, <1>16, <1>17, <1>20 DEF Unbroken, g, r
<1>22. Reasons(c)'
  <2>1. ASSUME closeAfterWrite'[c]
        PROVE  \E i \in 1 .. Len(executed'[c]) : script[c][i] = "quit"
    <3>1. CASE closeAfterWrite[c]
      <4>1. PICK i \in 1 .. e : script[c][i] = "quit"
        BY <1>1, <3>1 DEF Stream, Reasons, e
      <4>2. i \in 1 .. e + y
        BY <1>5, <1>12
      <4> QED
        BY <1>14, <4>1, <4>2
    <3>2. CASE ~ closeAfterWrite[c]
      <4>1. PICK i \in 1 .. y : script[c][q[i]] = "quit"
        BY <1>3, <2>1, <3>2 DEF y
      <4>2. q[i] = e + i
        BY <1>13 DEF Counts, y
      <4>3. e + i \in 1 .. e + y
        BY <1>5, <1>12
      <4> QED
        BY <1>14, <4>1, <4>2, <4>3
    <3> QED
      BY <3>1, <3>2
  <2> QED
    BY <1>1, <1>2, <1>3, <2>1 DEF Stream, Reasons
<1> QED
  BY <1>18, <1>19, <1>21, <1>22 DEF Stream
\* A write moves answers from the buffer to the socket.
LEMMA WriteStream ==
  ASSUME IInv, StreamInv, NEW c \in Client, Write(c)
  PROVE  Stream(c)'
<1>1. Stream(c) /\ StreamTypes /\ Connection(c)
  BY DEF StreamInv, IInv
<1>2. conn[c] # "closed"
  BY <1>1 DEF Connection, Handled, Write
<1> DEFINE w == Len(writeBuffer[c])
           s == Space(c)
           n == Smaller(s, w)
           e == Len(executed[c])
           g == Len(got[c])
           r == Len(reply[c])
<1>3. /\ n > 0 /\ writeBuffer'[c] = From(writeBuffer[c], n + 1)
      /\ reply'[c] = IF client[c] = "left" THEN reply[c] ELSE reply[c] \o First(writeBuffer[c], n)
      /\ UNCHANGED <<script, client, sent, got, wire, conn, codec, closeAfterWrite, executed,
                     pc, events>>
  BY <1>1 DEF Write, Unsent, clientVars, IInv, Types, StreamTypes
<1>4. /\ writeBuffer[c] \in Seq(Nat) /\ reply[c] \in Seq(Nat) /\ w \in Nat /\ e \in Nat /\ g \in Nat
      /\ r \in Nat
  BY <1>1, StreamParts
<1>5. s = SendSize - r /\ r <= SendSize /\ g + r <= e
  BY <1>1 DEF Space, Stream, Sizes, Answers
<1> HIDE DEF w, s, e, g, r
<1>6. n \in Nat /\ n <= w /\ n <= SendSize - r /\ SendSize \in Nat
  BY <1>4, <1>5, ServerAssumption DEF Smaller
<1> HIDE DEF n
<1>7. CASE client[c] = "left"
  <2>1. reply'[c] = reply[c]
    BY <1>3, <1>7
  <2>2. Sizes(c)'
    BY <1>1, <1>3, <2>1 DEF Stream, Sizes
  <2>3. Answers(c)'
    BY <1>1, <1>3, <2>1 DEF Stream, Answers
  <2>4. Unbroken(c)'
    BY <1>1, <1>3, <1>7 DEF Stream, Unbroken
  <2>5. Reasons(c)'
    BY <1>1, <1>2, <1>3 DEF Stream, Reasons
  <2> QED
    BY <2>2, <2>3, <2>4, <2>5 DEF Stream
<1>8. CASE client[c] # "left"
  <2>1. Counts(writeBuffer[c], g + r) /\ Counts(reply[c], g)
    BY <1>1, <1>2, <1>8 DEF Stream, Unbroken, Answers, g, r
  <2>2. g + r + w = e
    BY <1>1, <1>2, <1>8 DEF Stream, Unbroken, g, r, w, e
  <2>3. g + r \in Nat /\ n <= Len(writeBuffer[c])
    BY <1>4, <1>6 DEF w
  <2>4. /\ First(writeBuffer[c], n) \in Seq(Nat) /\ Len(First(writeBuffer[c], n)) = n
        /\ Counts(First(writeBuffer[c], n), g + r)
    BY <1>4, <1>6, <2>1, <2>3, CountsFirst
  <2>5. Len(writeBuffer'[c]) = w - n /\ Counts(writeBuffer'[c], g + r + n)
    <3>1. n \in Nat
      BY <1>6
    <3>2. /\ Len(From(writeBuffer[c], n + 1)) = Len(writeBuffer[c]) - n
          /\ Counts(From(writeBuffer[c], n + 1), (g + r) + n)
      BY <1>4, <2>1, <2>3, <3>1, CountsFrom
    <3> QED
      BY <1>3, <3>2 DEF w
  <2>6. Len(reply'[c]) = r + n /\ Counts(reply'[c], g)
    <3>1. reply'[c] = reply[c] \o First(writeBuffer[c], n)
      BY <1>3, <1>8
    <3>2. Counts(First(writeBuffer[c], n), g + Len(reply[c]))
      BY <2>4 DEF r
    <3>3. /\ Counts(reply[c] \o First(writeBuffer[c], n), g)
          /\ Len(reply[c] \o First(writeBuffer[c], n))
               = Len(reply[c]) + Len(First(writeBuffer[c], n))
      BY <1>4, <2>1, <2>4, <3>2, CountsJoin
    <3> QED
      BY <2>4, <3>1, <3>3 DEF r
  <2>7. r + n <= SendSize /\ g + (r + n) <= e /\ g + (r + n) = g + r + n
        /\ g + (r + n) + (w - n) = e
    BY <1>4, <1>6, <2>2
  <2>8. Sizes(c)'
    BY <1>1, <1>3, <2>6, <2>7 DEF Stream, Sizes
  <2>9. Answers(c)'
    BY <1>1, <1>3, <2>6, <2>7 DEF Stream, Answers, g, e
  <2>10. Unbroken(c)'
    <3>1. /\ Counts(codec[c], 2 * Len(executed[c]))
          /\ Counts(wire[c], 2 * Len(executed[c]) + Len(codec[c]))
          /\ 2 * Len(executed[c]) + Len(codec[c]) + Len(wire[c]) = sent[c]
      BY <1>1, <1>2 DEF Stream, Unbroken
    <3>2. Counts(writeBuffer'[c], Len(got[c]) + Len(reply'[c]))
      BY <2>5, <2>6, <2>7 DEF g
    <3>3. Len(got[c]) + Len(reply'[c]) + Len(writeBuffer'[c]) = Len(executed[c])
      BY <2>5, <2>6, <2>7 DEF g, e
    <3> QED
      BY <1>3, <3>1, <3>2, <3>3 DEF Unbroken
  <2>11. Reasons(c)'
    BY <1>1, <1>2, <1>3 DEF Stream, Reasons
  <2> QED
    BY <2>8, <2>9, <2>10, <2>11 DEF Stream
<1> QED
  BY <1>7, <1>8

-----------------------------------------------------------------------------
(* All steps.                                                               *)

\* A step of the loop between connections.
LEMMA LoopStream ==
  ASSUME IInv, StreamInv, Loop("stopped") => Loop("stopped")',
         Wait \/ EndBatch \/ BeginAccept \/ EndAccept, NEW c \in Client
  PROVE  Stream(c)'
<1>1. Stream(c) /\ Connection(c)
  BY DEF StreamInv, IInv
<1>2. UNCHANGED <<script, client, sent, got, wire, reply, conn, codec, writeBuffer, closeAfterWrite,
                  executed>>
  BY DEF Wait, EndBatch, BeginAccept, EndAccept, clientVars, connVars
<1>3. "hup" \in events'[c] => client[c] = "left"
  <2>1. CASE Wait
    BY <2>1 DEF Wait, Ready
  <2>2. CASE EndBatch \/ BeginAccept \/ EndAccept
    BY <1>1, <2>2 DEF EndBatch, BeginAccept, EndAccept, Stream, Reasons
  <2> QED
    BY <2>1, <2>2
<1>4. client[c] = "new" => conn[c] # "closed"
  BY <1>1 DEF Connection
<1> QED
  BY <1>1, <1>2, <1>3, <1>4, Still

\* When the process ends its sockets deliver what they hold or less.
LEMMA StopStream ==
  ASSUME IInv, StreamInv, Stop, NEW c \in Client
  PROVE  Stream(c)'
<1>1. Stream(c) /\ Connection(c) /\ StreamTypes
  BY DEF StreamInv, IInv
<1>2. /\ UNCHANGED <<script, client, sent, got, executed>>
      /\ codec'[c] = <<>> /\ writeBuffer'[c] = <<>> /\ wire'[c] = <<>> /\ ~ closeAfterWrite'[c]
      /\ events'[c] = {} /\ Loop("stopped")'
  BY DEF Stop, clientVars, Everywhere, None, Loop
<1>3. conn'[c] = (IF conn[c] = "none" THEN "none" ELSE "closed") /\ reply'[c] \in Delivered(c)
  BY DEF Stop
<1>4. reply'[c] \in Seq(Nat) /\ Counts(reply'[c], Len(got[c]))
  BY <1>3, DeliveredFront
<1> DEFINE e == Len(executed[c])
           n == Len(codec[c])
           k == Len(wire[c])
           g == Len(got[c])
           r == Len(reply[c])
           t == Len(reply'[c])
<1>5. e \in Nat /\ n \in Nat /\ k \in Nat /\ g \in Nat /\ r \in Nat /\ t \in Nat
  BY <1>1, <1>4, StreamParts
<1>6. t <= r
  BY <1>3, DeliveredFront
<1>7. r <= SendSize /\ g + r <= e /\ SendSize \in Nat /\ RecvSize \in Nat
  BY <1>1, ServerAssumption DEF Stream, Sizes, Answers
<1>8. conn[c] = "none" => 2 * e + n + k = 0
  BY <1>1 DEF Stream, Sizes, Unbroken
<1>9. Len(<<>>) = 0 /\ \A x : Counts(<<>>, x)
  BY DEF Counts
<1> HIDE DEF e, n, k, g, r, t
<1>10. t <= SendSize /\ g + t <= e
  BY <1>5, <1>6, <1>7
<1>11. conn[c] = "none" => e = 0 /\ g + t = 0
  BY <1>5, <1>8, <1>10
<1>12. Sizes(c)'
  <2>1. Len(reply'[c]) <= SendSize
    BY <1>10 DEF t
  <2>2. 0 <= RecvSize
    BY <1>7
  <2> QED
    BY <1>1, <1>2, <1>3, <1>9, <2>1, <2>2 DEF Stream, Sizes
<1>13. Answers(c)'
  <2>1. Len(got[c]) + Len(reply'[c]) <= Len(executed[c])
    BY <1>10 DEF t, g, e
  <2> QED
    BY <1>1, <1>2, <1>4, <2>1 DEF Stream, Answers
<1>14. Unbroken(c)'
  <2>1. ASSUME conn[c] = "none"
        PROVE  /\ 2 * Len(executed[c]) + 0 + 0 = sent[c]
               /\ Len(got[c]) + Len(reply'[c]) + 0 = Len(executed[c])
    <3>1. sent[c] = 0
      BY <1>1, <2>1 DEF Stream, Sizes
    <3>2. 2 * e + 0 + 0 = 0 /\ g + t + 0 = e
      BY <1>11, <2>1
    <3> QED
      BY <3>1, <3>2 DEF e, g, t
  <2> QED
    BY <1>2, <1>3, <1>9, <2>1 DEF Unbroken
<1>15. Reasons(c)'
  BY <1>2 DEF Reasons
<1> QED
  BY <1>12, <1>13, <1>14, <1>15 DEF Stream
LEMMA TypesStream ==
  ASSUME IInv, StreamInv, [Next]_vars
  PROVE  StreamTypes'
<1>1. StreamTypes /\ Types
  BY DEF StreamInv, IInv
<1>2. CASE UNCHANGED vars
  BY <1>1, <1>2 DEF vars, clientVars, connVars, StreamTypes
<1>3. ASSUME NEW c \in Client, Connect(c) \/ Accept(c) \/ BeginRead(c) \/ BeginWrite(c)
                               \/ NoMoreInput(c) \/ Blocked(c) \/ WrittenOut(c) \/ Send(c)
      PROVE  StreamTypes'
  BY <1>1, <1>3 DEF Connect, Accept, BeginRead, BeginWrite, NoMoreInput, Blocked, WrittenOut, Send,
                    clientVars, connVars, StreamTypes
<1>4. CASE Wait \/ EndBatch \/ BeginAccept \/ EndAccept
  BY <1>1, <1>4 DEF Wait, EndBatch, BeginAccept, EndAccept, clientVars, connVars, StreamTypes
<1>5. ASSUME NEW c \in Client, Receive(c) \/ CloseSocket(c)
      PROVE  StreamTypes'
  <2>1. got[c] \in Seq(Nat) /\ reply[c] \in Seq(Nat)
    BY <1>1 DEF StreamTypes
  <2>2. CASE Receive(c)
    <3>1. Append(got[c], Head(reply[c])) \in Seq(Nat) /\ Tail(reply[c]) \in Seq(Nat)
      BY <2>1, <2>2 DEF Receive
    <3> QED
      BY <1>1, <2>2, <3>1 DEF Receive, connVars, StreamTypes
  <2>3. CASE CloseSocket(c)
    <3>1. <<>> \in Seq(Nat)
      OBVIOUS
    <3> QED
      BY <1>1, <2>3, <3>1 DEF CloseSocket, connVars, StreamTypes
  <2> QED
    BY <1>5, <2>2, <2>3
<1>6. ASSUME NEW c \in Client, CloseConnection(c)
      PROVE  StreamTypes'
  <2>1. PICK r \in Delivered(c) : reply' = [reply EXCEPT ![c] = r]
    BY <1>6 DEF CloseConnection
  <2>2. r \in Seq(Nat)
    BY DeliveredFront
  <2> QED
    BY <1>1, <1>6, <2>1, <2>2 DEF CloseConnection, clientVars, StreamTypes
<1>7. ASSUME NEW c \in Client, Read(c)
      PROVE  StreamTypes'
  <2>1. executed[c] \in Seq(Nat)
    BY <1>1 DEF StreamTypes
  <2>2. conn[c] # "closed"
    BY <1>7 DEF IInv, Connection, Handled, Read
  <2>3. Requests(Arrived(c)) \in Seq(Nat)
    BY <2>2, ArrivedCounts, Pieces
  <2>4. executed[c] \o Requests(Arrived(c)) \in Seq(Nat)
    BY <2>1, <2>3
  <2>5. /\ executed' = [executed EXCEPT ![c] = @ \o Requests(Arrived(c))]
        /\ \E b \in BOOLEAN : closeAfterWrite' = [closeAfterWrite EXCEPT ![c] = b]
        /\ UNCHANGED <<script, got, reply, accepting>>
    <3>1. (closeAfterWrite[c] \/ \E i \in 1 .. Len(Requests(Arrived(c))) :
              script[c][Requests(Arrived(c))[i]] = "quit") \in BOOLEAN
      BY <1>1 DEF StreamTypes
    <3> QED
      BY <1>7, <3>1 DEF Read, clientVars
  <2> QED
    BY <1>1, <2>4, <2>5 DEF StreamTypes
<1>8. ASSUME NEW c \in Client, Write(c)
      PROVE  StreamTypes'
  <2> DEFINE w == Len(writeBuffer[c])
             s == Space(c)
             n == Smaller(s, w)
  <2>1. /\ reply' = [reply EXCEPT ![c] = IF client[c] = "left" THEN @
                                         ELSE @ \o First(writeBuffer[c], n)]
        /\ n > 0 /\ UNCHANGED <<script, got, executed, closeAfterWrite, accepting>>
    BY <1>8 DEF Write, clientVars
  <2>2. reply[c] \in Seq(Nat) /\ writeBuffer[c] \in Seq(Nat) /\ w \in Nat
    BY <1>1, StreamParts
  <2>3. s \in Int
    <3>1. Len(reply[c]) \in Nat /\ SendSize \in Nat
      BY <2>2, ServerAssumption
    <3> QED
      BY <3>1 DEF Space
  <2> HIDE DEF w, s
  <2>4. n \in Int /\ n >= 0 /\ n <= w
    BY <2>1, <2>2, <2>3 DEF Smaller
  <2> HIDE DEF n
  <2>5. First(writeBuffer[c], n) \in Seq(Nat)
    BY <2>2, <2>4, Pieces DEF w
  <2>6. reply[c] \o First(writeBuffer[c], n) \in Seq(Nat)
    BY <2>2, <2>5
  <2> QED
    BY <1>1, <2>1, <2>6 DEF StreamTypes
<1>9. CASE Stop
  <2>1. \A c \in Client : reply'[c] \in Seq(Nat)
    BY <1>9, DeliveredFront DEF Stop
  <2>2. DOMAIN reply' = Client /\ reply' = [c \in Client |-> reply'[c]]
    BY <1>9 DEF Stop
  <2>3. reply' \in [Client -> Seq(Nat)]
    BY <2>1, <2>2
  <2> QED
    BY <1>1, <1>9, <2>3 DEF Stop, Everywhere, clientVars, StreamTypes
<1>10. ASSUME NEW c \in Client, Handle(c)
       PROVE  StreamTypes'
  BY <1>3, <1>6, <1>7, <1>8, <1>10 DEF Handle, HangUp, ReadEnds, WriteFails, CloseWritten
<1>11. ASSUME NEW c \in Client, ClientStep(c) \/ GiveUp(c)
       PROVE  StreamTypes'
  BY <1>3, <1>5, <1>11 DEF ClientStep, Finish, GiveUp
<1> QED
  BY <1>2, <1>3, <1>4, <1>9, <1>10, <1>11 DEF Next, Run

LEMMA NextStream == IInv /\ StreamInv /\ [Next]_vars => StreamInv'
<1> SUFFICES ASSUME IInv, StreamInv, [Next]_vars PROVE StreamInv'
  OBVIOUS
<1>1. StreamTypes'
  BY TypesStream
<1>2. Loop("stopped") => Loop("stopped")'
  BY StaysStopped
<1>3. ASSUME NEW d \in Client
      PROVE  Stream(d)'
  <2>1. CASE UNCHANGED vars
    <3>1. Stream(d)
      BY <1>3 DEF StreamInv
    <3> QED
      BY <2>1, <3>1 DEF vars, clientVars, connVars, Stream, Sizes, Answers, Unbroken, Reasons, Bye,
                        Says, Answered, Loop
  <2>2. CASE Wait \/ EndBatch \/ BeginAccept \/ EndAccept
    BY <1>2, <2>2, LoopStream
  <2>3. CASE Stop
    BY <2>3, StopStream
  <2>4. ASSUME NEW c \in Client, Connect(c) \/ ClientStep(c) \/ GiveUp(c) \/ Accept(c) \/ Handle(c)
        PROVE  Stream(d)'
    <3>1. CASE c # d
      BY <1>2, <2>4, <3>1, OthersStill
    <3>2. CASE c = d
      <4>1. CASE \/ Connect(d) \/ Accept(d) \/ BeginRead(d) \/ BeginWrite(d) \/ NoMoreInput(d)
                 \/ Blocked(d) \/ WrittenOut(d)
        BY <1>2, <4>1, QuietStream
      <4>2. CASE ClientStep(d) \/ GiveUp(d)
        BY <4>2, SendStream, ReceiveStream, LeaveStream DEF ClientStep, Finish, GiveUp
      <4>3. CASE HangUp(d) \/ ReadEnds(d) \/ WriteFails(d) \/ CloseWritten(d)
        BY <4>3, ClosingStream
      <4>4. CASE Read(d)
        BY <4>4, ReadStream
      <4>5. CASE Write(d)
        BY <4>5, WriteStream
      <4> QED
        BY <2>4, <3>2, <4>1, <4>2, <4>3, <4>4, <4>5 DEF Handle
    <3> QED
      BY <3>1, <3>2
  <2> QED
    BY <2>1, <2>2, <2>3, <2>4 DEF Next, Run
<1> QED
  BY <1>1, <1>3 DEF StreamInv

\* The loop and its streams, in every reachable state.
LEMMA LoopAndStreams == Spec => [](IInv /\ StreamInv)
<1>1. Init => IInv /\ StreamInv
  BY InitIInv, InitStream
<1>2. IInv /\ StreamInv /\ [Next]_vars => (IInv /\ StreamInv)'
  BY NextIInv, NextStream
<1> QED
  BY <1>1, <1>2, PTL DEF Spec

\* For any clients, requests and sizes, every variable of the loop has its type,
\* no socket is overfilled and no complete request waits in a codec
\* (Server.cpp ReadFromConnection, Protocol.cpp ExtractRequests).
THEOREM ServerTypeCorrect == Spec => []TypeOK
<1>1. IInv /\ StreamInv => TypeOK
  <2> SUFFICES ASSUME IInv, StreamInv PROVE TypeOK
    OBVIOUS
  <2>1. Types /\ StreamTypes
    BY DEF IInv, StreamInv
  <2>2. ASSUME NEW c \in Client
        PROVE  /\ wire[c] \in Seq(Nat) /\ Len(wire[c]) <= RecvSize
               /\ reply[c] \in Seq(Nat) /\ Len(reply[c]) <= SendSize
               /\ codec[c] \in Seq(Nat) /\ Len(codec[c]) <= 1
    BY <2>1, StreamParts DEF StreamInv, Stream, Sizes
  <2> QED
    BY <2>1, <2>2 DEF Types, StreamTypes, TypeOK
<1> QED
  BY <1>1, LoopAndStreams, PTL

\* Numbers in order that are fewer are a prefix.
LEMMA CountsPrefix ==
  ASSUME NEW s \in Seq(Nat), NEW t \in Seq(Nat), Counts(s, 0), Counts(t, 0), Len(s) <= Len(t)
  PROVE  IsPrefixOf(s, t)
<1>1. Len(s) \in Nat /\ 0 \in Nat
  OBVIOUS
<1>2. /\ First(t, Len(s)) \in Seq(Nat) /\ Len(First(t, Len(s))) = Len(s)
      /\ Counts(First(t, Len(s)), 0)
  BY <1>1, CountsFirst
<1>3. s = First(t, Len(s))
  BY <1>1, <1>2, CountsSame
<1> QED
  BY <1>3 DEF IsPrefixOf

\* For any clients, requests and sizes, and however the streams are cut, every
\* request is executed once and in order, answers come in that order, and none is
\* missing on an open connection (Server.cpp ReadFromConnection and
\* WriteToConnection).
THEOREM RequestsInOrderHolds == Spec => []RequestsInOrder
<1>1. IInv /\ StreamInv => RequestsInOrder
  <2> SUFFICES ASSUME IInv, StreamInv, NEW c \in Client
               PROVE  /\ \A i \in 1 .. Len(executed[c]) : executed[c][i] = i
                      /\ IsPrefixOf(Answered(c), executed[c])
                      /\ conn[c] = "open" =>
                           /\ 2 * Len(executed[c]) + Len(Unused(c)) = sent[c]
                           /\ \A i \in 1 .. Len(Unused(c)) :
                                Unused(c)[i] = 2 * Len(executed[c]) + i
                           /\ client[c] = "connected" => Answered(c) \o writeBuffer[c] = executed[c]
    BY DEF RequestsInOrder
  <2>1. Stream(c) /\ StreamTypes
    BY DEF StreamInv
  <2>2. /\ got[c] \in Seq(Nat) /\ reply[c] \in Seq(Nat) /\ executed[c] \in Seq(Nat)
        /\ codec[c] \in Seq(Nat) /\ wire[c] \in Seq(Nat) /\ writeBuffer[c] \in Seq(Nat)
    BY <2>1, StreamParts
  <2> DEFINE e == Len(executed[c])
             n == Len(codec[c])
             k == Len(wire[c])
             g == Len(got[c])
             r == Len(reply[c])
             w == Len(writeBuffer[c])
  <2>3. e \in Nat /\ n \in Nat /\ k \in Nat /\ g \in Nat /\ r \in Nat /\ w \in Nat
    BY <2>1, StreamParts
  <2>4. /\ Counts(executed[c], 0) /\ Counts(got[c], 0) /\ Counts(reply[c], g)
    BY <2>1 DEF Stream, Answers
  <2>5. g + r <= e
    BY <2>1 DEF Stream, Answers
  <2> HIDE DEF n, k, r, w
  <2>6. \A i \in 1 .. Len(executed[c]) : executed[c][i] = i
    <3>1. ASSUME NEW i \in 1 .. e
          PROVE  executed[c][i] = i
      <4>1. executed[c][i] = 0 + i
        BY <2>4 DEF Counts
      <4> HIDE DEF e
      <4> QED
        BY <2>3, <4>1
    <3> QED
      BY <3>1
  <2>7. Answered(c) \in Seq(Nat) /\ Len(Answered(c)) = g + r /\ Counts(Answered(c), 0)
    <3>1. 0 \in Nat /\ 0 + Len(got[c]) = g
      <4>1. \A x \in Nat : 0 + x = x
        OBVIOUS
      <4> QED
        BY <2>3, <4>1
    <3>2. Counts(reply[c], 0 + Len(got[c]))
      BY <2>4, <3>1
    <3> QED
      BY <2>2, <2>4, <3>1, <3>2, CountsJoin DEF Answered, r
  <2>8. IsPrefixOf(Answered(c), executed[c])
    BY <2>2, <2>4, <2>5, <2>7, CountsPrefix
  <2>9. ASSUME conn[c] = "open"
        PROVE  /\ 2 * Len(executed[c]) + Len(Unused(c)) = sent[c]
               /\ \A i \in 1 .. Len(Unused(c)) : Unused(c)[i] = 2 * Len(executed[c]) + i
    <3>1. Counts(codec[c], 2 * e) /\ Counts(wire[c], 2 * e + n)
      BY <2>1, <2>9 DEF Stream, Unbroken, n
    <3>2. 2 * e + n + k = sent[c]
      BY <2>1, <2>9 DEF Stream, Unbroken, n, k
    <3> HIDE DEF e
    <3>3. 2 * e \in Nat /\ 2 * e + (n + k) = 2 * e + n + k
      BY <2>3
    <3>4. Len(Unused(c)) = n + k /\ Counts(Unused(c), 2 * e)
      BY <2>2, <3>1, <3>3, CountsJoin DEF Unused, n, k
    <3> QED
      BY <3>2, <3>3, <3>4 DEF Counts, e
  <2>10. ASSUME conn[c] = "open", client[c] = "connected"
         PROVE  Answered(c) \o writeBuffer[c] = executed[c]
    <3>1. Counts(writeBuffer[c], g + r)
      BY <2>1, <2>10 DEF Stream, Unbroken, r
    <3>2. g + r + w = e
      BY <2>1, <2>10 DEF Stream, Unbroken, r, w
    <3> HIDE DEF g, e
    <3>3. 0 \in Nat /\ 0 + (g + r) = g + r
      BY <2>3
    <3>4. Counts(writeBuffer[c], 0 + Len(Answered(c)))
      BY <2>7, <3>1, <3>3
    <3>5. /\ Answered(c) \o writeBuffer[c] \in Seq(Nat)
          /\ Len(Answered(c) \o writeBuffer[c]) = (g + r) + w
          /\ Counts(Answered(c) \o writeBuffer[c], 0)
      <4>1. Answered(c) \in Seq(Nat) /\ Counts(Answered(c), 0)
        BY <2>7
      <4>2. /\ Answered(c) \o writeBuffer[c] \in Seq(Nat)
            /\ Len(Answered(c) \o writeBuffer[c]) = Len(Answered(c)) + Len(writeBuffer[c])
            /\ Counts(Answered(c) \o writeBuffer[c], 0)
        BY <2>2, <3>3, <3>4, <4>1, CountsJoin
      <4> QED
        BY <2>7, <4>2 DEF w
    <3>6. Len(Answered(c) \o writeBuffer[c]) = Len(executed[c])
      BY <3>2, <3>5 DEF e
    <3> QED
      BY <2>2, <2>4, <3>3, <3>5, <3>6, CountsSame
  <2> QED
    BY <2>6, <2>8, <2>9, <2>10
<1> QED
  BY <1>1, LoopAndStreams, PTL

\* For any clients, requests and sizes, a running server closes the connection of
\* a client that stays only after a malformed request or QUIT, and says BYE to one
\* that ends with QUIT (Server.cpp CloseConnection and close_after_write).
THEOREM ByeIsSaidHolds == Spec => []ByeIsSaid
<1>1. IInv /\ StreamInv => ByeIsSaid
  BY DEF StreamInv, Stream, Reasons, ByeIsSaid, Bye
<1> QED
  BY <1>1, LoopAndStreams, PTL

=============================================================================

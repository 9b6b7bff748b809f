------------------------------ MODULE Sessions ------------------------------
(***************************************************************************)
(* The programs together: clients at their terminals and benchmark         *)
(* clients, connections, the server's one thread with its commands, the    *)
(* abstract engine, and the stops and restarts of the server.              *)
(*                                                                         *)
(* What module Server shows is used here: the requests of a connection are *)
(* executed in order and answered in order.  Buffers, events and partial   *)
(* reads and writes are left to it; a request is whole or malformed.       *)
(***************************************************************************)
EXTENDS CommandProcessor, SequencesExt

CONSTANTS
  Client, Kind,  \* each client is a "shell", a "raw" shell or a "bench"mark
  Nobody,
  Typed,         \* what users type: batches of requests, for each client
  Keys, Depth,   \* the keys of each benchmark client, and its pipeline depth
  Junk,          \* bytes that are not a request
  Bounds         \* bound: how many batches each client may send and how often
                 \* the server may stop, one of these

ASSUME SessionsAssumption ==
  /\ Kind \in [Client -> {"shell", "raw", "bench"}] /\ Nobody \notin Client
  /\ Depth \in Nat \ {0} /\ Bounds \subseteq [batches : [Client -> Nat], stops : Nat]
  /\ \A c \in Client : Kind[c] = "bench" =>
       /\ Keys[c] \in Seq(Key) /\ Keys[c] # <<>> /\ Value \ TwoLines # {}
       /\ \A i, j \in DOMAIN Keys[c] : Keys[c][i] = Keys[c][j] => i = j

VARIABLES
  client,   \* each client process
  link,     \* its connection: "none", "open", "quitting" (close_after_write),
            \* "closed" by the server, or "gone" with the client
  inbox,    \* requests on their way to the server
  outbox,   \* lines on their way to the client, those in its LineReader included
  serving,  \* whose request the server is in the middle of
  left,     \* batches that each client may still send
  stops     \* how often the server may still stop

connVars == <<link, inbox, outbox, serving>>
vars     == <<engineVars, logged, client, connVars, left, stops>>

-----------------------------------------------------------------------------
(* The benchmark's phases.                                                  *)

BenchValue == CHOOSE v \in Value \ TwoLines : TRUE

Script(c) ==
  LET keys    == Keys[c]
      EachKey == DOMAIN keys
  IN [i \in EachKey |-> <<"PING">>]
       \o [i \in EachKey |-> <<"PUT", keys[i], BenchValue>>]
       \o [i \in EachKey |-> <<"GET", keys[i]>>]
       \o [i \in EachKey |-> <<"SCAN", keys[1], keys[Len(keys)]>>]
       \o [i \in EachKey |-> <<"DEL", keys[i]>>]
       \o << <<"QUIT">> >>

Expected(request) ==
  CASE Command(request) = "PING" -> {"PONG"}
    [] Command(request) = "PUT"  -> {"OK PUT", "OK UPDATE"}
    [] Command(request) = "GET"  -> {"VALUE"}
    [] Command(request) = "SCAN" -> {"RESULT"}
    [] Command(request) = "DEL"  -> {"OK DELETE"}
    [] OTHER                     -> {"BYE"}

-----------------------------------------------------------------------------
Off == [mode |-> "off",  \* "prompt", "waiting" for a line, "failed", or no process
        sent |-> 0,      \* requests sent
        asked |-> <<>>,  \* those of the last batch that wait for a line
        exact |-> TRUE]  \* a line for every request so far, and no more

Init ==
  /\ Engine!Init /\ logged = TRUE
  /\ client = [c \in Client |-> Off]
  /\ link = [c \in Client |-> "none"]
  /\ inbox = [c \in Client |-> <<>>] /\ outbox = [c \in Client |-> <<>>]
  /\ serving = Nobody
  /\ \E b \in Bounds : left = b.batches /\ stops = b.stops

Prefixed(s) == {SubSeq(s, 1, n) : n \in 0 .. Len(s)}

(* Clients.                                                                 *)

Connect(c) ==
  /\ client[c].mode = "off" /\ link[c] = "none" /\ running /\ left[c] > 0
  /\ client' = [client EXCEPT ![c] = [Off EXCEPT !.mode = "prompt"]]
  /\ link' = [link EXCEPT ![c] = "open"]
  /\ UNCHANGED <<engineVars, logged, inbox, outbox, serving, left, stops>>

\* The requests of the benchmark after the first n that one batch sends: of one
\* phase, as many as Depth.
NextBatch(c, n) ==
  LET SamePhase(i) == i <= Len(Script(c)) /\ Head(Script(c)[i]) = Head(Script(c)[n + 1])
  IN {SubSeq(Script(c), n + 1, last) : last \in
        {i \in n + 1 .. n + Depth : SamePhase(i) /\ (i < n + Depth => ~ SamePhase(i + 1))}}

\* What the client sends next, or what the user types.
Batches(c) == IF Kind[c] = "bench" THEN NextBatch(c, client[c].sent) ELSE Typed[c]

Submit(c) ==
  /\ client[c].mode = "prompt" /\ left[c] > 0
  /\ \E batch \in Batches(c) :
       /\ client' = [client EXCEPT ![c].mode = "waiting", ![c].asked = batch,
                                   ![c].sent = @ + Len(batch)]
       /\ inbox' = IF link[c] = "closed" THEN inbox
                   ELSE [inbox EXCEPT ![c] = @ \o
                     [i \in 1 .. Len(batch) |-> [id |-> client[c].sent + i, request |-> batch[i]]]]
  /\ left' = [left EXCEPT ![c] = @ - 1]
  /\ UNCHANGED <<engineVars, logged, link, outbox, serving, stops>>

\* Mutant: lines that were not read are there for the next connection.
StillThere(s) == s
LeftOver(s)   == <<>>

\* The process ends, and its socket is closed.
Gone(c, mode) ==
  /\ client' = [client EXCEPT ![c] = [Off EXCEPT !.mode = mode]]
  /\ link' = [link EXCEPT ![c] = IF @ = "closed" THEN "none" ELSE "gone"]
  /\ outbox' = [outbox EXCEPT ![c] = LeftOver(@)]
  /\ UNCHANGED <<engineVars, logged, inbox, serving, left, stops>>

\* The end of the input, an interactive PUT without key or value, an interrupt.
Leave(c) == client[c].mode \in {"prompt", "waiting"} /\ Gone(c, "off")

\* The spellings of QUIT that the client knows.
Quits(c) == Kind[c] = "shell" /\ Head(client[c].asked[1]) = "QUIT"
Done(c)  == Kind[c] = "bench" /\ client[c].asked = << <<"QUIT">> >>

\* Mutant: everything that has come is taken for one line.
AllLines(s) == <<>>
AfterLine(s) == Tail(s)

\* One line is read: the terminals then prompt again, the benchmark goes on to
\* the next request of the batch.
ReadLine(c) ==
  LET me   == client[c]
      line == Head(outbox[c])
      rest == IF Kind[c] = "bench" THEN Tail(me.asked) ELSE <<>>
  IN /\ me.mode = "waiting" /\ outbox[c] # <<>>
     /\ IF Kind[c] = "bench" /\ line.text[1] \notin Expected(Head(me.asked))
        THEN Gone(c, "failed")
        ELSE IF Quits(c) \/ Done(c) THEN Gone(c, "off")
        ELSE /\ client' = [client EXCEPT
                  ![c].mode = IF rest = <<>> THEN "prompt" ELSE "waiting",
                  ![c].asked = rest,
                  ![c].exact = @ /\ line.last /\ (Kind[c] = "raw" => Len(me.asked) = 1)]
             /\ outbox' = [outbox EXCEPT ![c] = AfterLine(@)]
             /\ UNCHANGED <<engineVars, logged, link, inbox, serving, left, stops>>

\* "server closed connection"
EndOfFile(c) ==
  /\ client[c].mode = "waiting" /\ outbox[c] = <<>> /\ link[c] = "closed"
  /\ Gone(c, "off")

-----------------------------------------------------------------------------
(* The server.                                                              *)

\* The lines of an answer to request n.
Lines(n, answer) ==
  [i \in 1 .. Len(answer) |->
     [of |-> n, first |-> i = 1, last |-> i = Len(answer), text |-> answer[i]]]

\* Mutant: an answer is put in front of those that are not written yet.
InFront(s, lines) == lines \o s
Behind(s, lines)  == s \o lines

\* The request at the head of the inbox is done.
Answers(c, answer) ==
  /\ inbox' = [inbox EXCEPT ![c] = Tail(@)]
  /\ outbox' = IF link[c] = "gone" THEN outbox
               ELSE [outbox EXCEPT ![c] = Behind(@, Lines(Head(inbox[c]).id, answer))]
  /\ link' = IF link[c] = "open" /\ Command(Head(inbox[c]).request) = "QUIT"
             THEN [link EXCEPT ![c] = "quitting"] ELSE link

\* The next request of a connection: its answer at once, or its first step.
Begin(c) ==
  LET request == Head(inbox[c]).request IN
  /\ running /\ serving = Nobody
  /\ link[c] \in {"open", "quitting", "gone"} /\ inbox[c] # <<>> /\ request # Junk
  /\ \/ /\ \E answer \in Reply(request) : Answers(c, answer)
        /\ UNCHANGED <<engineVars, serving>>
     \/ /\ IsWrite(request) /\ logged /\ LogWrite(request)
        /\ serving' = c /\ UNCHANGED <<link, inbox, outbox>>
     \/ /\ IsWrite(request) /\ ~ logged /\ ApplyUnlogged(request)
        /\ Answers(c, Outcome(Entry(request))) /\ UNCHANGED serving
     \/ /\ Is(request, "CHECKPOINT") /\ BeginCheckpoint
        /\ serving' = c /\ UNCHANGED <<link, inbox, outbox>>
  /\ UNCHANGED <<logged, client, left, stops>>

End(c) ==
  /\ serving = c
  /\ \/ \E w \in writing : ApplyWrite /\ Answers(c, Outcome(w))
     \/ writing = {} /\ \E answer \in {Plain("OK CHECKPOINT"), Plain("ERROR failed")} :
          EndCheckpoint(answer) /\ Answers(c, answer)
  /\ serving' = Nobody
  /\ UNCHANGED <<logged, client, left, stops>>

\* Answers that are not written yet are lost with the connection; a reset may
\* cost those that are not read yet.
Hangs(c) ==
  /\ inbox' = [inbox EXCEPT ![c] = <<>>]
  /\ link' = [link EXCEPT ![c] = IF @ = "gone" THEN "none" ELSE "closed"]
  /\ UNCHANGED <<engineVars, logged, client, serving, left, stops>>

\* A malformed request: the connection is closed.  The requests that the same read
\* brought in front of it have been decoded, and are thrown away unexecuted.
Refuse(c) ==
  /\ running /\ serving = Nobody /\ link[c] \in {"open", "quitting", "gone"}
  /\ \E i \in DOMAIN inbox[c] : inbox[c][i].request = Junk
  /\ \E s \in Prefixed(outbox[c]) : outbox' = [outbox EXCEPT ![c] = s]
  /\ Hangs(c)

\* Everything is written after QUIT, or the client's end is noticed: what it sent
\* before may have been executed, what is left is not.
Drop(c) ==
  /\ running /\ serving # c /\ link[c] \in {"quitting", "gone"}
  /\ \E s \in IF inbox[c] = <<>> THEN {outbox[c]} ELSE Prefixed(outbox[c]) :
       outbox' = [outbox EXCEPT ![c] = s]
  /\ Hangs(c)

-----------------------------------------------------------------------------
(* The process of the server.                                               *)

\* main: with a log, or with --no-wal.
StartServer(wal) ==
  /\ logged' = wal
  /\ \/ wal /\ Engine!Restart
     \/ ~ wal /\ ~ running /\ running' = TRUE /\ visible' = Engine!Empty
        /\ UNCHANGED <<kept, writing, damaged>>
  /\ UNCHANGED <<client, connVars, left, stops>>

\* The connections of a process that has ended.
AllHang ==
  /\ stops > 0 /\ stops' = stops - 1 /\ serving' = Nobody
  /\ inbox' = [c \in Client |-> <<>>]
  /\ link' = [c \in Client |-> IF link[c] \in {"gone", "none"} THEN "none" ELSE "closed"]
  /\ outbox' \in {f \in [Client -> UNION {Prefixed(outbox[c]) : c \in Client}] :
                    \A c \in Client : f[c] \in Prefixed(outbox[c])}
  /\ UNCHANGED <<logged, client, left>>

Unlogged == running /\ Engine!Stop /\ UNCHANGED <<kept, damaged>>

KillServer == AllHang /\ IF logged THEN Engine!Kill /\ Len(kept') = 1 ELSE Unlogged

\* A signal, between two batches of events.
StopServer ==
  AllHang /\ serving = Nobody /\ IF logged THEN Engine!Shutdown ELSE Unlogged

-----------------------------------------------------------------------------
ClientStep(c) == ReadLine(c) \/ EndOfFile(c)
ServerStep(c) == Begin(c) \/ End(c) \/ Refuse(c)

Next ==
  \/ \E c \in Client : Connect(c) \/ Submit(c) \/ Leave(c) \/ ClientStep(c) \/ ServerStep(c) \/ Drop(c)
  \/ \E wal \in BOOLEAN : StartServer(wal)
  \/ KillServer \/ StopServer

Spec == Init /\ [][Next]_vars

\* A read returns once there is something to read; the event loop comes round to
\* every connection with requests.
Fairness == \A c \in Client : WF_vars(ClientStep(c)) /\ WF_vars(ServerStep(c))

=============================================================================

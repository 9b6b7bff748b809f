---------------------------- MODULE ServerSafety ----------------------------
(* What the clients of the event loop may rely on.                          *)
EXTENDS Server

\* Every variable has its type, sockets hold what they can, and no complete
\* request stays in a codec's buffer.
TypeOK ==
  /\ \A c \in Client : script[c] \in Scripts[c]
  /\ client \in [Client -> {"new", "connected", "left"}]
  /\ sent \in [Client -> Nat] /\ got \in [Client -> Seq(Nat)]
  /\ \A c \in Client :
       /\ wire[c] \in Seq(Nat) /\ Len(wire[c]) <= RecvSize
       /\ reply[c] \in Seq(Nat) /\ Len(reply[c]) <= SendSize
       /\ codec[c] \in Seq(Nat) /\ Len(codec[c]) <= 1
  /\ conn \in [Client -> {"none", "backlog", "open", "closed"}]
  /\ writeBuffer \in [Client -> Seq(Nat)] /\ executed \in [Client -> Seq(Nat)]
  /\ closeAfterWrite \in [Client -> BOOLEAN] /\ interest \in [Client -> BOOLEAN]
  /\ pc \in {<<"wait">>, <<"batch">>, <<"accept">>, <<"stopped">>}
              \union ({"read", "write"} \X Client)
  /\ events \in [Client -> SUBSET {"in", "out", "hup"}]
  /\ accepting \in BOOLEAN

-----------------------------------------------------------------------------
IsPrefixOf(s, t) == Len(s) <= Len(t) /\ s = First(t, Len(s))

\* The pieces the server has yet to see or to use, in order, and the answers on
\* their way.
Unused(c)   == codec[c] \o wire[c]
Answered(c) == got[c] \o reply[c]

\* However the stream is cut into reads, every request is executed once and in
\* order, and whatever write() takes at a time, the answers that reach a client
\* are those of its requests in order, with none missing on an open connection
\* (Server.cpp ReadFromConnection and WriteToConnection, Protocol.cpp
\* ExtractRequests).
RequestsInOrder ==
  \A c \in Client :
    /\ \A i \in 1 .. Len(executed[c]) : executed[c][i] = i
    /\ IsPrefixOf(Answered(c), executed[c])
    /\ conn[c] = "open" =>
         /\ 2 * Len(executed[c]) + Len(Unused(c)) = sent[c]
         /\ \A i \in 1 .. Len(Unused(c)) : Unused(c)[i] = 2 * Len(executed[c]) + i
         /\ client[c] = "connected" => Answered(c) \o writeBuffer[c] = executed[c]

\* Between two handlers EPOLLOUT is asked for exactly when something waits to be
\* written: neither is an answer forgotten nor does the loop spin (Server.cpp
\* SetConnectionInterest).
InterestFollowsBuffer ==
  \A c \in Client :
    conn[c] = "open" /\ ~ At("read", c) /\ ~ At("write", c) =>
      (interest[c] <=> writeBuffer[c] # <<>>)

Says(c, kind) == \E i \in 1 .. Len(script[c]) : script[c][i] = kind

\* While the server runs it closes the connection of a client that stays only
\* after a malformed request or QUIT, and of one that sends nothing after its
\* first QUIT only when the answers and BYE have been written (comment of
\* Server.cpp:320).
ByeIsSaid ==
  \A c \in Client :
    conn[c] = "closed" /\ client[c] = "connected" /\ ~ Loop("stopped") =>
      \/ Says(c, "malformed")
      \/ /\ Says(c, "quit")
         /\ (\A i \in 1 .. Len(script[c]) - 1 : script[c][i] # "quit") =>
              Len(Answered(c)) = Len(script[c])

\* A client that pipelines more than its sockets hold still gets through: the
\* server keeps reading while its own writes are blocked (benchmark_main.cpp
\* run_phase against Server.cpp WriteToConnection).
ClientsGetThrough ==
  \A c \in Client : client[c] = "connected" ~> client[c] = "left"

=============================================================================

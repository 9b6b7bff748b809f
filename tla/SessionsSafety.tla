--------------------------- MODULE SessionsSafety ---------------------------
(* What users may rely on, across all the programs.                         *)
EXTENDS Sessions

CONSTANT Owner  \* the one client that writes a key

\* The arguments of a command are keys and values, and c writes what it owns.
Proper(c, request) ==
  /\ \A command \in {"GET", "PUT", "DEL", "SCAN"} : Is(request, command) => request[2] \in Key
  /\ Is(request, "PUT") => request[3] \in Value
  /\ Is(request, "SCAN") => request[3] \in Key
  /\ IsWrite(request) => Owner[request[2]] = c

\* A shell sends one request for each line that its user types; the keys of a
\* benchmark client begin with a prefix of its own.
ASSUME UsersAssumption ==
  /\ Owner \in [Key -> Client]
  /\ \A c \in Client :
       IF Kind[c] = "bench"
       THEN /\ \A i \in DOMAIN Keys[c] : Owner[Keys[c][i]] = c
            /\ \A k \in Key : Keys[c][1] <= k /\ k <= Keys[c][Len(Keys[c])] => Owner[k] = c
       ELSE \A batch \in Typed[c] :
              /\ batch \in Seq(Range(batch))
              /\ Kind[c] = "shell" => Len(batch) = 1
              /\ \A request \in Range(batch) \ {Junk} : Proper(c, request)

\* History: what the owner of a key may be told that it holds, namely what was
\* last confirmed and what was sent since.
VARIABLE owed

Held    == Value \union {Absent}
Asked(c) == Head(client[c].asked)

\* What a batch writes to a key.
Written(batch, k) ==
  {v \in Held : \E i \in 1 .. Len(batch) :
     batch[i] # Junk /\ IsWrite(batch[i]) /\ Entry(batch[i]) = <<k, v>>}

\* The line that a client is about to read answers the first request it waits for,
\* and the user can know.
Attributed(c) ==
  client[c].exact /\ client[c].asked # <<>> /\ Asked(c) # Junk
Confirms(c, k) ==
  /\ Attributed(c) /\ link[c] # "closed"
  /\ Kind[c] = "raw" => Len(client[c].asked) = 1
  /\ Written(<<Asked(c)>>, k) # {}

hvars == <<vars, owed>>
HInit == Init /\ owed = [k \in Key |-> {Absent}]

\* Without a log, or behind an incomplete record, a stop may undo anything.
HNext ==
  \/ \E c \in Client :
       \/ Submit(c) /\ owed' = [k \in Key |-> owed[k] \union Written(client'[c].asked, k)]
       \/ ReadLine(c) /\ owed' = [k \in Key |-> IF Confirms(c, k) THEN Written(<<Asked(c)>>, k)
                                                                  ELSE owed[k]]
       \/ (Connect(c) \/ Leave(c) \/ EndOfFile(c) \/ ServerStep(c) \/ Drop(c)) /\ UNCHANGED owed
  \/ \E wal \in BOOLEAN :
       /\ StartServer(wal)
       /\ owed' = IF wal THEN owed ELSE [k \in Key |-> owed[k] \union {Absent}]
  \/ /\ KillServer \/ StopServer
     /\ owed' = IF logged /\ ~ damaged THEN owed ELSE [k \in Key |-> Held]

FairHSpec == HInit /\ [][HNext]_hvars /\ Fairness

-----------------------------------------------------------------------------
\* Every variable has its type; an answer on its way belongs to a request that was
\* sent, and the server is only in the middle of a request that it still has.
TypeOK ==
  /\ \A k \in Key : owed[k] \subseteq Held /\ owed[k] # {}
  /\ \A c \in Client :
       /\ client[c].mode \in {"off", "prompt", "waiting", "failed"}
       /\ client[c].sent \in Nat /\ client[c].exact \in BOOLEAN
       /\ link[c] \in {"none", "open", "quitting", "closed", "gone"}
       /\ (client[c].mode \in {"off", "failed"} <=> link[c] \in {"none", "gone"})
       /\ \A i \in 1 .. Len(outbox[c]) : outbox[c][i].of \in 1 .. client[c].sent
       /\ left[c] \in Nat
  /\ serving # Nobody => running /\ inbox[serving] # <<>>
  /\ logged \in BOOLEAN /\ stops \in Nat

\* A line that is shown is the beginning of the answer to the request it is shown
\* for, until an answer with a value of several lines or a batch of none or
\* several requests has come before it (client_main.cpp ReadLine and main,
\* benchmark_main.cpp run_phase).
LinesBelong ==
  [][\A c \in Client : ReadLine(c) /\ client[c].exact /\ client[c].asked # <<>> =>
       /\ Head(outbox[c]).first
       /\ Head(outbox[c]).of = client[c].sent - Len(client[c].asked) + 1]_hvars

\* The owner of a key reads what was confirmed to it, or what it sent later,
\* whatever clients end and servers are killed, stopped and restarted in between,
\* unless the server was stopped with a damaged log or without one
\* (scripts/verify_wal_recovery.sh:54-65).
ReadsOwnWrites ==
  [][\A c \in Client, k \in Key :
       ReadLine(c) /\ Owner[k] = c /\ Attributed(c) /\ Asked(c) = <<"GET", k>> =>
         (IF Head(outbox[c]).text = <<"NOT_FOUND">> THEN Absent
          ELSE Head(outbox[c]).text[2]) \in owed[k]]_hvars

\* No benchmark client is ever answered what it does not expect, whatever the other
\* clients and earlier runs of it have done (benchmark_main.cpp expect_prefix).
BenchmarkSucceeds == \A c \in Client : client[c].mode # "failed"

\* A client that waits gets a line or the end of its connection, but for a raw one
\* with no request on its way, which the server owes nothing
\* (client_main.cpp main, Server.cpp ReadFromConnection).
WaitingEnds ==
  \A c \in Client :
    /\ client[c].mode = "waiting"
    /\ Kind[c] = "raw" => inbox[c] # <<>> \/ outbox[c] # <<>> \/ link[c] = "closed"
    ~> client[c].mode # "waiting"

=============================================================================

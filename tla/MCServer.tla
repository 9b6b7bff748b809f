------------------------------ MODULE MCServer ------------------------------
(* Small instances of the server.                                           *)
EXTENDS ServerSafety

CONSTANTS c1, c2

\* A client that pipelines four requests, or says QUIT at the end of three, next
\* to one that is well-behaved, goes on after QUIT, or sends nonsense.
TwoClients ==
  [c \in Client |->
     IF c = c1
     THEN {<<"command", "command", "command", "command">>, <<"command", "command", "quit">>}
     ELSE {<<"command">>, <<"quit", "command">>, <<"command", "malformed">>}]

=============================================================================

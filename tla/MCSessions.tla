----------------------------- MODULE MCSessions -----------------------------
(* A user at each kind of terminal, and the benchmark.                      *)
EXTENDS SessionsSafety

CONSTANTS shell, raw, bench, v1, v2

Kinds  == (shell :> "shell") @@ (raw :> "raw") @@ (bench :> "bench")
Owners == (1 :> shell) @@ (2 :> raw) @@ (3 :> bench) @@ (4 :> bench)
BenchKeys == bench :> <<3, 4>>
Bound(s, r, b, n) ==
  [batches |-> (shell :> s) @@ (raw :> r) @@ (bench :> b), stops |-> n]
SomeBounds ==
  {Bound(3, 0, 0, 2), Bound(2, 1, 0, 0), Bound(1, 1, 0, 1), Bound(0, 2, 0, 1), Bound(0, 3, 0, 0),
   Bound(0, 0, 9, 1), Bound(0, 1, 6, 0)}

Commands == { <<"PUT", 1, v1>>, <<"GET", 1>>, <<"DEL", 1>>, <<"GET", 2>>,
              <<"CHECKPOINT">>, <<"QUIT">>, <<"qUIT">>, <<"HELLO">> }
Raw == { <<>>, << <<"PUT", 2, v2>> >>, << <<"PUT", 2, Blank>>, <<>> >>,
         << <<"PUT", 2, v1>>, <<"QUIT", 2>>, <<"DEL", 2>> >>, << <<"GET", 2>>, Junk >>,
         << <<"PUT", 2, v1>>, Junk >>, << <<"DEL", 2>>, Junk >> }

TypedBatches == (shell :> {<<r>> : r \in Commands}) @@ (raw :> Raw) @@ (bench :> {})

=============================================================================

------------------------- MODULE SkipListRefinement -------------------------
(***************************************************************************)
(* The skip list, watched by a history variable, implements ConcurrentMap. *)
(***************************************************************************)
EXTENDS SkipListSafety

CONSTANT Absent   \* stands for no value

ASSUME AbsentAssumption == Absent \notin Value

\* History: what each key has held since the thread's call in progress began.
VARIABLE seen

\* The map the heap stands for.
Map ==
  [k \in Key |-> IF \E n \in Live : key[n] = k
                 THEN value[CHOOSE n \in Live : key[n] = k]
                 ELSE Absent]

Nothing == [k \in Key |-> {}]

HInit == Init /\ seen = [t \in Thread |-> Nothing]

HNext ==
  /\ Next
  /\ seen' = [t \in Thread |->
       IF th'[t].pc = "idle" THEN Nothing
       ELSE [k \in Key |-> seen[t][k] \union {Map'[k]}]]

hvars == <<vars, seen>>
HSpec == HInit /\ [][HNext]_hvars

\* A call has taken effect once its node is published or marked.
Phase(t) ==
  CASE th[t].pc = "idle" -> "idle"
    [] th[t].pc \in {"count", "raise", "unlink", "uncount", "recompute", "lower"} -> "done"
    [] OTHER -> "open"

ConcurrentCall ==
  [t \in Thread |-> [phase |-> Phase(t), request |-> th[t].request, ok |-> th[t].ok,
                     out |-> IF th[t].pc = "idle" THEN th[t].out ELSE <<>>]]

Abstract == INSTANCE ConcurrentMap WITH map <- Map, call <- ConcurrentCall

\* Every call behaves as a call of the abstract map: updates are atomic, reads
\* return what the key held during the call, listings are ordered and complete.
RefinesMap == Abstract!Spec

Returns(t, name) ==
  th[t].pc # "idle" /\ th[t].request.name = name /\ th'[t].pc = "idle"

\* tests/test_main.cpp:238 "concurrent get should find inserted key": Get does
\* not miss a key that was in the list during the whole call.
GetFindsPresentKey ==
  [][\A t \in Thread : Returns(t, "Get") /\ Absent \notin seen[t][th[t].request.key]
       => th'[t].ok]_hvars

=============================================================================

----------------------------- MODULE MCSkipList -----------------------------
(* Small instances of the skip list: keys 1 .. 3, two or three threads.     *)
EXTENDS SkipListSafety

CONSTANTS t1, t2

Puts(K, v) == [name : {"Put"}, key : K, value : {v}]
Deletes(K) == [name : {"Delete"}, key : K]
Gets(K)    == [name : {"Get"}, key : K]
Scans(S, E) == [name : {"Scan"}, key : S, end : E]
Walks      == [name : {"Snapshot"}]
Clears     == [name : {"Clear"}]

\* Two writers on the same keys while a third thread reads or clears.
WritersWork ==
  [t \in Thread |->
     CASE t = t1 -> <<Puts({1}, 10), Deletes({1})>>
       [] t = t2 -> <<Puts({1, 2}, 20)>>
       [] OTHER  -> <<Deletes({1, 2}) \union Gets({1, 2}) \union Scans({2}, {2})
                      \union Scans({2}, {1}) \union Walks \union Clears>>]

\* One thread removes key 4, behind key 3, while the other inserts keys 1 and 2
\* in front of it, updates, reads, lists or clears, and removes 2.
RemoversWork ==
  [t \in Thread |->
     IF t = t1 THEN <<Puts({3}, 10), Puts({4}, 10), Deletes({4})>>
     ELSE <<Puts({1}, 10),
            Puts({1, 2}, 10) \union Gets({4}) \union Walks \union Clears,
            Deletes({2})>>]

\* A reader of key 2 while key 1 is inserted in front of it.
ReadersWork ==
  [t \in Thread |-> IF t = t1 THEN <<Puts({2}, 10), Puts({1}, 10)>>
                             ELSE <<Gets({1, 2}) \union Scans({2}, {2})>>]

=============================================================================

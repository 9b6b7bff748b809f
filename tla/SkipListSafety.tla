--------------------------- MODULE SkipListSafety ---------------------------
(***************************************************************************)
(* What must hold of the skip list's heap in every state, whatever the     *)
(* threads are in the middle of.                                           *)
(***************************************************************************)
EXTENDS SkipList

\* Every field holds a value of its type.
Typed ==
  /\ key \in [Node -> Key] /\ value \in [Node -> Value] /\ top \in [Node -> Level]
  /\ forward \in [Node -> [Level -> NodeOrNull]]
  /\ marked \in [Node -> BOOLEAN] /\ linked \in [Node -> BOOLEAN]
  /\ mutex \in [Node -> Thread \union {NoThread}]
  /\ owned \subseteq Node \ {HeadNode}
  /\ currentLevel \in 1 .. MaxLevel
  /\ size \in Int
  /\ calls \in [Thread -> Nat]
  /\ th \in [Thread -> ThreadState]

\* The addresses a call's locals hold.
Pointers(me) ==
  {me.pred, me.node} \union me.toLock
    \union {me.preds[l] : l \in Level} \union {me.succs[l] : l \in Level}

\* Every field holds a value of its type, and no thread keeps the address of a node
\* that the list does not own: a removed node is not freed while a reader may stand
\* on it (the list keeps its nodes until Clear, SkipList.hpp:162).
TypeOK ==
  /\ Typed
  /\ \A t \in Thread : Pointers(th[t]) \subseteq owned \union {HeadNode, NoNode}

-----------------------------------------------------------------------------
\* The list as the code means it: fully linked and not logically deleted.
Live == {n \in owned : linked[n] /\ ~ marked[n]}

\* The nodes a traversal of level l meets.
OnLevel(l) ==
  LET nth[i \in 0 .. Cardinality(Node)] ==
        IF i = 0 THEN HeadNode
        ELSE IF nth[i - 1] = NoNode THEN NoNode ELSE forward[nth[i - 1]][l]
  IN {nth[i] : i \in 1 .. Cardinality(Node)} \ {NoNode}

\* Threads that are unlinking n.
Unlinking(n) == {t \in Thread : th[t].pc = "unlink" /\ th[t].node = n}

\* Every pointer of every node, removed and half-linked ones included, lies in
\* the node's forward vector and leads to an owned node at least that high with a
\* larger key: a reader standing on a removed node still moves forward through
\* valid memory and comes to an end.
Sorted ==
  \A n \in owned \union {HeadNode} : \A l \in Level :
    LET m == forward[n][l] IN
    m # NoNode => /\ l <= top[n]
                  /\ m \in owned /\ l <= top[m]
                  /\ n # HeadNode => key[n] < key[m]

\* n, on level l, may precede (follow) a node with key k.
Precedes(n, l, k) ==
  n \in owned \union {HeadNode} /\ l <= top[n] /\ (n # HeadNode => key[n] < k)
Follows(n, l, k)  == n # NoNode => n \in owned /\ l <= top[n] /\ k <= key[n]

\* What a search with locals me has recorded brackets its key.
Brackets(me) ==
  LET k == me.request.key IN
  me.pc \in {"find", "decide", "lock", "link", "unlink"} =>
    /\ me.pc = "find" => Precedes(me.pred, me.level, k)
    /\ \A l \in Level : Precedes(me.preds[l], l, k) /\ Follows(me.succs[l], l, k)
    /\ me.node = NoNode => \A l \in Level : me.succs[l] # NoNode => key[me.succs[l]] # k
    /\ me.node # NoNode => me.node \in owned /\ key[me.node] = k

\* However the list changes under a search, the nodes it has recorded still
\* bracket its key on every level, and a search that found no node with the
\* key has no such node among its successors.
SearchBracketsKey == \A t \in Thread : Brackets(th[t])

\* No completed insertion is lost: concurrent Puts and Deletes around a live node
\* never leave it off one of its levels.
LiveReachable == \A n \in Live : \A l \in 0 .. top[n] : n \in OnLevel(l)

\* Once its deletion is complete a node is on no level, so no later search
\* meets it from the head.
RemovedUnreachable ==
  \A n \in owned : marked[n] /\ Unlinking(n) = {} => \A l \in Level : n \notin OnLevel(l)

\* A node on a level is on every level below: inserted bottom up, removed top
\* down, so a search that descends never loses its place.
LevelsNested == \A l \in Level \ {0} : OnLevel(l) \subseteq OnLevel(l - 1)

\* Racing Puts of one key never create two live nodes with it.
OneLiveNodePerKey == \A m, n \in Live : key[m] = key[n] => m = n

\* size_ lags behind the list exactly by the calls that have published or
\* marked a node and not counted it yet, and fetch_sub never wraps below zero,
\* so Snapshot's reserve(size_) is bounded by the nodes that exist.
SizeExact ==
  LET ToCount   == {t \in Thread : th[t].pc = "count"}
      ToUncount == {t \in Thread : th[t].pc \in {"unlink", "uncount"}}
  IN /\ size = Cardinality(Live) - Cardinality(ToCount) + Cardinality(ToUncount)
     /\ size >= 0

\* A traversal that stands on nodes removed under it still returns strictly
\* ascending keys, each once.
OutputAscending ==
  \A t \in Thread : \A i \in 1 .. Len(th[t].out) - 1 :
    th[t].out[i][1] < th[t].out[i + 1][1]

\* A node once marked stays as it is until Clear frees it: it is not unmarked,
\* nothing is linked behind it, so no insertion vanishes with its predecessor, and
\* no Put takes it for the key's node and is lost with it (SkipList.hpp:53).
MarkedFrozen ==
  [][\A n \in owned \intersect owned' :
       marked[n] => marked'[n] /\ forward'[n] = forward[n] /\ value'[n] = value[n]]_vars

-----------------------------------------------------------------------------
\* current_level_ is below a level the head points into, and no insertion is
\* about to raise it: searches start too low to see that level.
LevelStale ==
  /\ \A t \in Thread : th[t].pc \notin {"link", "publish", "count", "raise"}
  /\ \E l \in Level : forward[HeadNode][l] # NoNode /\ currentLevel <= l

\* Every call returns, retries and lock waits included, unless Delete's
\* RecomputeCurrentLevel leaves current_level_ too low for good (the race of
\* SkipList.hpp:403 with RaiseCurrentLevel): nothing else makes a call hang.
CallsReturnUnlessLevelStale ==
  (\A t \in Thread : []<>(th[t].pc = "idle")) \/ <>[]LevelStale

\* tests/test_main.cpp:252 "concurrent delete should remove existing key": a
\* Delete comes to an end.
DeletesReturn ==
  \A t \in Thread :
    [](th[t].pc # "idle" /\ th[t].request.name = "Delete" => <>(th[t].pc = "idle"))

=============================================================================

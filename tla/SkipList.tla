------------------------------ MODULE SkipList ------------------------------
(***************************************************************************)
(* The concurrent skip list of include/kvstore/SkipList.hpp.               *)
(*                                                                         *)
(* Threads traverse the forward pointers without locks and lock the nodes  *)
(* they are about to change.  Every load or store of a shared atomic is a  *)
(* step of its own; a block that holds a mutex and touches only data that  *)
(* mutex protects is one step.  Atomics are sequentially consistent here   *)
(* (the code pairs acquire loads with release stores).                     *)
(***************************************************************************)
EXTENDS Integers, Sequences, FiniteSets

CONSTANTS
  Thread,    \* the threads that call the list
  NoThread,  \* owner of a free mutex
  Key,       \* keys, ordered by < as by std::less
  Value,     \* values
  MaxLevel,  \* max_level_
  Node,      \* addresses of nodes; bounds the nodes alive between two Clears
  HeadNode,      \* address of head_
  Work       \* Work[t][i] is the set of calls thread t may make as its i-th

NoNode  == 0                            \* nullptr
Level   == 0 .. MaxLevel - 1            \* index of a forward pointer
NodeOrNull == Node \union {NoNode}

Request == [name : {"Put"}, key : Key, value : Value]
             \union [name : {"Get", "Delete"}, key : Key]
             \union [name : {"Scan"}, key : Key, end : Key]
             \union [name : {"Snapshot", "Clear"}]
NoRequest == [name |-> "None"]

ASSUME SkipListAssumption ==
  /\ NoThread \notin Thread
  /\ Key \subseteq Int /\ Key # {} /\ Value # {}
  /\ MaxLevel \in Nat \ {0}
  /\ Node \subseteq Nat \ {0}
  /\ HeadNode \in Node
  /\ Work \in [Thread -> Seq(SUBSET Request)]

VARIABLES
  key, value, top,   \* Node fields: key, value, top_level
  forward,           \* Node::forward, indexed by level
  marked, linked,    \* Node::marked, Node::fully_linked
  mutex,             \* the thread that holds Node::mutex, or NoThread
  owned,             \* owned_nodes_
  currentLevel,      \* current_level_
  size,              \* size_
  calls,             \* number of calls each thread has begun
  th                 \* the locals of each thread

vars == <<key, value, top, forward, marked, linked, mutex, owned,
          currentLevel, size, calls, th>>

-----------------------------------------------------------------------------
(* The locals of one call.  node is the node the call is about: existing,   *)
(* new_node, victim, candidate or current in the code.                      *)

PC == {"idle", "start", "find", "decide", "lock", "link", "publish", "count",
       "raise", "unlink", "uncount", "recompute", "lower", "reread", "peek",
       "read", "walk", "collect", "next"}

ThreadState == [pc : PC, request : Request \union {NoRequest},
                level : Level, pred : Node,
                preds : [Level -> Node], succs : [Level -> NodeOrNull],
                node : NodeOrNull, top : Level, toLock : SUBSET Node,
                out : Seq(Key \X Value), ok : BOOLEAN]

\* A thread about to (re)start its loop: vectors empty, no node found.
Fresh(pc, request) ==
  [pc |-> pc, request |-> request, level |-> 0, pred |-> HeadNode,
   preds |-> [l \in Level |-> HeadNode], succs |-> [l \in Level |-> NoNode],
   node |-> NoNode, top |-> 0, toLock |-> {}, out |-> <<>>, ok |-> FALSE]

\* Thread t is at pc, in a call of one of the named operations.
At(t, pc, names) == th[t].pc = pc /\ th[t].request.name \in names

Goto(t, pc) == th' = [th EXCEPT ![t].pc = pc]

\* The call returns ok; the locals die, the request and its result stay visible.
Return(t, ok, out) ==
  th' = [th EXCEPT ![t] = [Fresh("idle", th[t].request) EXCEPT !.ok = ok,
                                                              !.out = out]]

\* continue in the while (true) loops of Put and Delete.
Retry(t) == th' = [th EXCEPT ![t] = Fresh("start", th[t].request)]

\* Destruction of the vector of unique_locks that LockNodes returned.
Release(t) == mutex' = [n \in Node |-> IF mutex[n] = t THEN NoThread ELSE mutex[n]]

content == <<key, value, top>>
heap    == <<content, forward, marked, linked, owned>>
counts  == <<currentLevel, size>>

-----------------------------------------------------------------------------
(* An empty list: the constructor.                                          *)

Init ==
  /\ key   \in [Node -> {CHOOSE k \in Key : TRUE}]
  /\ value \in [Node -> {CHOOSE v \in Value : TRUE}]
  /\ top     = [n \in Node |-> MaxLevel - 1]
  /\ forward = [n \in Node |-> [l \in Level |-> NoNode]]
  /\ marked  = [n \in Node |-> FALSE]
  /\ linked  = [n \in Node |-> FALSE]
  /\ mutex   = [n \in Node |-> NoThread]
  /\ owned   = {}
  /\ currentLevel = 1
  /\ size  = 0
  /\ calls = [t \in Thread |-> 0]
  /\ th    = [t \in Thread |-> Fresh("idle", NoRequest)]

-----------------------------------------------------------------------------
(* Beginning a call and the search common to the operations.                *)

\* Call takes lifecycle_mutex_ in shared mode; Snapshot starts at the head.
Call(t) ==
  /\ th[t].pc = "idle"
  /\ calls[t] < Len(Work[t])
  /\ calls' = [calls EXCEPT ![t] = @ + 1]
  /\ \E r \in Work[t][calls[t] + 1] :
       /\ r.name # "Clear"
       /\ th' = [th EXCEPT ![t] =
            IF r.name = "Snapshot" THEN [Fresh("next", r) EXCEPT !.node = HeadNode]
                                   ELSE Fresh("start", r)]
  /\ UNCHANGED <<heap, mutex, counts>>

\* Clear takes lifecycle_mutex_ exclusively: no other call is in progress.
Clear(t) ==
  /\ \A u \in Thread : th[u].pc = "idle"
  /\ calls[t] < Len(Work[t])
  /\ calls' = [calls EXCEPT ![t] = @ + 1]
  /\ \E r \in Work[t][calls[t] + 1] :
       /\ r.name = "Clear"
       /\ th' = [th EXCEPT ![t] = Fresh("idle", r)]
  /\ forward' = [forward EXCEPT ![HeadNode] = [l \in Level |-> NoNode]]
  /\ owned' = {} /\ currentLevel' = 1 /\ size' = 0
  /\ UNCHANGED <<content, marked, linked, mutex>>

EmptyRange(r) == r.name = "Scan" /\ r.end < r.key

\* active_levels = current_level_.load(); the search begins at the head.
Start(t) ==
  /\ th[t].pc = "start"
  /\ ~ EmptyRange(th[t].request)
  /\ th' = [th EXCEPT ![t].pc = "find", ![t].level = currentLevel - 1]

ScanNothing(t) ==
  /\ th[t].pc = "start"
  /\ EmptyRange(th[t].request)
  /\ Return(t, TRUE, <<>>)

\* Mutant: the search passes the key it looks for.
BeforeOrAt(n, k) == n # NoNode /\ key[n] <= k

\* One load of predecessor->forward[level].
Current(t) == forward[th[t].pred][th[t].level]
Before(n, k) == n # NoNode /\ key[n] < k
Holds(n, k)  == n # NoNode /\ key[n] = k

Advance(t) ==
  /\ th[t].pc = "find"
  /\ Before(Current(t), th[t].request.key)
  /\ th' = [th EXCEPT ![t].pred = Current(t)]

FirstFound(t) == th[t].node = NoNode /\ Holds(Current(t), th[t].request.key)

\* FindNode records each level as it leaves it, and the first node with the key;
\* the searches of Get and Scan record nothing.
Record(t) ==
  IF th[t].request.name \notin {"Put", "Delete"} THEN th[t]
  ELSE [th[t] EXCEPT !.preds = [@ EXCEPT ![th[t].level] = th[t].pred],
                     !.succs = [@ EXCEPT ![th[t].level] = Current(t)],
                     !.node = IF FirstFound(t) THEN Current(t) ELSE @]

Descend(t) ==
  /\ th[t].pc = "find" /\ th[t].level > 0
  /\ ~ Before(Current(t), th[t].request.key)
  /\ th' = [th EXCEPT ![t] = [Record(t) EXCEPT !.level = @ - 1]]

Continuation ==
  [Put |-> "decide", Delete |-> "decide", Get |-> "reread", Scan |-> "next"]

\* Scan goes on from the last predecessor.
FinishFind(t) ==
  /\ th[t].pc = "find" /\ th[t].level = 0
  /\ ~ Before(Current(t), th[t].request.key)
  /\ LET name == th[t].request.name IN
     th' = [th EXCEPT ![t] = [Record(t) EXCEPT
                !.pc = Continuation[name],
                !.node = IF name = "Scan" THEN th[t].pred ELSE @]]

-----------------------------------------------------------------------------
(* Locking.  Put and Delete lock toLock in ascending address order, each    *)
(* lock blocking while another thread holds it.                            *)

Unlocked(t) == {n \in th[t].toLock : mutex[n] # t}
NextToLock(t) == {n \in Unlocked(t) : \A m \in Unlocked(t) : n <= m}

LockNext(t) ==
  /\ th[t].pc = "lock"
  /\ \E n \in NextToLock(t) : mutex[n] = NoThread /\ mutex' = [mutex EXCEPT ![n] = t]
  /\ UNCHANGED <<heap, counts, calls, th>>

Locked(t) == th[t].pc = "lock" /\ Unlocked(t) = {}

\* The locked predecessors still point, level by level up to top, at target(l).
StillLinked(t, target(_)) ==
  \A l \in 0 .. th[t].top :
    /\ ~ marked[th[t].preds[l]]
    /\ forward[th[t].preds[l]][l] = target(l)

-----------------------------------------------------------------------------
(* Put                                                                      *)

\* Mutant: marked is not looked at.
Published(n) == linked[n]
Readable(n)  == ~ marked[n] /\ linked[n]

\* The key is there: lock its node, then update it or look again.
UpdateExisting(t) ==
  LET n == th[t].node IN
  /\ At(t, "decide", {"Put"})
  /\ n # NoNode
  /\ mutex[n] = NoThread
  /\ IF Readable(n)
     THEN /\ value' = [value EXCEPT ![n] = th[t].request.value]
          /\ Return(t, FALSE, <<>>)
     ELSE Retry(t) /\ UNCHANGED value
  /\ UNCHANGED <<key, top, forward, marked, linked, owned, mutex, counts, calls>>

\* Mutant: only the predecessor on the bottom level is locked.
BottomTarget(t, h)  == {th[t].preds[0]}
InsertTargets(t, h) == {th[t].preds[l] : l \in 0 .. h}

\* RandomLevel may return any level.
PrepareInsert(t) ==
  /\ At(t, "decide", {"Put"})
  /\ th[t].node = NoNode
  /\ \E h \in Level :
       th' = [th EXCEPT ![t].pc = "lock", ![t].top = h, ![t].toLock = InsertTargets(t, h)]

\* Mutant: the predecessors are not compared with the successors again.
CanInsertUnvalidated(t) == \A l \in 0 .. th[t].top : ~ marked[th[t].preds[l]]

CanInsert(t) ==
  LET succ(l) == th[t].succs[l] IN
  /\ StillLinked(t, succ)
  /\ \A l \in 0 .. th[t].top : succ(l) # NoNode => ~ marked[succ(l)]

InsertRetry(t) ==
  /\ Locked(t) /\ At(t, "lock", {"Put"})
  /\ ~ CanInsert(t)
  /\ Release(t) /\ Retry(t)
  /\ UNCHANGED <<heap, counts, calls>>

\* The new node, at any free address, is owned but not yet reachable.
Insert(t) ==
  LET me == th[t] IN
  /\ Locked(t) /\ At(t, "lock", {"Put"})
  /\ CanInsert(t)
  /\ \E n \in Node \ (owned \union {HeadNode}) :
       /\ key'     = [key EXCEPT ![n] = me.request.key]
       /\ value'   = [value EXCEPT ![n] = me.request.value]
       /\ top'     = [top EXCEPT ![n] = me.top]
       /\ forward' = [forward EXCEPT ![n] =
                        [l \in Level |-> IF l <= me.top THEN me.succs[l] ELSE NoNode]]
       /\ marked'  = [marked EXCEPT ![n] = FALSE]
       /\ linked'  = [linked EXCEPT ![n] = FALSE]
       /\ owned'   = owned \union {n}
       /\ th'      = [th EXCEPT ![t].pc = "link", ![t].node = n, ![t].level = 0]
  /\ UNCHANGED <<mutex, counts, calls>>

\* One level at a time, bottom up.
LinkLevel(t) ==
  LET me == th[t] IN
  /\ me.pc = "link"
  /\ forward' = [forward EXCEPT ![me.preds[me.level]][me.level] = me.node]
  /\ IF me.level < me.top
     THEN th' = [th EXCEPT ![t].level = @ + 1]
     ELSE Goto(t, "publish")
  /\ UNCHANGED <<content, marked, linked, owned, mutex, counts, calls>>

Publish(t) ==
  /\ th[t].pc = "publish"
  /\ linked' = [linked EXCEPT ![th[t].node] = TRUE]
  /\ Goto(t, "count")
  /\ UNCHANGED <<content, forward, marked, owned, mutex, counts, calls>>

Count(t) ==
  /\ th[t].pc = "count"
  /\ size' = size + 1
  /\ Goto(t, "raise")
  /\ UNCHANGED <<heap, mutex, currentLevel, calls>>

\* Mutant: the level is stored without a comparison.
RaiseBlindly(t) ==
  /\ th[t].pc = "raise"
  /\ currentLevel' = th[t].top + 1
  /\ Release(t) /\ Return(t, TRUE, <<>>)
  /\ UNCHANGED <<heap, size, calls>>

\* The compare-and-exchange loop computes a maximum atomically.
Raise(t) ==
  /\ th[t].pc = "raise"
  /\ currentLevel' = IF th[t].top + 1 > currentLevel THEN th[t].top + 1 ELSE currentLevel
  /\ Release(t) /\ Return(t, TRUE, <<>>)
  /\ UNCHANGED <<heap, size, calls>>

-----------------------------------------------------------------------------
(* Delete                                                                   *)

DeleteMiss(t) ==
  /\ At(t, "decide", {"Delete"})
  /\ th[t].node = NoNode
  /\ Return(t, FALSE, <<>>)

\* Mutants: the victim, or its predecessors, are not locked.
PredecessorTargets(t) == {th[t].preds[l] : l \in 0 .. top[th[t].node]}
VictimTarget(t)  == {th[t].node}
DeleteTargets(t) == PredecessorTargets(t) \union {th[t].node}

PrepareDelete(t) ==
  /\ At(t, "decide", {"Delete"})
  /\ th[t].node # NoNode
  /\ th' = [th EXCEPT ![t].pc = "lock", ![t].top = top[th[t].node],
                      ![t].toLock = DeleteTargets(t)]

CanDelete(t) == LET victim(l) == th[t].node IN StillLinked(t, victim)

\* Mutant: neither marked nor the predecessors are looked at again.
DeletableUnchecked(t) == linked[th[t].node]

Deletable(t) ==
  LET n == th[t].node IN
  linked[n] /\ ~ marked[n] /\ key[n] = th[t].request.key /\ CanDelete(t)

DeleteRetry(t) ==
  /\ Locked(t) /\ At(t, "lock", {"Delete"})
  /\ ~ Deletable(t)
  /\ Release(t) /\ Retry(t)
  /\ UNCHANGED <<heap, counts, calls>>

Mark(t) ==
  /\ Locked(t) /\ At(t, "lock", {"Delete"})
  /\ Deletable(t)
  /\ marked' = [marked EXCEPT ![th[t].node] = TRUE]
  /\ th' = [th EXCEPT ![t].pc = "unlink", ![t].level = th[t].top]
  /\ UNCHANGED <<content, forward, linked, owned, mutex, counts, calls>>

\* One level at a time, top down.
UnlinkLevel(t) ==
  LET me == th[t] IN
  /\ me.pc = "unlink"
  /\ forward' = [forward EXCEPT ![me.preds[me.level]][me.level] =
                                  forward[me.node][me.level]]
  /\ IF me.level > 0
     THEN th' = [th EXCEPT ![t].level = @ - 1]
     ELSE Goto(t, "uncount")
  /\ UNCHANGED <<content, marked, linked, owned, mutex, counts, calls>>

Uncount(t) ==
  /\ th[t].pc = "uncount"
  /\ size' = size - 1
  /\ th' = [th EXCEPT ![t].pc = "recompute", ![t].level = MaxLevel - 1]
  /\ UNCHANGED <<heap, mutex, currentLevel, calls>>

\* RecomputeCurrentLevel reads the head level by level ...
Recompute(t) ==
  /\ th[t].pc = "recompute"
  /\ IF th[t].level > 0 /\ forward[HeadNode][th[t].level] = NoNode
     THEN th' = [th EXCEPT ![t].level = @ - 1]
     ELSE Goto(t, "lower")

\* Mutant: the victim is freed at the end of Delete.
LowerFreeing(t) ==
  /\ th[t].pc = "lower"
  /\ currentLevel' = th[t].level + 1
  /\ owned' = owned \ {th[t].node}
  /\ Release(t) /\ Return(t, TRUE, <<>>)
  /\ UNCHANGED <<content, forward, marked, linked, size, calls>>

\* ... and stores what it saw, without looking at current_level_.
Lower(t) ==
  /\ th[t].pc = "lower"
  /\ currentLevel' = th[t].level + 1
  /\ Release(t) /\ Return(t, TRUE, <<>>)
  /\ UNCHANGED <<heap, size, calls>>

-----------------------------------------------------------------------------
(* Get                                                                      *)

\* FindNodeNoLock loads predecessor->forward[0] once more after its loop.
Reread(t) ==
  LET n == forward[th[t].pred][0] IN
  /\ th[t].pc = "reread"
  /\ IF Holds(n, th[t].request.key)
     THEN th' = [th EXCEPT ![t].pc = "peek", ![t].node = n]
     ELSE Return(t, FALSE, <<>>)

Peek(t) ==
  /\ th[t].pc = "peek"
  /\ IF Readable(th[t].node) THEN Goto(t, "read") ELSE Return(t, FALSE, <<>>)

Read(t) ==
  LET n == th[t].node IN
  /\ th[t].pc = "read"
  /\ mutex[n] = NoThread
  /\ IF Readable(n) THEN Return(t, TRUE, <<<<key[n], value[n]>>>>)
                    ELSE Return(t, FALSE, <<>>)

-----------------------------------------------------------------------------
(* Scan and Snapshot                                                        *)

\* current = current->forward[0]
StepNext(t) ==
  /\ th[t].pc = "next"
  /\ th' = [th EXCEPT ![t].pc = "walk", ![t].node = forward[th[t].node][0]]

PastEnd(t) ==
  LET me == th[t] IN
  me.node # NoNode => me.request.name = "Scan" /\ me.request.end < key[me.node]

ReturnWalk(t) ==
  /\ th[t].pc = "walk"
  /\ PastEnd(t)
  /\ Return(t, TRUE, th[t].out)

Walk(t) ==
  /\ th[t].pc = "walk"
  /\ ~ PastEnd(t)
  /\ Goto(t, IF Readable(th[t].node) THEN "collect" ELSE "next")

Collect(t) ==
  LET n == th[t].node IN
  /\ th[t].pc = "collect"
  /\ mutex[n] = NoThread
  /\ th' = [th EXCEPT ![t].pc = "next",
                      ![t].out = IF Readable(n) THEN Append(@, <<key[n], value[n]>>)
                                                ELSE @]

-----------------------------------------------------------------------------
(* The steps of a thread inside a call, and the specification.              *)

\* Steps that change only the thread's own locals.
LocalStep(t) ==
  /\ \/ Start(t) \/ ScanNothing(t) \/ Advance(t) \/ Descend(t) \/ FinishFind(t)
     \/ PrepareInsert(t) \/ DeleteMiss(t) \/ PrepareDelete(t) \/ Recompute(t)
     \/ Reread(t) \/ Peek(t) \/ Read(t)
     \/ StepNext(t) \/ ReturnWalk(t) \/ Walk(t) \/ Collect(t)
  /\ UNCHANGED <<heap, mutex, counts, calls>>

SharedStep(t) ==
  \/ LockNext(t)
  \/ UpdateExisting(t) \/ InsertRetry(t) \/ Insert(t)
  \/ LinkLevel(t) \/ Publish(t) \/ Count(t) \/ Raise(t)
  \/ DeleteRetry(t) \/ Mark(t) \/ UnlinkLevel(t) \/ Uncount(t) \/ Lower(t)

Step(t) == LocalStep(t) \/ SharedStep(t)

\* Every call has been made and has returned.
Finished ==
  /\ \A t \in Thread : th[t].pc = "idle" /\ calls[t] = Len(Work[t])
  /\ UNCHANGED vars

Next == (\E t \in Thread : Call(t) \/ Clear(t) \/ Step(t)) \/ Finished

Spec == Init /\ [][Next]_vars

\* The operating system keeps scheduling a thread inside a call that can run.
FairSpec == Spec /\ \A t \in Thread : WF_vars(Step(t))

=============================================================================

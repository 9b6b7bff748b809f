----------------------- MODULE SkipListRefinementProofs -----------------------
(***************************************************************************)
(* The skip list implements the map that ConcurrentMap promises: for every *)
(* number of threads, keys, values, levels and nodes and every sequence of *)
(* calls.                                                                  *)
(***************************************************************************)
EXTENDS SkipListRefinement, SkipListProofs

-----------------------------------------------------------------------------
(* What the list's own invariants say, in the form that is used below.      *)

\* A node that is not linked yet is being inserted.
Created ==
  \A n \in owned : ~ linked[n] =>
    \E t \in Thread : th[t].pc \in {"link", "publish"} /\ th[t].node = n

\* What the heap says of the map.
MapShown ==
  /\ Map \in [Key -> Value \union {Absent}]
  /\ \A n \in Live : Map[key[n]] = value[n] /\ value[n] \in Value
  /\ \A k \in Key : (\A n \in Live : key[n] # k) => Map[k] = Absent

Nested == \A l, m \in Level : m <= l => On(l) \subseteq On(m)

Base ==
  /\ IInv /\ LockInv /\ OutputInv /\ Created
  /\ Nested /\ Live \subseteq On(0) /\ OneLiveNodePerKey /\ MapShown

\* Any map from the nodes of a set with distinct keys to what the set holds.
LEMMA LookUp ==
  ASSUME NEW L, NEW K, NEW V, NEW k, NEW v, \A n \in L : v[n] \in V /\ k[n] \in K,
         \A m, n \in L : k[m] = k[n] => m = n, NEW M,
         M = [j \in K |-> IF \E n \in L : k[n] = j THEN v[CHOOSE n \in L : k[n] = j] ELSE Absent]
  PROVE  /\ M \in [K -> V \union {Absent}]
         /\ \A n \in L : M[k[n]] = v[n]
         /\ \A j \in K : (\A n \in L : k[n] # j) => M[j] = Absent
<1>1. ASSUME NEW j \in K, NEW n \in L, k[n] = j
      PROVE  (CHOOSE m \in L : k[m] = j) = n
  BY <1>1
<1>2. \A n \in L : M[k[n]] = v[n]
  BY <1>1
<1>3. ASSUME NEW j \in K
      PROVE  M[j] \in V \union {Absent}
  <2>1. CASE \E n \in L : k[n] = j
    BY <1>2, <2>1
  <2>2. CASE ~ \E n \in L : k[n] = j
    BY <2>2
  <2> QED
    BY <2>1, <2>2
<1> QED
  BY <1>2, <1>3

LEMMA MapHolds ==
  ASSUME IInv, LockInv
  PROVE  Live \subseteq On(0) /\ OneLiveNodePerKey /\ MapShown
<1>1. \A n \in Live : 0 <= top[n]
  BY OwnedNode, Basics DEF IInv, Typed, Live
<1>2. Live \subseteq On(0)
  BY <1>1, LiveOn
<1>3. OneLiveNodePerKey
  BY <1>2, Basics DEF LockInv, Chained, OneLiveNodePerKey
<1>4. \A n \in Live : value[n] \in Value /\ key[n] \in Key
  BY OwnedNode DEF IInv, Typed, Live
<1>5. \A m, n \in Live : key[m] = key[n] => m = n
  BY <1>3 DEF OneLiveNodePerKey
<1>6. /\ Map \in [Key -> Value \union {Absent}]
      /\ \A n \in Live : Map[key[n]] = value[n]
      /\ \A j \in Key : (\A n \in Live : key[n] # j) => Map[j] = Absent
  <2> DEFINE L == Live
             M == Map
  <2>1. M = [j \in Key |-> IF \E n \in L : key[n] = j THEN value[CHOOSE n \in L : key[n] = j]
                                                     ELSE Absent]
    BY DEF Map
  <2>2. /\ \A n \in L : value[n] \in Value /\ key[n] \in Key
        /\ \A m, n \in L : key[m] = key[n] => m = n
    BY <1>4, <1>5
  <2> HIDE DEF L, M
  <2>3. /\ M \in [Key -> Value \union {Absent}]
        /\ \A n \in L : M[key[n]] = value[n]
        /\ \A j \in Key : (\A n \in L : key[n] # j) => M[j] = Absent
    BY <2>1, <2>2, LookUp
  <2> QED
    BY <2>3 DEF L, M
<1> QED
  BY <1>2, <1>3, <1>4, <1>6 DEF MapShown

LEMMA NestedHolds ==
  ASSUME IInv, LockInv
  PROVE  Nested
<1>1. ASSUME NEW l \in Level, NEW m \in Level, m <= l, NEW n \in On(l)
      PROVE  n \in On(m)
  <2>1. Joined(n, m)
    BY <1>1, JoinedBelow DEF On
  <2>2. \A u \in Thread : th[u].level \in Int
    BY LocalTypes, Basics DEF IInv
  <2>3. ~ Left(n, m)
    BY <1>1, <2>2, Basics DEF On, Left
  <2> QED
    BY <2>1, <2>3 DEF On
<1> QED
  BY <1>1 DEF Nested
\* A step inside a call, or that begins one, changes the locals of one thread.
LEMMA StepOthers ==
  ASSUME Typed, NEW t \in Thread, Call(t) \/ Step(t)
  PROVE  \A u \in Thread \ {t} : th'[u] = th[u]
<1>1. CASE LocalStep(t)
  BY <1>1, LocalOthers DEF Others
<1>2. CASE Call(t) \/ SharedStep(t)
  BY <1>2, ZenonT(40)
     DEF Typed, Call, SharedStep, LockNext, UpdateExisting, InsertRetry, Insert, LinkLevel,
         Publish, Count, Raise, DeleteRetry, Mark, UnlinkLevel, Uncount, Lower, Return,
         Retry, Goto
<1> QED
  BY <1>1, <1>2 DEF Step

\* Where a call is that a shared step goes on with.
LEMMA SharedPc ==
  ASSUME NEW t \in Thread, SharedStep(t)
  PROVE  \/ Insert(t) /\ th[t].pc = "lock"
         \/ LinkLevel(t) /\ th[t].pc = "link"
         \/ Publish(t) /\ th[t].pc = "publish"
         \/ th[t].pc \notin {"link", "publish"} /\ UNCHANGED <<owned, linked>>
BY DEF SharedStep, LockNext, UpdateExisting, InsertRetry, Insert, LinkLevel, Publish, Count,
       Raise, DeleteRetry, Mark, UnlinkLevel, Uncount, Lower, At, Locked, heap, content

LEMMA NextCreated ==
  ASSUME IInv, Created, [Next]_vars
  PROVE  Created'
<1>t. Typed /\ th \in [Thread -> ThreadState]
  BY DEF IInv, Typed
<1>1. CASE UNCHANGED vars \/ Finished
  BY <1>1 DEF Finished, vars, Created
<1>2. ASSUME NEW t \in Thread, Clear(t)
      PROVE  Created'
  BY <1>2 DEF Clear, Created
<1>3. ASSUME NEW t \in Thread, Call(t) \/ Step(t)
      PROVE  Created'
  <2>0. \A u \in Thread \ {t} : th'[u] = th[u]
    BY <1>t, <1>3, StepOthers
  <2>1. CASE th[t].pc \notin {"link", "publish"} /\ UNCHANGED <<owned, linked>>
    BY <2>0, <2>1 DEF Created
  <2>2. CASE Insert(t) /\ th[t].pc = "lock"
    <3>1. PICK n \in Node \ (owned \union {HeadNode}) :
            /\ linked' = [linked EXCEPT ![n] = FALSE] /\ owned' = owned \union {n}
            /\ th' = [th EXCEPT ![t].pc = "link", ![t].node = n, ![t].level = 0]
      BY <2>2 DEF Insert
    <3>2. th'[t].pc = "link" /\ th'[t].node = n
      BY <1>t, <3>1 DEF ThreadState
    <3>3. \A m \in owned : linked'[m] = linked[m]
      BY <1>t, <3>1, OwnedNode DEF Typed
    <3>4. ASSUME NEW m \in owned, ~ linked'[m]
          PROVE  \E u \in Thread : th'[u].pc \in {"link", "publish"} /\ th'[u].node = m
      <4>1. PICK u \in Thread : th[u].pc \in {"link", "publish"} /\ th[u].node = m
        BY <3>3, <3>4 DEF Created
      <4>2. u # t
        BY <2>2, <4>1
      <4> QED
        BY <2>0, <4>1, <4>2
    <3> QED
      BY <3>1, <3>2, <3>4 DEF Created
  <2>3. CASE LinkLevel(t) /\ th[t].pc = "link"
    <3>1. th'[t].pc \in {"link", "publish"} /\ th'[t].node = th[t].node
      BY <1>t, <2>3 DEF LinkLevel, Goto, ThreadState
    <3>2. UNCHANGED <<owned, linked>>
      BY <2>3 DEF LinkLevel
    <3> QED
      BY <2>0, <3>1, <3>2 DEF Created
  <2>4. CASE Publish(t) /\ th[t].pc = "publish"
    <3>1. /\ linked' = [linked EXCEPT ![th[t].node] = TRUE] /\ owned' = owned
          /\ linked \in [Node -> BOOLEAN] /\ owned \subseteq Node
      BY <1>t, <2>4, OwnedNode DEF Publish, Typed
    <3>2. \A n \in owned : ~ linked'[n] => n # th[t].node /\ ~ linked[n]
      BY <3>1
    <3> QED
      BY <2>0, <3>1, <3>2 DEF Created
  <2>5. CASE Call(t) \/ LocalStep(t)
    <3>1. th[t].pc \notin {"link", "publish"}
      BY <2>5, LocalPc DEF Changing, Creating, Call
    <3>2. UNCHANGED <<owned, linked>>
      BY <2>5 DEF Call, LocalStep, heap
    <3> QED
      BY <2>1, <3>1, <3>2
  <2> QED
    BY <1>3, <2>1, <2>2, <2>3, <2>4, <2>5, SharedPc DEF Step
<1> QED
  BY <1>1, <1>2, <1>3 DEF Next

LEMMA BaseHolds == Spec => []Base
<1>1. Init => IInv /\ LockInv /\ OutputInv /\ Created
  BY InitIInv, InitLock DEF Init, Fresh, OutputInv, Output, Collecting, Ascending, Created
<1>2. (IInv /\ LockInv /\ OutputInv /\ Created) /\ [Next]_vars
        => (IInv /\ LockInv /\ OutputInv /\ Created)'
  BY NextIInv, NextLock, NextOutput, NextCreated
<1>3. IInv /\ LockInv /\ OutputInv /\ Created => Base
  BY MapHolds, NestedHolds DEF Base
<1> QED
  BY <1>1, <1>2, <1>3, PTL DEF Spec
-----------------------------------------------------------------------------
(* What every step leaves as it is, Clear excepted.                         *)

\* A node keeps its pointers once it has left a level, and its value until it is
\* linked; none joins a level twice, and none leaves it that is not marked.
Steady(t) ==
  /\ Others(t)
  /\ \A n \in Node, l \in Level :
       /\ OnceOn(n, l) => OnceOn(n, l)'
       /\ n \in owned /\ OnceOn(n, l) /\ n \notin On(l)' => forward'[n][l] = forward[n][l]
       /\ n \in On(l) \ On(l)' => marked[n]
       /\ n \in On(l)' \ On(l) => ~ OnceOn(n, l) /\ ~ linked'[n]
  /\ \A n \in owned : ~ linked[n] => value'[n] = value[n]
  /\ \A n \in owned' : linked'[n] => (n \in owned /\ linked[n]) \/ n \in Live'

LEMMA SharedOthers ==
  ASSUME Typed, NEW t \in Thread, Call(t) \/ SharedStep(t)
  PROVE  Others(t)
<1>1. \A u \in Thread \ {t} : th'[u] = th[u]
  BY StepOthers DEF Step
<1>2. \/ UNCHANGED mutex \/ Release(t)
      \/ \E n \in Node : mutex[n] = NoThread /\ mutex' = [mutex EXCEPT ![n] = t]
  <2>1. th[t].toLock \subseteq Node
    BY LocalTypes
  <2> QED
    BY <2>1 DEF Call, SharedStep, LockNext, NextToLock, Unlocked, UpdateExisting, InsertRetry,
                Insert, LinkLevel, Publish, Count, Raise, DeleteRetry, Mark, UnlinkLevel,
                Uncount, Lower
<1>3. owned \subseteq owned' /\ \A n \in owned \union {HeadNode} : key'[n] = key[n] /\ top'[n] = top[n]
  <2>1. CASE Insert(t)
    BY <2>1, OwnedNode DEF Insert, Typed
  <2>2. CASE ~ Insert(t)
    BY <2>2 DEF Call, SharedStep, LockNext, UpdateExisting, InsertRetry, LinkLevel, Publish,
                Count, Raise, DeleteRetry, Mark, UnlinkLevel, Uncount, Lower, heap, content
  <2> QED
    BY <2>1, <2>2
<1> QED
  BY <1>1, <1>2, <1>3, MutexOthers DEF Others

\* Steps that leave the nodes alone, but for the value of one that is linked.
LEMMA StillSteady ==
  ASSUME Base, Base', NEW t \in Thread, Others(t),
         UNCHANGED <<key, top, forward, marked, linked, owned>>,
         \A n \in owned : ~ linked[n] => value'[n] = value[n],
         th[t].pc \notin {"link", "unlink"}, th'[t].pc \notin {"link", "unlink"}
  PROVE  Steady(t)
<1>1. Upwards(t) /\ IInv /\ IInv'
  BY DEF Upwards, Base
<1>2. \A l \in Level : On(l)' = On(l)
  BY OnStays DEF Others
<1> QED
  BY <1>1, <1>2, OnceOnStays DEF Steady

LEMMA QuietSteady ==
  ASSUME Base, Base', NEW t \in Thread,
         \/ Call(t) \/ LocalStep(t) \/ LockNext(t) \/ UpdateExisting(t) \/ InsertRetry(t)
         \/ DeleteRetry(t) \/ Count(t) \/ Raise(t) \/ Uncount(t) \/ Lower(t)
  PROVE  Steady(t)
<1>t. IInv /\ Typed /\ th \in [Thread -> ThreadState] /\ th[t] \in ThreadState
  BY DEF Base, IInv, Typed
<1>1. Others(t)
  BY <1>t, LocalOthers, SharedOthers DEF SharedStep
<1>2. UNCHANGED <<key, top, forward, marked, linked, owned>>
  BY DEF Call, LocalStep, LockNext, UpdateExisting, InsertRetry, DeleteRetry, Count, Raise,
         Uncount, Lower, heap, content
<1>3. \A n \in owned : ~ linked[n] => value'[n] = value[n]
  BY <1>t DEF Call, LocalStep, LockNext, UpdateExisting, Readable, InsertRetry, DeleteRetry,
              Count, Raise, Uncount, Lower, heap, content, Typed
<1>4. th[t].pc \notin {"link", "unlink"} /\ th'[t].pc \notin {"link", "unlink"}
  <2>1. CASE LocalStep(t)
    BY <1>t, <2>1, LocalPc DEF Changing, Creating
  <2>2. CASE Call(t)
    <3>1. PICK r \in Work[t][calls[t] + 1] : th' = [th EXCEPT ![t] =
              IF r.name = "Snapshot" THEN [Fresh("next", r) EXCEPT !.node = HeadNode]
                                     ELSE Fresh("start", r)]
      BY <2>2 DEF Call
    <3> QED
      BY <1>t, <2>2, <3>1 DEF Call, Fresh
  <2>3. CASE UpdateExisting(t) \/ InsertRetry(t) \/ DeleteRetry(t) \/ Raise(t) \/ Lower(t)
    <3>1. Retry(t) \/ Return(t, TRUE, <<>>) \/ Return(t, FALSE, <<>>)
      BY <2>3 DEF UpdateExisting, InsertRetry, DeleteRetry, Raise, Lower
    <3>2. th'[t].pc \in {"start", "idle"}
      <4>1. CASE Retry(t)
        BY <1>t, <4>1 DEF Retry, Fresh
      <4>2. CASE Return(t, TRUE, <<>>) \/ Return(t, FALSE, <<>>)
        BY <1>t, <4>2 DEF Return, Fresh
      <4> QED
        BY <3>1, <4>1, <4>2
    <3> QED
      BY <2>3, <3>2 DEF UpdateExisting, InsertRetry, DeleteRetry, Raise, Lower, Locked, At
  <2>4. CASE LockNext(t) \/ Count(t) \/ Uncount(t)
    BY <1>t, <2>4 DEF LockNext, Count, Uncount, Goto, ThreadState
  <2> QED
    BY <2>1, <2>2, <2>3, <2>4
<1> QED
  BY <1>1, <1>2, <1>3, <1>4, StillSteady

LEMMA PublishSteady ==
  ASSUME Base, Base', NEW t \in Thread, Publish(t)
  PROVE  /\ Steady(t) /\ Live' = Live \union {th[t].node}
         /\ th[t].node \in owned \ Live /\ UNCHANGED <<content, owned>>
         /\ th[t].node \in On(0) /\ th'[t] = [th[t] EXCEPT !.pc = "count"]
<1>t. IInv /\ IInv' /\ LockInv /\ Typed /\ th \in [Thread -> ThreadState] /\ th[t] \in ThreadState
  BY DEF Base, IInv, Typed
<1>1. /\ UNCHANGED <<key, value, top, forward, marked, owned>>
      /\ linked' = [linked EXCEPT ![th[t].node] = TRUE]
      /\ th[t].pc = "publish" /\ th'[t] = [th[t] EXCEPT !.pc = "count"]
  BY <1>t DEF Publish, Goto, content
<1>2. th'[t].pc = "count"
  BY <1>t, <1>1 DEF ThreadState
<1>3. Others(t) /\ Upwards(t)
  BY <1>t, <1>2, SharedOthers DEF SharedStep, Upwards
<1>4. /\ th[t].node \in owned /\ ~ marked[th[t].node] /\ ~ linked[th[t].node]
      /\ owned \subseteq Node /\ linked \in [Node -> BOOLEAN]
  BY <1>t, <1>1, OwnedNode DEF LockInv, Own, Inserting, Typed
<1>5. \A l \in Level : On(l)' = On(l)
  BY <1>t, PublishLock
<1>6. Live' = Live \union {th[t].node}
  BY <1>1, <1>4 DEF Live
<1>7. th[t].node \in On(0)
  <2>1. \A u \in Thread : ~ (th[u].pc = "link" /\ th[u].node = th[t].node)
    BY <1>1 DEF Base, LockInv, Creating
  <2>2. 0 <= top[th[t].node]
    BY <1>t, <1>4, Basics DEF Typed
  <2> QED
    BY <1>4, <2>1, <2>2 DEF On, Joined, Left
<1>8. Steady(t)
  BY <1>t, <1>1, <1>3, <1>4, <1>5, <1>6, OnceOnStays DEF Steady
<1> QED
  BY <1>1, <1>4, <1>6, <1>7, <1>8 DEF Live, content

LEMMA MarkSteady ==
  ASSUME Base, Base', NEW t \in Thread, Mark(t)
  PROVE  /\ Steady(t) /\ Live' = Live \ {th[t].node}
         /\ th[t].node \in Live /\ key[th[t].node] = th[t].request.key
         /\ UNCHANGED <<content, owned>>
         /\ th'[t] = [th[t] EXCEPT !.pc = "unlink", !.level = th[t].top]
<1>t. IInv /\ IInv' /\ LockInv /\ Typed /\ th \in [Thread -> ThreadState] /\ th[t] \in ThreadState
  BY DEF Base, IInv, Typed
<1>1. /\ UNCHANGED <<key, value, top, forward, linked, owned>>
      /\ marked' = [marked EXCEPT ![th[t].node] = TRUE]
      /\ th[t].pc = "lock" /\ th[t].request.name = "Delete"
      /\ th'[t] = [th[t] EXCEPT !.pc = "unlink", !.level = th[t].top]
      /\ linked[th[t].node] /\ ~ marked[th[t].node] /\ key[th[t].node] = th[t].request.key
  BY <1>t DEF Mark, At, content, Deletable
<1>2. th'[t].pc = "unlink"
  BY <1>t, <1>1 DEF ThreadState
<1>3. Others(t) /\ Upwards(t)
  BY <1>t, <1>2, SharedOthers DEF SharedStep, Upwards
<1>4. th[t].node \in owned
  BY <1>t, <1>1 DEF IInv, LocalsOK, LocalOK, SearchBracketsKey, Brackets
<1>5. \A l \in Level : On(l)' = On(l)
  BY <1>t, MarkLock
<1>6. Live' = Live \ {th[t].node} /\ owned \subseteq Node /\ marked \in [Node -> BOOLEAN]
  BY <1>t, <1>1, <1>4, OwnedNode DEF Live, Typed
<1>7. Steady(t)
  BY <1>t, <1>1, <1>3, <1>5, OnceOnStays DEF Steady
<1> QED
  BY <1>1, <1>4, <1>6, <1>7 DEF Live, content
LEMMA InsertSteady ==
  ASSUME Base, Base', NEW t \in Thread, Insert(t)
  PROVE  /\ Steady(t) /\ Live' = Live
         /\ \A n \in owned : key'[n] = key[n] /\ value'[n] = value[n]
         /\ th'[t].pc = "link" /\ th'[t].request = th[t].request /\ th'[t].ok = th[t].ok
         /\ th[t].pc = "lock" /\ th[t].request.name = "Put"
         /\ key'[th'[t].node] = th[t].request.key /\ value'[th'[t].node] = th[t].request.value
<1> DEFINE me == th[t]
<1>t. IInv /\ IInv' /\ LockInv /\ Typed /\ th \in [Thread -> ThreadState] /\ th[t] \in ThreadState
  BY DEF Base, IInv, Typed
<1>1. PICK n \in Node \ (owned \union {HeadNode}) :
        /\ key'     = [key EXCEPT ![n] = me.request.key]
        /\ value'   = [value EXCEPT ![n] = me.request.value]
        /\ forward' = [forward EXCEPT ![n] =
                         [l \in Level |-> IF l <= me.top THEN me.succs[l] ELSE NoNode]]
        /\ marked'  = [marked EXCEPT ![n] = FALSE]
        /\ linked'  = [linked EXCEPT ![n] = FALSE]
        /\ owned'   = owned \union {n}
        /\ th'      = [th EXCEPT ![t].pc = "link", ![t].node = n, ![t].level = 0]
  BY DEF Insert
<1>2. me.pc = "lock" /\ me.request.name = "Put"
  BY DEF Insert, At
<1>3. /\ th'[t].pc = "link" /\ th'[t].node = n
      /\ th'[t].request = th[t].request /\ th'[t].ok = th[t].ok
  BY <1>t, <1>1 DEF ThreadState
<1>4. Others(t) /\ Upwards(t)
  BY <1>t, <1>1, <1>3, SharedOthers DEF SharedStep, Upwards
<1>5. /\ \A m \in owned : /\ key'[m] = key[m] /\ value'[m] = value[m] /\ forward'[m] = forward[m]
                          /\ marked'[m] = marked[m] /\ linked'[m] = linked[m]
      /\ ~ linked'[n] /\ key'[n] = me.request.key /\ value'[n] = me.request.value
  BY <1>t, <1>1, OwnedNode DEF Typed
<1>6. \A l \in Level : On(l)' = On(l)
  BY <1>t, InsertLock
<1>7. Live' = Live
  BY <1>1, <1>5 DEF Live
<1>8. Steady(t)
  BY <1>t, <1>1, <1>4, <1>5, <1>6, OnceOnStays DEF Steady
<1> QED
  BY <1>2, <1>3, <1>5, <1>7, <1>8

LEMMA LinkLevelSteady ==
  ASSUME Base, Base', NEW t \in Thread, LinkLevel(t)
  PROVE  Steady(t)
<1> DEFINE n  == th[t].node
           lv == th[t].level
           p  == th[t].preds[th[t].level]
<1>t. /\ IInv /\ IInv' /\ LockInv /\ Typed /\ th \in [Thread -> ThreadState] /\ th[t] \in ThreadState
      /\ forward \in [Node -> [Level -> NodeOrNull]] /\ owned \subseteq Node
  BY OwnedNode DEF Base, IInv, Typed
<1>1. /\ th[t].pc = "link" /\ UNCHANGED <<key, value, top, marked, linked, owned>>
      /\ forward' = [forward EXCEPT ![p][lv] = n]
  BY DEF LinkLevel, content
<1>2. lv \in Level /\ p \in Node /\ lv <= th[t].top /\ lv \in 0 .. th[t].top
  BY <1>t, <1>1, LocalTypes, Basics DEF IInv, LocalsOK, LocalOK
<1>3. Upwards(t)
  BY <1>t, <1>1, <1>2, Basics DEF LinkLevel, Goto, Upwards, ThreadState
<1>4. Others(t)
  BY <1>t, SharedOthers DEF SharedStep
<1>5. ~ linked[n] /\ ~ Joined(n, lv) /\ n # HeadNode
  BY <1>t, <1>1, <1>2, OwnedNode, Basics DEF LockInv, Own, Inserting, Joined
<1>6. p \in On(lv) \union {HeadNode}
  BY <1>t, <1>1, <1>2, GuardedOn DEF LockInv, Own, Met, Guarded
<1>7. \A l \in Level : On(l)' = IF l = lv THEN On(l) \union {n} ELSE On(l)
  BY <1>t, LinkLevelLock
<1>8. \A m \in Node, l \in Level : m # p \/ l # lv => forward'[m][l] = forward[m][l]
  BY <1>t, <1>1
<1>9. HeadNode \notin owned
  BY <1>t, OwnedNode
<1>10. ASSUME NEW m \in Node, NEW l \in Level
       PROVE  /\ OnceOn(m, l) => OnceOn(m, l)'
              /\ m \in owned /\ OnceOn(m, l) /\ m \notin On(l)' => forward'[m][l] = forward[m][l]
              /\ m \in On(l) \ On(l)' => marked[m]
              /\ m \in On(l)' \ On(l) => ~ OnceOn(m, l) /\ ~ linked'[m]
  <2>1. OnceOn(m, l) => OnceOn(m, l)'
    BY <1>t, <1>3, <1>4, OnceOnStays
  <2>2. m \in owned /\ m \notin On(l)' => forward'[m][l] = forward[m][l]
    BY <1>6, <1>7, <1>8, <1>9
  <2>3. m \in On(l)' \ On(l) => ~ OnceOn(m, l) /\ ~ linked'[m]
    BY <1>1, <1>5, <1>7 DEF OnceOn
  <2> QED
    BY <1>7, <2>1, <2>2, <2>3
<1> QED
  BY <1>1, <1>4, <1>10 DEF Steady

LEMMA UnlinkLevelSteady ==
  ASSUME Base, Base', NEW t \in Thread, UnlinkLevel(t)
  PROVE  Steady(t)
<1> DEFINE n  == th[t].node
           lv == th[t].level
           p  == th[t].preds[th[t].level]
<1>t. /\ IInv /\ IInv' /\ LockInv /\ Typed /\ th \in [Thread -> ThreadState] /\ th[t] \in ThreadState
      /\ forward \in [Node -> [Level -> NodeOrNull]] /\ owned \subseteq Node
  BY OwnedNode DEF Base, IInv, Typed
<1>1. /\ th[t].pc = "unlink" /\ UNCHANGED <<key, value, top, marked, linked, owned>>
      /\ forward' = [forward EXCEPT ![p][lv] = forward[n][lv]]
  BY DEF UnlinkLevel, content
<1>2. lv \in Level /\ p \in Node /\ lv \in 0 .. th[t].top /\ lv \in 0 .. lv
  BY <1>t, <1>1, LocalTypes, Basics DEF IInv, LocalsOK, LocalOK
<1>3. Upwards(t)
  <2>1. th'[t] = [th[t] EXCEPT !.level = lv - 1] \/ th'[t] = [th[t] EXCEPT !.pc = "uncount"]
    BY <1>t, <1>1 DEF UnlinkLevel, Goto
  <2>2. th'[t].pc \in {"unlink", "uncount"}
    BY <1>t, <1>1, <2>1 DEF ThreadState
  <2> QED
    BY <2>2 DEF Upwards
<1>4. Others(t)
  BY <1>t, SharedOthers DEF SharedStep
<1>5. marked[n] /\ ~ marked[p]
  BY <1>t, <1>1, <1>2 DEF LockInv, Own, Guarded, Deleting
<1>6. p \in On(lv) \union {HeadNode} /\ p # n
  BY <1>t, <1>1, <1>2, <1>5, GuardedOn DEF LockInv, Own, Met
<1>7. \A l \in Level : On(l)' = IF l = lv THEN On(l) \ {n} ELSE On(l)
  BY <1>t, UnlinkLevelLock
<1>8. \A m \in Node, l \in Level : m # p \/ l # lv => forward'[m][l] = forward[m][l]
  BY <1>t, <1>1
<1>9. HeadNode \notin owned
  BY <1>t, OwnedNode
<1>10. ASSUME NEW m \in Node, NEW l \in Level
       PROVE  /\ OnceOn(m, l) => OnceOn(m, l)'
              /\ m \in owned /\ OnceOn(m, l) /\ m \notin On(l)' => forward'[m][l] = forward[m][l]
              /\ m \in On(l) \ On(l)' => marked[m]
              /\ m \in On(l)' \ On(l) => ~ OnceOn(m, l) /\ ~ linked'[m]
  <2>1. OnceOn(m, l) => OnceOn(m, l)'
    BY <1>t, <1>3, <1>4, OnceOnStays
  <2>2. m \in owned /\ m \notin On(l)' => forward'[m][l] = forward[m][l]
    BY <1>6, <1>7, <1>8, <1>9
  <2> QED
    BY <1>5, <1>7, <2>1, <2>2
<1> QED
  BY <1>1, <1>4, <1>10 DEF Steady

LEMMA StepSteady ==
  ASSUME Base, Base', NEW t \in Thread, Call(t) \/ Step(t)
  PROVE  Steady(t)
BY QuietSteady, InsertSteady, PublishSteady, MarkSteady, LinkLevelSteady, UnlinkLevelSteady
   DEF Step, SharedStep
-----------------------------------------------------------------------------
(* What a call may rely on while others change the list under it.           *)

\* What t may count as absent: at some time since its call began it was.
Vacant(t, j) == Absent \in seen[t][j]

\* Every key between n and the node that it leads to.
Gap(t, n) ==
  \A j \in Key :
    /\ n = HeadNode \/ key[n] < j
    /\ forward[n][0] = NoNode \/ j < key[forward[n][0]]
    => Vacant(t, j)

\* S holds nodes with levels that they have been on since the call of t began,
\* all those that are there now included.  One that has left still leads to
\* others of them, and on the lowest level past nothing but absent keys.
Trail(t, S) ==
  /\ \A l \in Level : \A n \in On(l) \union {HeadNode} : <<n, l>> \in S
  /\ \A n \in Node, l \in Level : <<n, l>> \in S =>
       /\ OnceOn(n, l)
       /\ \A m \in Level : m <= l => <<n, m>> \in S
       /\ n \notin On(l) \union {HeadNode} =>
            /\ forward[n][l] # NoNode => <<forward[n][l], l>> \in S
            /\ l = 0 => Vacant(t, key[n]) /\ Gap(t, n)

\* Where t stands.
Stands(me, S) ==
  /\ me.pc = "find" => <<me.pred, me.level>> \in S
  /\ me.pc = "reread" => <<me.pred, 0>> \in S
  /\ me.pc \in {"peek", "read"} => <<me.node, 0>> \in S
  /\ me.pc \in {"next", "walk", "collect"} /\ me.node # NoNode => <<me.node, 0>> \in S

OnTrail(t) == \E S \in SUBSET (Node \X Level) : Trail(t, S) /\ Stands(th[t], S)

\* What Get knows when it loads its successor again: the keys from its predecessor
\* on were absent, and those that are there now have been inserted meanwhile.
Rereading(t) ==
  LET me == th[t] IN
  me.pc = "reread" =>
    /\ me.pred \in owned \union {HeadNode}
    /\ \A j \in Key : (me.pred = HeadNode \/ key[me.pred] < j) /\ j < me.request.key => Vacant(t, j)
    /\ me.pred = HeadNode \/ key[me.pred] < me.request.key
    /\ \A n \in owned :
         /\ n = forward[me.pred][0] \/ (n \in On(0) /\ me.pred \in On(0) \union {HeadNode})
         /\ After(me.pred, n) /\ key[n] < me.request.key /\ linked[n]
         => seen[t][key[n]] # {Absent}

\* Keys that a walk has still to come to.
Beyond(me, j) ==
  \/ me.node = HeadNode
  \/ me.node # NoNode /\ (key[me.node] < j \/ (me.pc # "next" /\ key[me.node] = j))

Walking(t) ==
  LET me == th[t] IN
  me.pc \in {"next", "walk", "collect"} =>
    /\ me.request.name \in {"Scan", "Snapshot"}
    /\ \A i \in 1 .. Len(me.out) :
         /\ Abstract!MayReport(me.request, me.out[i][1], seen[t])
         /\ me.out[i][2] \in seen[t][me.out[i][1]] \ {Absent}
    /\ \A j \in Key : Abstract!InRange(me.request, j) /\ ~ Beyond(me, j) =>
         Vacant(t, j) \/ \E i \in 1 .. Len(me.out) : me.out[i][1] = j
    /\ me.request.name = "Scan" =>
         /\ \A j \in Key : Beyond(me, j) /\ j < me.request.key => Vacant(t, j)
         /\ me.pc = "collect" => key[me.node] <= me.request.end

\* What is known of the call, whatever the others do.
Settled(me) ==
  /\ me.pc # "idle" => ~ me.ok
  /\ me.pc \in {"link", "publish"} =>
       /\ me.request.name = "Put"
       /\ key[me.node] = me.request.key /\ value[me.node] = me.request.value
  /\ me.pc \in {"reread", "peek", "read"} => me.request.name = "Get"
  /\ me.pc \in {"peek", "read"} => me.node \in owned /\ key[me.node] = me.request.key

\* What the history records.
Recorded(t) ==
  /\ th[t].pc = "idle" => seen[t] = Nothing
  /\ th[t].pc # "idle" => \A k \in Key : Map[k] \in seen[t][k]
  /\ th[t].pc = "decide" /\ th[t].request.name = "Delete" /\ th[t].node = NoNode =>
       Vacant(t, th[t].request.key)

History(t) ==
  /\ Recorded(t) /\ Settled(th[t]) /\ Rereading(t) /\ Walking(t)
  /\ th[t].pc # "idle" => OnTrail(t)

HistoryInv ==
  /\ seen \in [Thread -> [Key -> SUBSET (Value \union {Absent})]]
  /\ \A t \in Thread : History(t)
-----------------------------------------------------------------------------
(* What the present state says of the absent keys.                          *)

\* The history variable's part of a step.
Watch ==
  seen' = [t \in Thread |->
    IF th'[t].pc = "idle" THEN Nothing
    ELSE [k \in Key |-> seen[t][k] \union {Map'[k]}]]

\* While a call goes on, nothing is forgotten.
LEMMA SeenGrows ==
  ASSUME Watch, NEW u \in Thread, th'[u].pc # "idle", NEW k \in Key
  PROVE  /\ seen[u][k] \subseteq seen'[u][k] /\ Map'[k] \in seen'[u][k]
         /\ Vacant(u, k) => Vacant(u, k)'
BY DEF Watch, Vacant

\* A key without a live node is absent now.
LEMMA VacantNow ==
  ASSUME Base, HistoryInv, NEW u \in Thread, th[u].pc # "idle",
         NEW k \in Key, \A n \in Live : key[n] # k
  PROVE  Vacant(u, k)
BY DEF Base, MapShown, HistoryInv, History, Recorded, Vacant

LEMMA KeysOrdered ==
  ASSUME Base
  PROVE  /\ \A n \in owned : key[n] \in Key /\ key[n] \in Int /\ n \in Node
         /\ \A k \in Key : k \in Int
         /\ \A l \in Level : On(l) \subseteq owned /\ Chained(l)
         /\ HeadNode \in Node /\ HeadNode \notin owned /\ NoNode \notin owned /\ NoNode # HeadNode
         /\ 0 \in Level
BY SkipListAssumption, OwnedNode, Basics DEF Base, IInv, Typed, On, LockInv

\* A node on the lowest level and the one that it leads to have no live node
\* between them.
LEMMA GapNow ==
  ASSUME Base, HistoryInv, NEW u \in Thread, th[u].pc # "idle", NEW n \in On(0) \union {HeadNode}
  PROVE  Gap(u, n)
<1> SUFFICES ASSUME NEW j \in Key, n = HeadNode \/ key[n] < j,
                    forward[n][0] = NoNode \/ j < key[forward[n][0]]
             PROVE  Vacant(u, j)
  BY DEF Gap
<1>1. ASSUME NEW m \in Live, key[m] = j
      PROVE  FALSE
  <2>1. m \in On(0) /\ After(n, m)
    BY <1>1 DEF Base, After
  <2>2. forward[n][0] # NoNode /\ key[forward[n][0]] <= j /\ forward[n][0] \in owned
    BY <1>1, <2>1, KeysOrdered DEF Chained
  <2> QED
    BY <2>2, KeysOrdered
<1> QED
  BY <1>1, VacantNow

\* The key of a node on the lowest level that is not live has no live node.
LEMMA UnreadableNow ==
  ASSUME Base, HistoryInv, NEW u \in Thread, th[u].pc # "idle", NEW n \in On(0), n \notin Live
  PROVE  Vacant(u, key[n])
<1>1. \A m \in Live : key[m] # key[n]
  BY KeysOrdered DEF Base, Chained
<1> QED
  BY <1>1, KeysOrdered, VacantNow

-----------------------------------------------------------------------------
(* Standing on a trail.                                                     *)

LEMMA Follow ==
  ASSUME Base, NEW u, NEW S, Trail(u, S), NEW n \in Node, NEW l \in Level,
         <<n, l>> \in S, forward[n][l] # NoNode
  PROVE  <<forward[n][l], l>> \in S
BY KeysOrdered DEF Trail, Chained

LEMMA TrailGap ==
  ASSUME Base, HistoryInv, NEW u \in Thread, th[u].pc # "idle", NEW S, Trail(u, S),
         NEW n \in Node, <<n, 0>> \in S
  PROVE  /\ OnceOn(n, 0) /\ Gap(u, n)
         /\ n \in owned /\ ~ Readable(n) => Vacant(u, key[n])
<1>1. 0 \in Level
  BY Basics
<1>2. CASE n \in On(0) \union {HeadNode}
  BY <1>1, <1>2, GapNow, UnreadableNow, KeysOrdered DEF Trail, Live, Readable
<1>3. CASE n \notin On(0) \union {HeadNode}
  BY <1>1, <1>3 DEF Trail
<1> QED
  BY <1>2, <1>3

\* What a node leads to has been on its level.
LEMMA LeadsOn ==
  ASSUME Base, NEW n \in owned \union {HeadNode}, NEW l \in Level, forward[n][l] # NoNode
  PROVE  /\ forward[n][l] \in owned /\ Joined(forward[n][l], l)
         /\ n # HeadNode => key[n] < key[forward[n][l]]
BY DEF Base, LockInv, PointersJoined, IInv, Sorted

\* The nodes with the levels that they are on.
Places == {p \in Node \X Level : p[1] \in On(p[2]) \union {HeadNode}}

LEMMA PlacesNext ==
  /\ Places' \in SUBSET (Node \X Level)
  /\ \A n \in Node, l \in Level : (<<n, l>> \in Places <=> n \in On(l) \union {HeadNode})'
BY DEF Places, On, Joined, Left

\* A trail goes on through every step: what has left is still on it.
LEMMA TrailStep ==
  ASSUME Base, Base', HistoryInv, Watch, NEW t \in Thread, Steady(t),
         NEW u \in Thread, th[u].pc # "idle", th'[u].pc # "idle",
         NEW S \in SUBSET (Node \X Level), Trail(u, S)
  PROVE  \E T \in SUBSET (Node \X Level) : S \subseteq T /\ Trail(u, T)'
<1>0. /\ \A l \in Level : On(l)' \subseteq Node
      /\ HeadNode \in Node /\ HeadNode \notin owned
  BY SkipListAssumption, OwnedNode DEF Base, IInv, Typed, On
<1>1. PICK T \in SUBSET (Node \X Level) :
        /\ S \subseteq T
        /\ \A n \in Node, l \in Level : <<n, l>> \in T <=> <<n, l>> \in S \/ n \in On(l)' \union {HeadNode}
  <2>1. S \union Places' \in SUBSET (Node \X Level)
    BY PlacesNext
  <2>2. \A n \in Node, l \in Level : <<n, l>> \in S \union Places'
                                     <=> <<n, l>> \in S \/ n \in On(l)' \union {HeadNode}
    BY PlacesNext
  <2> QED
    BY <2>1, <2>2
<1>2. ASSUME NEW n \in Node, NEW l \in Level, <<n, l>> \in T
      PROVE  OnceOn(n, l)'
  BY <1>1, <1>2 DEF Trail, Steady, On, OnceOn
<1>3. ASSUME NEW n \in Node, NEW l \in Level, <<n, l>> \in T, NEW m \in Level, m <= l
      PROVE  <<n, m>> \in T
  BY <1>1, <1>3 DEF Trail, Base, Nested
<1>4. ASSUME NEW n \in Node, NEW l \in Level, <<n, l>> \in T, n \notin On(l)' \union {HeadNode}
      PROVE  /\ forward'[n][l] # NoNode => <<forward'[n][l], l>> \in T
             /\ l = 0 => Vacant(u, key[n])' /\ Gap(u, n)'
  <2>1. <<n, l>> \in S /\ OnceOn(n, l) /\ n \in owned
    BY <1>1, <1>4 DEF Trail, OnceOn, Joined
  <2>2. forward'[n][l] = forward[n][l] /\ key'[n] = key[n]
    BY <1>4, <2>1 DEF Steady, Others
  <2>3. forward[n][l] # NoNode => <<forward[n][l], l>> \in S
    BY <2>1, Follow
  <2>4. forward[n][l] # NoNode => forward[n][l] \in owned /\ key'[forward[n][l]] = key[forward[n][l]]
    BY <2>1, LeadsOn DEF Steady, Others
  <2>5. ASSUME l = 0
        PROVE  Vacant(u, key[n])' /\ Gap(u, n)'
    <3>1. Gap(u, n)
      BY <2>1, <2>5, TrailGap
    <3>2. Vacant(u, key[n])
      <4>1. CASE n \in On(0)
        <5>1. n \notin Live
          BY <1>4, <2>5, <4>1 DEF Steady, Live
        <5> QED
          BY <4>1, <5>1, UnreadableNow
      <4>2. CASE n \notin On(0)
        BY <1>0, <2>1, <2>5, <4>2 DEF Trail
      <4> QED
        BY <4>1, <4>2
    <3>3. Vacant(u, key[n])'
      BY <2>1, <2>2, <3>2, SeenGrows, KeysOrdered
    <3> QED
      BY <2>2, <2>4, <2>5, <3>1, <3>3, SeenGrows DEF Gap
  <2>6. forward'[n][l] # NoNode => <<forward'[n][l], l>> \in T
    BY <2>2, <2>3, <2>4, <1>1, KeysOrdered
  <2> QED
    BY <2>5, <2>6
<1>5. Trail(u, T)'
  <2>1. \A l \in Level : \A n \in On(l)' \union {HeadNode} : <<n, l>> \in T
    BY <1>0, <1>1
  <2> QED
    BY <2>1, <1>2, <1>3, <1>4 DEF Trail
<1> QED
  BY <1>1, <1>5
-----------------------------------------------------------------------------
(* A call whose thread does nothing keeps what it has.                      *)

LEMMA TrailKept ==
  ASSUME Base, Base', HistoryInv, Watch, NEW t \in Thread, Steady(t),
         NEW u \in Thread, th'[u] = th[u], th[u].pc # "idle"
  PROVE  OnTrail(u)'
<1>1. PICK S \in SUBSET (Node \X Level) : Trail(u, S) /\ Stands(th[u], S)
  BY DEF HistoryInv, History, OnTrail
<1>2. PICK T \in SUBSET (Node \X Level) : S \subseteq T /\ Trail(u, T)'
  BY <1>1, TrailStep
<1>3. Stands(th[u], T)'
  BY <1>1, <1>2 DEF Stands
<1> QED
  BY <1>2, <1>3 DEF OnTrail

\* A node that is published while Get is between its two loads is in the history.
LEMMA RereadingKept ==
  ASSUME Base, Base', HistoryInv, Watch, NEW t \in Thread, Steady(t),
         NEW u \in Thread, th'[u] = th[u]
  PROVE  Rereading(u)'
<1> DEFINE p == th[u].pred
           k == th[u].request.key
<1> SUFFICES ASSUME th[u].pc = "reread"
             PROVE  Rereading(u)'
  BY DEF Rereading
<1>1. /\ p \in owned \union {HeadNode} /\ (p = HeadNode \/ key[p] < k)
      /\ \A j \in Key : (p = HeadNode \/ key[p] < j) /\ j < k => Vacant(u, j)
      /\ \A n \in owned :
           /\ n = forward[p][0] \/ (n \in On(0) /\ p \in On(0) \union {HeadNode})
           /\ After(p, n) /\ key[n] < k /\ linked[n]
           => seen[u][key[n]] # {Absent}
  BY DEF HistoryInv, History, Rereading
<1>2. OnceOn(p, 0) /\ p \in Node
  <2>1. PICK S \in SUBSET (Node \X Level) : Trail(u, S) /\ <<p, 0>> \in S
    BY DEF HistoryInv, History, OnTrail, Stands
  <2> QED
    BY <1>1, <2>1, TrailGap, KeysOrdered
<1>3. /\ owned \subseteq owned' /\ \A n \in owned : key'[n] = key[n]
      /\ p # HeadNode => key'[p] = key[p]
  BY <1>1 DEF Steady, Others
<1>4. \A j \in Key : (p = HeadNode \/ key'[p] < j) /\ j < k => Vacant(u, j)'
  BY <1>1, <1>3, SeenGrows
<1>5. ASSUME NEW n \in owned', linked'[n], key'[n] < k, After(p, n)',
             n = forward'[p][0] \/ (n \in On(0)' /\ p \in On(0)' \union {HeadNode})
      PROVE  seen'[u][key'[n]] # {Absent}
  <2>1. CASE n \in Live'
    <3>1. /\ key'[n] \in Key /\ Map'[key'[n]] = value'[n] /\ value'[n] \in Value
      BY <2>1, SkipListAssumption DEF Base, MapShown, IInv, Typed, Live
    <3> QED
      BY <3>1, SeenGrows, AbsentAssumption
  <2>2. CASE n \notin Live'
    <3>1. n \in owned /\ linked[n] /\ key'[n] = key[n] /\ key[n] \in Key
      BY <1>3, <1>5, <2>2, KeysOrdered DEF Steady
    <3>2. After(p, n) /\ key[n] < k
      BY <1>3, <1>5, <3>1 DEF After
    <3>3. n = forward[p][0] \/ (n \in On(0) /\ p \in On(0) \union {HeadNode})
      <4>1. CASE n \in On(0)' /\ p \in On(0)' \union {HeadNode}
        BY <1>2, <1>5, <3>1, <4>1, KeysOrdered DEF Steady
      <4>2. CASE n = forward'[p][0] /\ p \in On(0)' \union {HeadNode}
        <5>1. n # NoNode
          BY <3>1, KeysOrdered
        <5>2. n \in On(0)'
          BY <4>2, <5>1, Basics DEF Base, LockInv, Chained
        <5> QED
          BY <4>1, <4>2, <5>2
      <4>3. CASE n = forward'[p][0] /\ p \notin On(0)' \union {HeadNode}
        BY <1>1, <1>2, <4>3, KeysOrdered DEF Steady
      <4> QED
        BY <1>5, <4>1, <4>2, <4>3
    <3>4. seen[u][key[n]] # {Absent}
      BY <1>1, <3>1, <3>2, <3>3
    <3>5. Map[key[n]] \in seen[u][key[n]]
      BY <3>1 DEF HistoryInv, History, Recorded
    <3> QED
      BY <3>1, <3>4, <3>5, SeenGrows
  <2> QED
    BY <2>1, <2>2
<1> QED
  BY <1>1, <1>3, <1>4, <1>5 DEF Rereading

LEMMA WalkingKept ==
  ASSUME Base, Base', HistoryInv, Watch, NEW t \in Thread, Steady(t),
         NEW u \in Thread, th'[u] = th[u]
  PROVE  Walking(u)'
<1> DEFINE me == th[u]
<1> SUFFICES ASSUME me.pc \in {"next", "walk", "collect"}
             PROVE  Walking(u)'
  BY DEF Walking
<1>1. Walking(u) /\ Collecting(me) /\ me.out \in Seq(Key \X Value)
  BY LocalTypes DEF HistoryInv, History, Base, OutputInv, Output, IInv
<1>2. me.node # HeadNode /\ me.node # NoNode => key'[me.node] = key[me.node]
  BY <1>1 DEF Collecting, Steady, Others
<1>3. \A j \in Key : Beyond(me, j)' <=> Beyond(me, j)
  BY <1>2 DEF Beyond
<1>4. \A i \in 1 .. Len(me.out) : me.out[i][1] \in Key
  BY <1>1
<1>5. \A k \in Key : Absent \in seen[u][k] => Absent \in seen'[u][k]
  BY SeenGrows
<1>6. \A i \in 1 .. Len(me.out) :
         /\ Abstract!MayReport(me.request, me.out[i][1], seen'[u])
         /\ me.out[i][2] \in seen'[u][me.out[i][1]] \ {Absent}
  BY <1>1, <1>4, <1>5, SeenGrows DEF Walking, Abstract!MayReport
<1>7. me.pc = "collect" => key'[me.node] = key[me.node]
  BY <1>1, KeysOrdered DEF Collecting, Base, IInv, LocalsOK, LocalOK, Steady, Others
<1> QED
  BY <1>1, <1>3, <1>5, <1>6, <1>7 DEF Walking, Vacant

LEMMA SettledKept ==
  ASSUME Base, Base', HistoryInv, NEW t \in Thread, Steady(t), NEW u \in Thread, th'[u] = th[u]
  PROVE  Settled(th[u])'
<1>1. Settled(th[u]) /\ Inserting(u)
  BY DEF HistoryInv, History, Base, LockInv, Own
<1> QED
  BY <1>1 DEF Settled, Inserting, Steady, Others

LEMMA KeptHistory ==
  ASSUME Base, Base', HistoryInv, Watch, NEW t \in Thread, Steady(t),
         NEW u \in Thread, th'[u] = th[u]
  PROVE  History(u)'
<1>1. Recorded(u)'
  <2>1. CASE th[u].pc = "idle"
    BY <2>1 DEF Recorded, Watch
  <2>2. CASE th[u].pc # "idle"
    <3>1. \A k \in Key : Map'[k] \in seen'[u][k] /\ (Vacant(u, k) => Vacant(u, k)')
      BY <2>2, SeenGrows
    <3>2. th[u].pc = "decide" /\ th[u].request.name = "Delete" => th[u].request.key \in Key
      BY KeyedRequest DEF Base, IInv, Keyed
    <3> QED
      BY <2>2, <3>1, <3>2 DEF Recorded, HistoryInv, History
  <2> QED
    BY <2>1, <2>2
<1> QED
  BY <1>1, TrailKept, RereadingKept, WalkingKept, SettledKept DEF History
-----------------------------------------------------------------------------
(* The thread that takes the step.                                          *)

LEMMA IdleHistory ==
  ASSUME Watch, NEW t \in Thread, th'[t].pc = "idle"
  PROVE  History(t)'
BY DEF History, Recorded, Watch, Settled, Rereading, Walking

\* A call that goes on stays on its trail.
LEMMA MovedHistory ==
  ASSUME Base, Base', HistoryInv, Watch, NEW t \in Thread, Steady(t),
         th[t].pc # "idle", th'[t].pc # "idle",
         Settled(th[t])', Rereading(t)', Walking(t)',
         th'[t].pc = "decide" /\ th'[t].request.name = "Delete" /\ th'[t].node = NoNode =>
           th'[t].request.key \in Key /\ Vacant(t, th'[t].request.key),
         \A S \in SUBSET (Node \X Level) : Trail(t, S) /\ Stands(th[t], S) => Stands(th[t], S)'
  PROVE  History(t)'
<1>1. Recorded(t)'
  <2>1. \A k \in Key : Map'[k] \in seen'[t][k] /\ (Vacant(t, k) => Absent \in seen'[t][k])
    BY SeenGrows DEF Vacant
  <2> QED
    BY <2>1 DEF Recorded, Vacant
<1>2. PICK S \in SUBSET (Node \X Level) : Trail(t, S) /\ Stands(th[t], S)
  BY DEF HistoryInv, History, OnTrail
<1>3. PICK T \in SUBSET (Node \X Level) : S \subseteq T /\ Trail(t, T)'
  BY <1>2, TrailStep
<1>4. Stands(th[t], S)'
  BY <1>2
<1>5. Stands(th[t], T)'
  BY <1>3, <1>4 DEF Stands
<1>6. OnTrail(t)'
  BY <1>3, <1>5 DEF OnTrail
<1> QED
  BY <1>1, <1>6 DEF History

\* Where a call is about its own node, it relies on nothing else.
Busy == {"start", "lock", "link", "publish", "count", "raise", "unlink", "uncount",
         "recompute", "lower"}

LEMMA BusyHistory ==
  ASSUME Base, Base', HistoryInv, Watch, NEW t \in Thread, Steady(t),
         th[t].pc # "idle", th'[t].pc \in Busy, Settled(th[t])'
  PROVE  History(t)'
<1>1. Rereading(t)' /\ Walking(t)' /\ th'[t].pc # "decide" /\ th'[t].pc # "idle"
  BY DEF Rereading, Walking, Busy
<1>2. \A S : Stands(th[t], S)'
  BY DEF Stands, Busy
<1> QED
  BY <1>1, <1>2, MovedHistory

LEMMA CallHistory ==
  ASSUME Base, Base', HistoryInv, Watch, NEW t \in Thread, Call(t)
  PROVE  History(t)'
<1>t. th \in [Thread -> ThreadState]
  BY DEF Base, IInv, Typed
<1>1. PICK r \in Work[t][calls[t] + 1] : th' = [th EXCEPT ![t] =
          IF r.name = "Snapshot" THEN [Fresh("next", r) EXCEPT !.node = HeadNode]
                                 ELSE Fresh("start", r)]
  BY DEF Call
<1>2. /\ th'[t].out = <<>> /\ th'[t].ok = FALSE /\ th'[t].request = r
      /\ \/ th'[t].pc = "start"
         \/ th'[t].pc = "next" /\ th'[t].node = HeadNode /\ r.name = "Snapshot"
  BY <1>t, <1>1 DEF Fresh
<1>3. Recorded(t)'
  BY <1>2, SeenGrows DEF Recorded
<1>4. Settled(th[t])' /\ Rereading(t)'
  BY <1>2 DEF Settled, Rereading
<1>5. Walking(t)'
  BY <1>2 DEF Walking, Beyond
<1>6. Trail(t, Places)'
  <2>1. /\ \A l \in Level : On(l)' \subseteq owned' /\ owned' \subseteq Node
        /\ HeadNode \in Node /\ Nested'
    BY SkipListAssumption DEF Base, IInv, Typed, On
  <2>2. \A l \in Level : \A n \in On(l)' \union {HeadNode} : <<n, l>> \in Places'
    BY <2>1, PlacesNext
  <2>3. \A n \in Node, l \in Level : <<n, l>> \in Places' => n \in On(l)' \union {HeadNode}
    BY PlacesNext
  <2>4. \A n \in Node, l \in Level : n \in On(l)' \union {HeadNode} => OnceOn(n, l)'
    BY DEF On, OnceOn
  <2>5. ASSUME NEW n \in Node, NEW l \in Level, NEW m \in Level, m <= l, <<n, l>> \in Places'
        PROVE  <<n, m>> \in Places'
    BY <2>1, <2>2, <2>3, <2>5 DEF Nested
  <2> QED
    BY <2>2, <2>3, <2>4, <2>5 DEF Trail
<1>7. Stands(th[t], Places)'
  <2>1. <<HeadNode, 0>> \in Places'
    BY PlacesNext, Basics, SkipListAssumption
  <2> QED
    BY <1>2, <2>1 DEF Stands
<1>8. OnTrail(t)'
  <2>1. PICK T : T = Places'
    OBVIOUS
  <2>2. T \in SUBSET (Node \X Level) /\ Trail(t, T)' /\ Stands(th[t], T)'
    BY <1>6, <1>7, <2>1, PlacesNext
  <2> QED
    BY <2>2 DEF OnTrail
<1> QED
  BY <1>3, <1>4, <1>5, <1>8 DEF History

\* A call that starts over, or that returns.
LEMMA AgainHistory ==
  ASSUME Base, Base', HistoryInv, Watch, NEW t \in Thread, Steady(t), th[t].pc # "idle",
         Retry(t) \/ Return(t, TRUE, <<>>) \/ Return(t, FALSE, <<>>)
  PROVE  History(t)'
<1>t. Typed /\ th \in [Thread -> ThreadState]
  BY DEF Base, IInv, Typed
<1>1. CASE Retry(t)
  <2>1. th'[t].pc = "start" /\ th'[t].ok = FALSE
    BY <1>t, <1>1 DEF Retry, Fresh
  <2> QED
    BY <2>1, BusyHistory DEF Busy, Settled
<1>2. CASE Return(t, TRUE, <<>>) \/ Return(t, FALSE, <<>>)
  BY <1>t, <1>2, ReturnEmptyType, IdleHistory
<1> QED
  BY <1>1, <1>2
LEMMA SharedHistory ==
  ASSUME Base, Base', HistoryInv, Watch, NEW t \in Thread, SharedStep(t)
  PROVE  History(t)'
<1>t. /\ Typed /\ th \in [Thread -> ThreadState] /\ th[t] \in ThreadState /\ Steady(t)
      /\ Settled(th[t]) /\ IInv
  BY StepSteady DEF Base, IInv, Typed, Step, HistoryInv, History
<1>1. CASE LockNext(t)
  BY <1>t, <1>1, KeptHistory DEF LockNext
<1>2. CASE UpdateExisting(t) \/ InsertRetry(t) \/ DeleteRetry(t) \/ Raise(t) \/ Lower(t)
  <2>1. th[t].pc # "idle"
    BY <1>2 DEF UpdateExisting, InsertRetry, DeleteRetry, Raise, Lower, At
  <2>2. Retry(t) \/ Return(t, TRUE, <<>>) \/ Return(t, FALSE, <<>>)
    BY <1>2 DEF UpdateExisting, InsertRetry, DeleteRetry, Raise, Lower
  <2> QED
    BY <1>t, <2>1, <2>2, AgainHistory
<1>3. CASE Insert(t)
  <2>1. Settled(th[t])'
    BY <1>t, <1>3, InsertSteady DEF Settled
  <2> QED
    BY <1>t, <1>3, <2>1, InsertSteady, BusyHistory DEF Busy
<1>4. CASE LinkLevel(t)
  <2>1. /\ th[t].pc = "link" /\ th'[t].pc \in {"link", "publish"} /\ UNCHANGED <<key, value>>
        /\ th'[t].node = th[t].node /\ th'[t].request = th[t].request /\ th'[t].ok = th[t].ok
    BY <1>t, <1>4 DEF LinkLevel, Goto, ThreadState, content
  <2>2. Settled(th[t])'
    BY <1>t, <2>1 DEF Settled
  <2> QED
    BY <1>t, <2>1, <2>2, BusyHistory DEF Busy
<1>5. CASE Publish(t) \/ Count(t) \/ Mark(t) \/ UnlinkLevel(t) \/ Uncount(t)
  <2>1. /\ th[t].pc # "idle" /\ th'[t].ok = th[t].ok
        /\ th'[t].pc \in {"count", "raise", "unlink", "uncount", "recompute"}
    BY <1>t, <1>5 DEF Publish, Count, Mark, UnlinkLevel, Uncount, Goto, ThreadState, At
  <2>2. Settled(th[t])'
    BY <1>t, <2>1 DEF Settled
  <2> QED
    BY <1>t, <2>1, <2>2, BusyHistory DEF Busy
<1> QED
  BY <1>1, <1>2, <1>3, <1>4, <1>5 DEF SharedStep

\* The search without the last step.
LEMMA SearchHistory ==
  ASSUME Base, Base', HistoryInv, Watch, NEW t \in Thread, LocalStep(t),
         Start(t) \/ Advance(t) \/ Descend(t)
  PROVE  History(t)'
<1>t. /\ Typed /\ th \in [Thread -> ThreadState] /\ th[t] \in ThreadState /\ Steady(t)
      /\ th' \in [Thread -> ThreadState] /\ th'[t] \in ThreadState
      /\ Settled(th[t]) /\ IInv
  BY StepSteady DEF Base, IInv, Typed, Step, HistoryInv, History
<1>1. CASE Start(t)
  <2>1. LocalOK(th[t]) /\ th[t].pc = "start"
    BY <1>t, <1>1 DEF Start, IInv, LocalsOK
  <2>2. /\ th'[t].pc = "find" /\ th'[t].ok = th[t].ok /\ th'[t].pred = th[t].pred
        /\ th'[t].level \in Level
    BY <1>t, <1>1 DEF Start, ThreadState
  <2>3. \A S \in SUBSET (Node \X Level) : Trail(t, S) /\ Stands(th[t], S) => Stands(th[t], S)'
    BY <2>1, <2>2 DEF LocalOK, Trail, Stands
  <2> QED
    BY <1>t, <2>1, <2>2, <2>3, MovedHistory DEF Settled, Rereading, Walking
<1>2. CASE Advance(t)
  <2>1. th[t].pc = "find" /\ Current(t) # NoNode
    BY <1>2 DEF Advance, Before
  <2>2. /\ th'[t].pc = "find" /\ th'[t].ok = th[t].ok /\ th'[t].pred = Current(t)
        /\ th'[t].level = th[t].level /\ th[t].level \in Level /\ th[t].pred \in Node
    BY <1>t, <1>2, <2>1 DEF Advance, ThreadState
  <2>3. \A S \in SUBSET (Node \X Level) : Trail(t, S) /\ Stands(th[t], S) => Stands(th[t], S)'
    BY <2>1, <2>2, Follow DEF Stands, Current
  <2> QED
    BY <1>t, <2>1, <2>2, <2>3, MovedHistory DEF Settled, Rereading, Walking
<1>3. CASE Descend(t)
  <2>1. th[t].pc = "find" /\ th[t].level > 0 /\ ~ Before(Current(t), th[t].request.key)
    BY <1>3 DEF Descend
  <2>2. /\ Record(t) \in ThreadState /\ Record(t).pc = "find" /\ Record(t).level = th[t].level
        /\ Record(t).pred = th[t].pred /\ Record(t).ok = th[t].ok
    BY <1>t, <2>1, RecordKeeps DEF Record, ThreadState
  <2>3. /\ th'[t].pc = "find" /\ th'[t].ok = th[t].ok /\ th'[t].pred = th[t].pred
        /\ th'[t].level = th[t].level - 1
    BY <1>t, <1>3, <2>2 DEF Descend, ThreadState
  <2>4. th[t].level \in Level /\ th'[t].level \in Level /\ th'[t].level <= th[t].level /\ th[t].pred \in Node
    BY <1>t, <2>3, Basics DEF ThreadState
  <2>5. \A S \in SUBSET (Node \X Level) : Trail(t, S) /\ Stands(th[t], S) => Stands(th[t], S)'
    BY <2>1, <2>3, <2>4 DEF Trail, Stands
  <2> QED
    BY <1>t, <2>1, <2>3, <2>5, MovedHistory DEF Settled, Rereading, Walking
<1> QED
  BY <1>1, <1>2, <1>3

\* Where a search ends, the keys between its predecessor and the one that it
\* looks for were absent, and that one too if the next node has another key.
LEMMA SearchGap ==
  ASSUME Base, HistoryInv, NEW t \in Thread, th[t].pc = "find", th[t].level = 0,
         ~ Before(Current(t), th[t].request.key)
  PROVE  LET p == th[t].pred
             k == th[t].request.key IN
         /\ k \in Key /\ k \in Int
         /\ p \in owned \union {HeadNode} /\ (p = HeadNode \/ key[p] < k)
         /\ \A j \in Key : (p = HeadNode \/ key[p] < j) /\ j < k => Vacant(t, j)
         /\ ~ Holds(Current(t), k) => Vacant(t, k)
         /\ forward[p][0] # NoNode => k <= key[forward[p][0]]
<1> DEFINE p == th[t].pred
           k == th[t].request.key
<1>1. th[t].request.name \in Keyed /\ Brackets(th[t])
  BY DEF Base, IInv, LocalsOK, LocalOK, SearchBracketsKey
<1>2. k \in Key /\ k \in Int
  BY <1>1, KeyedRequest DEF Base, IInv
<1>3. p \in owned \union {HeadNode} /\ (p = HeadNode \/ key[p] < k) /\ p \in Node
  BY <1>1, KeysOrdered DEF Brackets, Precedes
<1>4. Gap(t, p)
  <2>1. PICK S \in SUBSET (Node \X Level) : Trail(t, S) /\ <<p, 0>> \in S
    BY DEF HistoryInv, History, OnTrail, Stands
  <2> QED
    BY <1>3, <2>1, TrailGap
<1>5. /\ Current(t) = forward[p][0]
      /\ forward[p][0] # NoNode => key[forward[p][0]] \in Int
  BY <1>3, LeadsOn, KeysOrdered DEF Current
<1>6. forward[p][0] # NoNode => k <= key[forward[p][0]]
  BY <1>2, <1>5 DEF Before
<1>7. \A j \in Key : (p = HeadNode \/ key[p] < j) /\ j < k => Vacant(t, j)
  BY <1>2, <1>4, <1>5, <1>6, KeysOrdered DEF Gap
<1>8. ~ Holds(Current(t), k) => Vacant(t, k)
  BY <1>2, <1>3, <1>4, <1>5, <1>6 DEF Gap, Holds
<1> QED
  BY <1>2, <1>3, <1>6, <1>7, <1>8
LEMMA FinishFindHistory ==
  ASSUME Base, Base', HistoryInv, Watch, NEW t \in Thread, LocalStep(t), FinishFind(t)
  PROVE  History(t)'
<1> DEFINE name == th[t].request.name
           p    == th[t].pred
           k    == th[t].request.key
<1>t. /\ Typed /\ th \in [Thread -> ThreadState] /\ th[t] \in ThreadState /\ Steady(t)
      /\ Settled(th[t]) /\ IInv /\ Output(th[t])
      /\ UNCHANGED <<key, top, forward, marked, linked, owned>>
  BY StepSteady, LocalOthers DEF Base, IInv, Typed, Step, HistoryInv, History, OutputInv
<1>1. /\ th[t].pc = "find" /\ th[t].level = 0 /\ ~ Before(Current(t), k)
      /\ name \in {"Put", "Delete", "Get", "Scan"}
  BY <1>t DEF FinishFind, IInv, LocalsOK, LocalOK, Keyed
<1>2. /\ Record(t) \in ThreadState /\ Record(t).request = th[t].request /\ Record(t).pred = p
      /\ Record(t).ok = th[t].ok /\ Record(t).out = th[t].out
      /\ name = "Delete" => Record(t).node = IF FirstFound(t) THEN Current(t) ELSE th[t].node
  BY <1>t, <1>1, RecordKeeps DEF Record, ThreadState
<1>3. /\ th'[t].request = th[t].request /\ th'[t].pred = p
      /\ ~ th'[t].ok /\ th'[t].out = <<>>
      /\ th'[t].pc = Continuation[name]
      /\ th'[t].node = IF name = "Scan" THEN p ELSE Record(t).node
  BY <1>t, <1>1, <1>2 DEF FinishFind, ThreadState, Output, Settled
<1>4. /\ k \in Key /\ k \in Int /\ p \in owned \union {HeadNode} /\ (p = HeadNode \/ key[p] < k)
      /\ \A j \in Key : (p = HeadNode \/ key[p] < j) /\ j < k => Vacant(t, j)
      /\ ~ Holds(Current(t), k) => Vacant(t, k)
      /\ forward[p][0] # NoNode => k <= key[forward[p][0]]
  BY <1>1, SearchGap
<1>5. Settled(th[t])'
  BY <1>1, <1>3 DEF Settled, Continuation
<1>6. \A j \in Key : Vacant(t, j) => Vacant(t, j)'
  BY <1>1, <1>3, SeenGrows DEF Continuation
<1>7. CASE name \in {"Put", "Delete"}
  <2>1. th'[t].pc = "decide"
    BY <1>3, <1>7 DEF Continuation
  <2>2. name = "Delete" /\ th'[t].node = NoNode => Vacant(t, k)
    BY <1>2, <1>3, <1>4 DEF FirstFound, Holds
  <2>3. \A S : Stands(th[t], S)'
    BY <2>1 DEF Stands
  <2> QED
    BY <1>t, <1>1, <1>3, <1>4, <1>5, <2>1, <2>2, <2>3, MovedHistory DEF Rereading, Walking
<1>8. CASE name = "Get"
  <2>1. th'[t].pc = "reread"
    BY <1>3, <1>8 DEF Continuation
  <2>2. ASSUME NEW n \in owned', n = forward'[p][0] \/ (n \in On(0)' /\ p \in On(0)' \union {HeadNode}),
               After(p, n)', key'[n] < k
        PROVE  FALSE
    <3>1. forward[p][0] # NoNode /\ key[forward[p][0]] <= key[n]
      <4>1. CASE n = forward'[p][0]
        BY <1>t, <2>2, <4>1, KeysOrdered
      <4>2. CASE n \in On(0)' /\ p \in On(0)' \union {HeadNode}
        <5>1. Chained(0)'
          BY Basics DEF Base, LockInv
        <5>2. forward'[p][0] # NoNode /\ key'[forward'[p][0]] <= key'[n]
          BY <1>3, <2>2, <4>2, <5>1 DEF Chained
        <5> QED
          BY <1>t, <5>2
      <4> QED
        BY <2>2, <4>1, <4>2
    <3> QED
      BY <1>t, <1>4, <2>2, <3>1, KeysOrdered, LeadsOn
  <2>3. Rereading(t)'
    BY <1>t, <1>3, <1>4, <1>6, <2>2 DEF Rereading
  <2>4. \A S \in SUBSET (Node \X Level) : Trail(t, S) /\ Stands(th[t], S) => Stands(th[t], S)'
    BY <1>1, <1>3, <2>1 DEF Stands
  <2> QED
    BY <1>t, <1>1, <1>5, <2>1, <2>3, <2>4, MovedHistory DEF Walking
<1>9. CASE name = "Scan"
  <2>1. th'[t].pc = "next" /\ th'[t].node = p
    BY <1>3, <1>9 DEF Continuation
  <2>2. \A j \in Key : k <= j => Beyond(th[t], j)'
    BY <1>t, <1>4, <2>1, KeysOrdered DEF Beyond
  <2>3. \A j \in Key : Beyond(th[t], j)' => p = HeadNode \/ key[p] < j
    BY <1>t, <2>1 DEF Beyond
  <2>4. Walking(t)'
    BY <1>3, <1>4, <1>6, <1>9, <2>1, <2>2, <2>3 DEF Walking, Abstract!InRange
  <2>5. \A S \in SUBSET (Node \X Level) : Trail(t, S) /\ Stands(th[t], S) => Stands(th[t], S)'
    BY <1>1, <1>3, <2>1 DEF Stands
  <2> QED
    BY <1>t, <1>1, <1>5, <2>1, <2>4, <2>5, MovedHistory DEF Rereading
<1> QED
  BY <1>1, <1>7, <1>8, <1>9

LEMMA GetHistory ==
  ASSUME Base, Base', HistoryInv, Watch, NEW t \in Thread, LocalStep(t),
         Reread(t) \/ Peek(t) \/ Read(t)
  PROVE  History(t)'
<1>t. /\ Typed /\ th \in [Thread -> ThreadState] /\ th[t] \in ThreadState /\ Steady(t)
      /\ Settled(th[t]) /\ IInv /\ LocalOK(th[t])
      /\ UNCHANGED <<key, top, forward, marked, linked, owned>>
  BY StepSteady, LocalOthers DEF Base, IInv, LocalsOK, Typed, Step, HistoryInv, History
<1>0. th[t].pc \in {"reread", "peek", "read"}
  BY DEF Reread, Peek, Read
<1>1. CASE Reread(t) /\ Holds(forward[th[t].pred][0], th[t].request.key)
  <2>1. /\ th'[t].pc = "peek" /\ th'[t].node = forward[th[t].pred][0] /\ th[t].pc = "reread"
        /\ th'[t].ok = th[t].ok /\ th'[t].request = th[t].request
    BY <1>t, <1>1 DEF Reread, ThreadState
  <2>2. /\ th[t].pred \in owned \union {HeadNode} /\ th[t].pred \in Node
        /\ forward[th[t].pred][0] # NoNode /\ key[forward[th[t].pred][0]] = th[t].request.key
    BY <1>1, <2>1, KeysOrdered DEF HistoryInv, History, Rereading, Holds
  <2>3. forward[th[t].pred][0] \in owned
    BY <2>2, LeadsOn, Basics
  <2>4. Settled(th[t])'
    BY <1>t, <2>1, <2>2, <2>3 DEF Settled
  <2>5. \A S \in SUBSET (Node \X Level) : Trail(t, S) /\ Stands(th[t], S) => Stands(th[t], S)'
    BY <2>1, <2>2, Follow, Basics DEF Stands
  <2> QED
    BY <1>t, <2>1, <2>4, <2>5, MovedHistory DEF Rereading, Walking
<1>2. CASE Peek(t) /\ Readable(th[t].node)
  <2>1. /\ th'[t].pc = "read" /\ th'[t].node = th[t].node /\ th[t].pc = "peek"
        /\ th'[t].ok = th[t].ok /\ th'[t].request = th[t].request
    BY <1>t, <1>2 DEF Peek, Goto, ThreadState
  <2>2. Settled(th[t])'
    BY <1>t, <2>1 DEF Settled
  <2>3. \A S \in SUBSET (Node \X Level) : Trail(t, S) /\ Stands(th[t], S) => Stands(th[t], S)'
    BY <2>1 DEF Stands
  <2> QED
    BY <1>t, <2>1, <2>2, <2>3, MovedHistory DEF Rereading, Walking
<1>3. CASE Return(t, FALSE, <<>>)
  BY <1>t, <1>0, <1>3, AgainHistory
<1>4. CASE Read(t) /\ Readable(th[t].node)
  <2>1. th'[t].pc = "idle"
    BY <1>t, <1>4 DEF Read, Return, Fresh
  <2> QED
    BY <2>1, IdleHistory
<1> QED
  BY <1>1, <1>2, <1>3, <1>4 DEF Reread, Peek, Read
\* The walks of Scan and Snapshot.
LEMMA WalkHistory ==
  ASSUME Base, Base', HistoryInv, Watch, NEW t \in Thread, LocalStep(t),
         StepNext(t) \/ ReturnWalk(t) \/ Walk(t) \/ Collect(t)
  PROVE  History(t)'
<1> DEFINE me == th[t]
           n  == th[t].node
           k  == th[t].request.key
<1>t. /\ Typed /\ th \in [Thread -> ThreadState] /\ th[t] \in ThreadState /\ Steady(t)
      /\ Settled(th[t]) /\ Walking(t) /\ Collecting(me) /\ LocalOK(me)
      /\ UNCHANGED <<key, value, top, forward, marked, linked, owned>>
  BY StepSteady, LocalOthers
     DEF Base, IInv, LocalsOK, Typed, Step, HistoryInv, History, OutputInv, Output, LocalStep,
         heap, content
<1>0. me.pc \in {"next", "walk", "collect"}
  BY DEF StepNext, ReturnWalk, Walk, Collect
<1>1. /\ me.request.name \in {"Scan", "Snapshot"}
      /\ \A i \in 1 .. Len(me.out) :
           /\ Abstract!MayReport(me.request, me.out[i][1], seen[t])
           /\ me.out[i][2] \in seen[t][me.out[i][1]] \ {Absent}
      /\ \A j \in Key : Abstract!InRange(me.request, j) /\ ~ Beyond(me, j) =>
           Vacant(t, j) \/ \E i \in 1 .. Len(me.out) : me.out[i][1] = j
      /\ me.request.name = "Scan" =>
           /\ \A j \in Key : Beyond(me, j) /\ j < k => Vacant(t, j)
           /\ me.pc = "collect" => key[n] <= me.request.end
  BY <1>t, <1>0 DEF Walking
<1>2. /\ me.out \in Seq(Key \X Value) /\ \A i \in 1 .. Len(me.out) : me.out[i][1] \in Key
      /\ me.request.name = "Scan" => k \in Int /\ me.request.end \in Int
  <2>1. me.out \in Seq(Key \X Value) /\ me.request \in Request \union {NoRequest}
    BY <1>t, LocalTypes
  <2>2. me.request.name = "Scan" => k \in Key /\ me.request.end \in Key
    BY <1>1, <2>1 DEF Request, NoRequest
  <2> QED
    BY <2>1, <2>2, KeysOrdered
<1>3. ASSUME th'[t].pc # "idle"
      PROVE  /\ \A j \in Key : Vacant(t, j) => Vacant(t, j)'
             /\ \A i \in 1 .. Len(me.out) :
                  /\ Abstract!MayReport(me.request, me.out[i][1], seen'[t])
                  /\ me.out[i][2] \in seen'[t][me.out[i][1]] \ {Absent}
  BY <1>1, <1>2, <1>3, SeenGrows DEF Vacant, Abstract!MayReport
<1>4. \A j \in Key : j \in Int
  BY KeysOrdered
<1>5. CASE StepNext(t)
  <2> DEFINE m == forward[n][0]
  <2>1. /\ me.pc = "next" /\ th'[t].pc = "walk" /\ th'[t].node = m
        /\ th'[t].request = me.request /\ th'[t].out = me.out /\ th'[t].ok = me.ok
    BY <1>t, <1>5 DEF StepNext, ThreadState
  <2>2. n \in owned \union {HeadNode} /\ n # NoNode /\ n \in Node
    BY <1>t, <2>1, KeysOrdered DEF Collecting, LocalOK
  <2>3. m # NoNode => m \in owned /\ m # HeadNode /\ (n # HeadNode => key[n] < key[m]) /\ key[m] \in Int
    BY <2>2, LeadsOn, Basics, KeysOrdered
  <2>4. Gap(t, n)
    <3>1. PICK S \in SUBSET (Node \X Level) : Trail(t, S) /\ <<n, 0>> \in S
      BY <2>1, <2>2 DEF HistoryInv, History, OnTrail, Stands
    <3> QED
      BY <2>1, <2>2, <3>1, TrailGap
  <2>5. \A j \in Key : Beyond(me, j) /\ ~ Beyond(th[t], j)' => Vacant(t, j)
    BY <1>t, <1>4, <2>1, <2>2, <2>3, <2>4 DEF Beyond, Gap
  <2>6. \A j \in Key : Beyond(th[t], j)' => Beyond(me, j)
    BY <1>t, <1>4, <2>1, <2>2, <2>3, KeysOrdered DEF Beyond
  <2>7. Walking(t)'
    BY <1>1, <1>3, <2>1, <2>5, <2>6 DEF Walking
  <2>8. \A S \in SUBSET (Node \X Level) : Trail(t, S) /\ Stands(th[t], S) => Stands(th[t], S)'
    BY <2>1, <2>2, Follow, Basics DEF Stands
  <2> QED
    BY <1>t, <2>1, <2>7, <2>8, MovedHistory DEF Settled, Rereading
<1>6. CASE ReturnWalk(t)
  <2>1. th'[t].pc = "idle"
    BY <1>t, <1>6 DEF ReturnWalk, Return, Fresh
  <2> QED
    BY <2>1, IdleHistory
<1>7. ASSUME me.pc \in {"walk", "collect"}, n # NoNode
      PROVE  /\ n \in owned /\ n # HeadNode /\ key[n] \in Key /\ key[n] \in Int
             /\ ~ Readable(n) => Vacant(t, key[n])
             /\ Readable(n) => value[n] \in seen[t][key[n]] \ {Absent}
  <2>1. n \in owned /\ n # HeadNode /\ n \in Node /\ key[n] \in Key /\ key[n] \in Int
    BY <1>t, <1>7, KeysOrdered DEF Collecting
  <2>2. PICK S \in SUBSET (Node \X Level) : Trail(t, S) /\ <<n, 0>> \in S
    BY <1>7 DEF HistoryInv, History, OnTrail, Stands
  <2>3. ~ Readable(n) => Vacant(t, key[n])
    BY <1>7, <2>1, <2>2, TrailGap
  <2>4. ASSUME Readable(n)
        PROVE  value[n] \in seen[t][key[n]] \ {Absent}
    <3>1. n \in Live
      BY <2>1, <2>4 DEF Live, Readable
    <3>2. Map[key[n]] = value[n] /\ value[n] \in Value
      BY <3>1 DEF Base, MapShown
    <3> QED
      BY <1>7, <2>1, <3>2, AbsentAssumption DEF HistoryInv, History, Recorded
  <2> QED
    BY <2>1, <2>3, <2>4
<1>8. CASE Walk(t)
  <2>1. /\ me.pc = "walk" /\ n # NoNode
        /\ me.request.name = "Scan" => key[n] <= me.request.end
    BY <1>2, <1>7, <1>8 DEF Walk, PastEnd
  <2>2. /\ th'[t].node = n /\ th'[t].request = me.request /\ th'[t].out = me.out
        /\ th'[t].ok = me.ok
        /\ th'[t].pc = IF Readable(n) THEN "collect" ELSE "next"
    BY <1>t, <1>8 DEF Walk, Goto, ThreadState
  <2>3. \A j \in Key : Beyond(me, j) /\ ~ Beyond(th[t], j)' => Vacant(t, j)
    BY <1>t, <1>7, <2>1, <2>2 DEF Beyond
  <2>4. \A j \in Key : Beyond(th[t], j)' => Beyond(me, j)
    BY <1>t, <2>1, <2>2 DEF Beyond
  <2>5. Walking(t)'
    BY <1>t, <1>1, <1>3, <2>1, <2>2, <2>3, <2>4 DEF Walking
  <2>6. \A S \in SUBSET (Node \X Level) : Trail(t, S) /\ Stands(th[t], S) => Stands(th[t], S)'
    BY <2>1, <2>2 DEF Stands
  <2> QED
    BY <1>t, <2>1, <2>2, <2>5, <2>6, MovedHistory DEF Settled, Rereading
<1>9. CASE Collect(t)
  <2>1. me.pc = "collect" /\ n # NoNode
    BY <1>t, <1>9 DEF Collect, LocalOK
  <2>2. /\ th'[t].node = n /\ th'[t].request = me.request /\ th'[t].ok = me.ok
        /\ th'[t].pc = "next"
        /\ th'[t].out = IF Readable(n) THEN Append(me.out, <<key[n], value[n]>>) ELSE me.out
    BY <1>t, <1>9 DEF Collect, ThreadState
  <2>3. \A j \in Key : Beyond(me, j) /\ ~ Beyond(th[t], j)' => j = key[n]
    BY <1>t, <1>7, <2>1, <2>2 DEF Beyond
  <2>4. \A j \in Key : Beyond(th[t], j)' => Beyond(me, j)
    BY <1>t, <2>1, <2>2 DEF Beyond
  <2>5. \A S \in SUBSET (Node \X Level) : Trail(t, S) /\ Stands(th[t], S) => Stands(th[t], S)'
    BY <2>1, <2>2 DEF Stands
  <2>6. CASE ~ Readable(n)
    <3>1. Walking(t)'
      BY <1>t, <1>1, <1>3, <1>7, <2>1, <2>2, <2>3, <2>4, <2>6, ZenonT(40) DEF Walking
    <3> QED
      BY <1>t, <2>1, <2>2, <2>5, <3>1, MovedHistory DEF Settled, Rereading
  <2>7. CASE Readable(n)
    <3> DEFINE out == Append(me.out, <<key[n], value[n]>>)
    <3>1. /\ Len(out) = Len(me.out) + 1 /\ out[Len(out)] = <<key[n], value[n]>> /\ Len(me.out) \in Nat
          /\ \A i \in 1 .. Len(me.out) : out[i] = me.out[i]
      BY <1>2
    <3>2. Abstract!MayReport(me.request, key[n], seen'[t])
      <4>1. CASE me.request.name = "Scan"
        <5>1. Beyond(me, key[n]) /\ key[n] <= me.request.end /\ key[n] \in Key /\ key[n] \in Int
          BY <1>1, <1>7, <2>1, <4>1 DEF Beyond
        <5>2. key[n] < k => Absent \in seen'[t][key[n]]
          BY <1>1, <1>3, <2>2, <4>1, <5>1 DEF Vacant
        <5> QED
          BY <1>2, <4>1, <5>1, <5>2 DEF Abstract!MayReport, Abstract!InRange
      <4>2. CASE me.request.name = "Snapshot"
        BY <4>2 DEF Abstract!MayReport, Abstract!InRange
      <4> QED
        BY <1>1, <4>1, <4>2
    <3>3. value[n] \in seen'[t][key[n]] \ {Absent}
      BY <1>7, <2>1, <2>2, <2>7, SeenGrows
    <3>4. \A i \in 1 .. Len(out) : /\ Abstract!MayReport(me.request, out[i][1], seen'[t])
                                   /\ out[i][2] \in seen'[t][out[i][1]] \ {Absent}
      <4>1. ASSUME NEW i \in 1 .. Len(out)
            PROVE  /\ Abstract!MayReport(me.request, out[i][1], seen'[t])
                   /\ out[i][2] \in seen'[t][out[i][1]] \ {Absent}
        <5>1. CASE i = Len(out)
          <6>1. out[i] = <<key[n], value[n]>>
            <7> HIDE DEF out
            <7> QED
              BY <3>1, <5>1, Zenon
          <6>2. out[i][1] = key[n] /\ out[i][2] = value[n]
            <7> HIDE DEF out
            <7> QED
              BY <6>1
          <6> HIDE DEF out
          <6> QED
            BY <3>2, <3>3, <6>2, Zenon
        <5>2. CASE i \in 1 .. Len(me.out)
          BY <1>3, <2>2, <3>1, <5>2
        <5>3. i = Len(out) \/ i \in 1 .. Len(me.out)
          <6> HIDE DEF out
          <6> QED
            BY <3>1
        <5> QED
          BY <5>1, <5>2, <5>3, Zenon
      <4> QED
        BY <4>1
    <3>5. \A j \in Key : (j = key[n] \/ \E i \in 1 .. Len(me.out) : me.out[i][1] = j)
                         => \E i \in 1 .. Len(out) : out[i][1] = j
      BY <3>1
    <3>6. th'[t].out = out
      BY <2>2, <2>7
    <3> HIDE DEF out
    <3>7. \A j \in Key : Abstract!InRange(me.request, j) /\ ~ Beyond(th[t], j)' =>
            Vacant(t, j)' \/ \E i \in 1 .. Len(out) : out[i][1] = j
      BY <1>1, <1>3, <2>2, <2>3, <3>5
    <3>8. me.request.name = "Scan" => \A j \in Key : Beyond(th[t], j)' /\ j < k => Vacant(t, j)'
      BY <1>1, <1>3, <2>2, <2>4
    <3>9. Walking(t)'
      BY <1>1, <2>2, <3>4, <3>6, <3>7, <3>8 DEF Walking
    <3> QED
      BY <1>t, <2>1, <2>2, <2>5, <3>9, MovedHistory DEF Settled, Rereading
  <2> QED
    BY <2>6, <2>7
<1> QED
  BY <1>5, <1>6, <1>8, <1>9
LEMMA LocalHistory ==
  ASSUME Base, Base', HistoryInv, Watch, NEW t \in Thread, LocalStep(t)
  PROVE  History(t)'
<1>t. /\ Typed /\ th \in [Thread -> ThreadState] /\ th[t] \in ThreadState /\ Steady(t)
      /\ Settled(th[t])
  BY StepSteady DEF Base, IInv, Typed, Step, HistoryInv, History
<1>1. CASE ScanNothing(t) \/ DeleteMiss(t)
  <2>1. th[t].pc # "idle" /\ (Return(t, TRUE, <<>>) \/ Return(t, FALSE, <<>>))
    BY <1>1 DEF ScanNothing, DeleteMiss, At
  <2> QED
    BY <1>t, <2>1, AgainHistory
<1>2. CASE PrepareInsert(t) \/ PrepareDelete(t) \/ Recompute(t)
  <2>1. /\ th[t].pc # "idle" /\ th'[t].ok = th[t].ok
        /\ th'[t].pc \in {"lock", "recompute", "lower"}
    <3>1. CASE PrepareInsert(t)
      <4>1. PICK h : th' = [th EXCEPT ![t].pc = "lock", ![t].top = h,
                                      ![t].toLock = InsertTargets(t, h)]
        BY <3>1 DEF PrepareInsert
      <4> QED
        BY <1>t, <3>1, <4>1 DEF PrepareInsert, At, ThreadState
    <3>2. CASE PrepareDelete(t) \/ Recompute(t)
      BY <1>t, <3>2 DEF PrepareDelete, Recompute, At, Goto, ThreadState
    <3> QED
      BY <1>2, <3>1, <3>2
  <2> QED
    BY <1>t, <2>1, BusyHistory DEF Busy, Settled
<1> QED
  BY <1>1, <1>2, SearchHistory, FinishFindHistory, GetHistory, WalkHistory DEF LocalStep

\* The history variable is well typed.
LEMMA SeenType ==
  ASSUME Base', HistoryInv, Watch
  PROVE  seen' \in [Thread -> [Key -> SUBSET (Value \union {Absent})]]
<1>1. ASSUME NEW t \in Thread
      PROVE  /\ Nothing \in [Key -> SUBSET (Value \union {Absent})]
             /\ [k \in Key |-> seen[t][k] \union {Map'[k]}] \in [Key -> SUBSET (Value \union {Absent})]
  BY DEF Nothing, HistoryInv, Base, MapShown
<1> QED
  BY <1>1 DEF Watch

LEMMA NextHistory ==
  ASSUME Base, Base', HistoryInv, [HNext]_hvars
  PROVE  HistoryInv'
<1>1. CASE UNCHANGED hvars
  <2>1. UNCHANGED vars /\ seen' = seen
    BY <1>1 DEF hvars
  <2>2. Map' = Map
    BY <2>1 DEF vars, Map, Live
  <2>3. ASSUME NEW t \in Thread, History(t)
        PROVE  History(t)'
    <3>1. Recorded(t)'
      BY <2>1, <2>2, <2>3 DEF vars, History, Recorded, Vacant
    <3>2. Settled(th[t])'
      BY <2>1, <2>3 DEF vars, History, Settled
    <3>3. Rereading(t)'
      BY <2>1, <2>3 DEF vars, History, Rereading, Vacant, On, Joined, Left, After
    <3>4. Walking(t)'
      BY <2>1, <2>3 DEF vars, History, Walking, Vacant, Beyond
    <3>5. \A S : Trail(t, S) => Trail(t, S)'
      BY <2>1 DEF vars, Trail, On, OnceOn, Joined, Left, Vacant, Gap
    <3>6. \A S : Stands(th[t], S) => Stands(th[t], S)'
      BY <2>1 DEF vars, Stands
    <3>7. th'[t].pc # "idle" => OnTrail(t)'
      BY <2>1, <2>3, <3>5, <3>6 DEF vars, History, OnTrail
    <3> QED
      BY <3>1, <3>2, <3>3, <3>4, <3>7 DEF History
  <2> QED
    BY <2>1, <2>3 DEF HistoryInv
<1>2. CASE HNext
  <2>0. Watch /\ Next
    BY <1>2 DEF HNext, Watch
  <2>1. ASSUME NEW t \in Thread, Clear(t), NEW u \in Thread
        PROVE  History(u)'
    <3>1. th'[u].pc = "idle"
      BY <2>1 DEF Clear, Fresh, Base, IInv, Typed
    <3> QED
      BY <2>0, <3>1, IdleHistory
  <2>2. ASSUME NEW t \in Thread, Call(t) \/ Step(t), NEW u \in Thread
        PROVE  History(u)'
    <3>1. CASE u # t
      BY <2>0, <2>2, <3>1, StepSteady, KeptHistory DEF Steady, Others
    <3>2. CASE u = t
      BY <2>0, <2>2, <3>2, CallHistory, LocalHistory, SharedHistory DEF Step
    <3> QED
      BY <3>1, <3>2
  <2>3. ASSUME Finished, NEW u \in Thread
        PROVE  History(u)'
    <3>1. th'[u].pc = "idle"
      BY <2>3 DEF Finished, vars
    <3> QED
      BY <2>0, <3>1, IdleHistory
  <2>4. \A u \in Thread : History(u)'
    BY <2>0, <2>1, <2>2, <2>3 DEF Next
  <2> QED
    BY <2>0, <2>4, SeenType DEF HistoryInv
<1> QED
  BY <1>1, <1>2

\* For every number of threads, keys and nodes, the history tells what a call
\* may rely on.
THEOREM HistoryHolds == HSpec => [](Base /\ HistoryInv)
<1>1. HInit => HistoryInv
  <2> SUFFICES ASSUME HInit PROVE HistoryInv
    OBVIOUS
  <2>1. /\ \A t \in Thread : th[t].pc = "idle" /\ seen[t] = Nothing
        /\ seen \in [Thread -> [Key -> SUBSET (Value \union {Absent})]]
    BY DEF HInit, Init, Fresh, Nothing
  <2> QED
    BY <2>1 DEF HistoryInv, History, Recorded, Settled, Rereading, Walking
<1>2. Base /\ Base' /\ HistoryInv /\ [HNext]_hvars => HistoryInv'
  BY NextHistory
<1>3. HInit => Init
  BY DEF HInit
<1>4. [HNext]_hvars => [Next]_vars
  BY DEF HNext, hvars
<1> QED
  BY <1>1, <1>2, <1>3, <1>4, BaseHolds, PTL DEF HSpec, Spec
-----------------------------------------------------------------------------
(* The steps of the abstract map.                                           *)

Done == {"count", "raise", "unlink", "uncount", "recompute", "lower"}

LEMMA ObserveMapped ==
  ASSUME Watch
  PROVE  Abstract!Observe
<1>1. \A t \in Thread : ConcurrentCall'[t].phase = "idle" <=> th'[t].pc = "idle"
  BY DEF ConcurrentCall, Phase
<1> QED
  BY <1>1 DEF Watch, Abstract!Observe, Nothing, Abstract!Nothing

\* A call that has not taken effect yet, one that has, and none.
LEMMA PhaseMapped ==
  ASSUME NEW t \in Thread
  PROVE  /\ ConcurrentCall[t].request = th[t].request
         /\ th[t].pc = "idle" => ConcurrentCall[t].phase = "idle"
         /\ th[t].pc \in Done => ConcurrentCall[t].phase = "done"
         /\ th[t].pc \notin Done \union {"idle"} => ConcurrentCall[t].phase = "open"
BY DEF ConcurrentCall, Phase, Done

\* A step of t that changes what is seen of its call.
LEMMA BecomesMapped ==
  ASSUME NEW t \in Thread, \A u \in Thread \ {t} : th'[u] = th[u], th'[t].request = th[t].request,
         NEW phase, \/ phase = "idle" /\ th'[t].pc = "idle"
                    \/ phase = "done" /\ th'[t].pc \in Done,
         NEW out, out = IF th'[t].pc = "idle" THEN th'[t].out ELSE <<>>,
         NEW ok, ok = th'[t].ok
  PROVE  Abstract!Becomes(t, phase, ok, out)
BY ZenonT(40) DEF Abstract!Becomes, ConcurrentCall, Phase, Done

\* A step that does not.
LEMMA StutterMapped ==
  ASSUME HistoryInv, Watch, Map' = Map, NEW t \in Thread, \A u \in Thread \ {t} : th'[u] = th[u],
         th[t].pc # "idle", th'[t].pc # "idle", th'[t].pc \in Done <=> th[t].pc \in Done,
         th'[t].request = th[t].request, th'[t].ok = th[t].ok
  PROVE  UNCHANGED <<Map, seen, ConcurrentCall>>
<1>1. ConcurrentCall' = ConcurrentCall
  BY DEF ConcurrentCall, Phase, Done
<1>2. ASSUME NEW u \in Thread
      PROVE  seen'[u] = seen[u]
  <2>1. CASE th[u].pc = "idle"
    BY <2>1 DEF HistoryInv, History, Recorded, Watch
  <2>2. CASE th[u].pc # "idle"
    <3>1. \A k \in Key : seen[u][k] \union {Map'[k]} = seen[u][k]
      BY <2>2 DEF HistoryInv, History, Recorded
    <3>2. seen'[u] = [k \in Key |-> seen[u][k] \union {Map'[k]}]
      BY <2>2 DEF Watch
    <3>3. seen[u] \in [Key -> SUBSET (Value \union {Absent})]
      BY DEF HistoryInv
    <3> QED
      BY <3>1, <3>2, <3>3
  <2> QED
    BY <2>1, <2>2
<1>3. seen' = seen
  BY <1>2 DEF HistoryInv, Watch
<1> QED
  BY <1>1, <1>3

\* A step that leaves the live nodes as they are leaves the map.
LEMMA MapSame ==
  ASSUME Base, Base', Live' = Live, \A n \in Live : key'[n] = key[n] /\ value'[n] = value[n]
  PROVE  Map' = Map
<1>1. ASSUME NEW k \in Key
      PROVE  Map'[k] = Map[k]
  <2>1. CASE \E n \in Live : key[n] = k
    BY <2>1 DEF Base, MapShown
  <2>2. CASE ~ \E n \in Live : key[n] = k
    BY <2>2 DEF Base, MapShown
  <2> QED
    BY <2>1, <2>2
<1> QED
  BY <1>1 DEF Base, MapShown

\* A step that makes one node live, or changes its value.
LEMMA MapPut ==
  ASSUME Base, Base', NEW n \in Live', Live' = Live \union {n},
         \A m \in Live' : key'[m] = key[m] /\ (m # n => value'[m] = value[m])
  PROVE  Map' = [Map EXCEPT ![key[n]] = value'[n]]
<1>1. ASSUME NEW k \in Key
      PROVE  Map'[k] = IF k = key[n] THEN value'[n] ELSE Map[k]
  <2>1. CASE k = key[n]
    BY <2>1 DEF Base, MapShown
  <2>2. CASE k # key[n] /\ \E m \in Live : key[m] = k
    BY <2>2 DEF Base, MapShown
  <2>3. CASE k # key[n] /\ ~ \E m \in Live : key[m] = k
    BY <2>3 DEF Base, MapShown
  <2> QED
    BY <2>1, <2>2, <2>3
<1> QED
  BY <1>1 DEF Base, MapShown

LEMMA MapTake ==
  ASSUME Base, Base', NEW n \in Live, Live' = Live \ {n},
         \A m \in Live : key'[m] = key[m] /\ value'[m] = value[m]
  PROVE  Map' = [Map EXCEPT ![key[n]] = Absent]
<1>1. ASSUME NEW k \in Key
      PROVE  Map'[k] = IF k = key[n] THEN Absent ELSE Map[k]
  <2>1. CASE k = key[n]
    BY <2>1 DEF Base, MapShown, OneLiveNodePerKey
  <2>2. CASE k # key[n] /\ \E m \in Live : key[m] = k
    BY <2>2 DEF Base, MapShown
  <2>3. CASE k # key[n] /\ ~ \E m \in Live : key[m] = k
    BY <2>3 DEF Base, MapShown
  <2> QED
    BY <2>1, <2>2, <2>3
<1> QED
  BY <1>1 DEF Base, MapShown
LEMMA QuietMap ==
  ASSUME Base, Base', NEW t \in Thread, Call(t) \/ Step(t),
         ~ Publish(t), ~ Mark(t), ~ (UpdateExisting(t) /\ Readable(th[t].node))
  PROVE  Map' = Map
<1>1. CASE Insert(t)
  BY <1>1, InsertSteady, MapSame DEF Live
<1>2. CASE ~ Insert(t)
  <2>1. UNCHANGED <<key, value, marked, linked, owned>>
    BY <1>2 DEF Call, Step, LocalStep, SharedStep, LockNext, UpdateExisting, InsertRetry,
                LinkLevel, Count, Raise, DeleteRetry, UnlinkLevel, Uncount, Lower, heap, content
  <2>2. Live' = Live
    BY <2>1 DEF Live
  <2> QED
    BY <2>1, <2>2, MapSame
<1> QED
  BY <1>1, <1>2

\* A call begins.
LEMMA CallMapped ==
  ASSUME Base, Base', NEW t \in Thread, Call(t)
  PROVE  Abstract!Begin(t)
<1>t. th \in [Thread -> ThreadState]
  BY DEF Base, IInv, Typed
<1>1. PICK r \in Work[t][calls[t] + 1] : th' = [th EXCEPT ![t] =
          IF r.name = "Snapshot" THEN [Fresh("next", r) EXCEPT !.node = HeadNode]
                                 ELSE Fresh("start", r)]
  BY DEF Call
<1>2. r \in Request
  BY <1>1, WorkType DEF Call, Base, IInv, Typed
<1>3. /\ th'[t].ok = FALSE /\ th'[t].request = r /\ th'[t].pc \in {"start", "next"}
      /\ \A u \in Thread \ {t} : th'[u] = th[u]
  BY <1>t, <1>1 DEF Fresh
<1>4. ConcurrentCall' = [ConcurrentCall EXCEPT ![t] =
        [phase |-> "open", request |-> r, ok |-> FALSE, out |-> <<>>]]
  BY <1>3 DEF ConcurrentCall, Phase
<1>5. ConcurrentCall[t].phase = "idle"
  BY PhaseMapped DEF Call
<1>6. Map' = Map
  BY QuietMap DEF Call, Publish, Mark, UpdateExisting, At, Locked
<1> QED
  BY <1>2, <1>4, <1>5, <1>6 DEF Abstract!Begin

LEMMA ClearMapped ==
  ASSUME Base, Base', NEW t \in Thread, Clear(t)
  PROVE  Abstract!Clear(t)
<1>t. th \in [Thread -> ThreadState]
  BY DEF Base, IInv, Typed
<1>1. PICK r \in Work[t][calls[t] + 1] :
        r.name = "Clear" /\ th' = [th EXCEPT ![t] = Fresh("idle", r)]
  BY DEF Clear
<1>2. r \in Request
  BY <1>1, WorkType DEF Clear, Base, IInv, Typed
<1>3. /\ th'[t].ok = FALSE /\ th'[t].request = r /\ th'[t].pc = "idle" /\ th'[t].out = <<>>
      /\ \A u \in Thread \ {t} : th'[u] = th[u]
  BY <1>t, <1>1 DEF Fresh
<1>4. ConcurrentCall' = [ConcurrentCall EXCEPT ![t] =
        [phase |-> "idle", request |-> r, ok |-> FALSE, out |-> <<>>]]
  BY <1>3 DEF ConcurrentCall, Phase
<1>5. \A u \in Thread : ConcurrentCall[u].phase = "idle"
  BY PhaseMapped DEF Clear
<1>6. Map' = [k \in Key |-> Absent]
  <2>1. Live' = {}
    BY DEF Clear, Live
  <2>2. \A k \in Key : Map'[k] = Absent
    BY <2>1 DEF Base, MapShown
  <2> QED
    BY <2>2 DEF Base, MapShown
<1> QED
  BY <1>1, <1>2, <1>4, <1>5, <1>6 DEF Abstract!Clear

\* A Put of a new key takes effect when the node is published.
LEMMA PublishMapped ==
  ASSUME Base, Base', HistoryInv, NEW t \in Thread, Publish(t)
  PROVE  Abstract!Insert(t)
<1> DEFINE n == th[t].node
           r == th[t].request
<1>t. /\ th \in [Thread -> ThreadState] /\ th[t] \in ThreadState /\ Settled(th[t])
      /\ \A u \in Thread \ {t} : th'[u] = th[u]
  BY StepOthers DEF Base, IInv, Typed, HistoryInv, History, Step, SharedStep
<1>1. /\ th[t].pc = "publish" /\ r.name = "Put" /\ key[n] = r.key /\ value[n] = r.value
      /\ ~ th[t].ok
  BY <1>t DEF Publish, Settled
<1>2. /\ n \in owned \ Live /\ n \in On(0) /\ UNCHANGED <<key, value>>
      /\ Live' = Live \union {n} /\ th'[t] = [th[t] EXCEPT !.pc = "count"]
  BY PublishSteady DEF content
<1>3. th'[t].pc = "count" /\ th'[t].request = r /\ th'[t].ok = FALSE
  BY <1>t, <1>1, <1>2 DEF ThreadState
<1>4. Abstract!Open(t, {"Put"})
  BY <1>1, PhaseMapped DEF Abstract!Open, Done
<1>5. Map[r.key] = Absent
  <2>1. \A m \in Live : key[m] # key[n]
    BY <1>2, KeysOrdered DEF Base, Chained
  <2> QED
    BY <1>1, <1>2, <2>1, KeysOrdered DEF Base, MapShown
<1>6. Map' = [Map EXCEPT ![r.key] = r.value]
  BY <1>1, <1>2, MapPut
<1>7. Abstract!Becomes(t, "done", FALSE, <<>>)
  BY <1>t, <1>3, BecomesMapped DEF Done
<1> QED
  BY <1>4, <1>5, <1>6, <1>7, PhaseMapped DEF Abstract!Insert

\* A Delete takes effect when it marks its node.
LEMMA MarkMapped ==
  ASSUME Base, Base', HistoryInv, NEW t \in Thread, Mark(t)
  PROVE  Abstract!Remove(t)
<1> DEFINE n == th[t].node
           r == th[t].request
<1>t. /\ th \in [Thread -> ThreadState] /\ th[t] \in ThreadState /\ Settled(th[t])
      /\ \A u \in Thread \ {t} : th'[u] = th[u]
  BY StepOthers DEF Base, IInv, Typed, HistoryInv, History, Step, SharedStep
<1>1. th[t].pc = "lock" /\ r.name = "Delete" /\ ~ th[t].ok
  BY <1>t DEF Mark, At, Settled
<1>2. /\ n \in Live /\ key[n] = r.key /\ UNCHANGED <<key, value>>
      /\ Live' = Live \ {n}
      /\ th'[t] = [th[t] EXCEPT !.pc = "unlink", !.level = th[t].top]
  BY MarkSteady DEF content
<1>3. th'[t].pc = "unlink" /\ th'[t].request = r /\ th'[t].ok = FALSE
  BY <1>t, <1>1, <1>2 DEF ThreadState
<1>4. Abstract!Open(t, {"Delete"})
  BY <1>1, PhaseMapped DEF Abstract!Open, Done
<1>5. Map[r.key] # Absent
  BY <1>2, AbsentAssumption DEF Base, MapShown
<1>6. Map' = [Map EXCEPT ![r.key] = Absent]
  BY <1>2, MapTake
<1>7. Abstract!Becomes(t, "done", FALSE, <<>>)
  BY <1>t, <1>3, BecomesMapped DEF Done
<1> QED
  BY <1>4, <1>5, <1>6, <1>7, PhaseMapped DEF Abstract!Remove

\* A Put of a key that is there takes effect under the node's mutex, or starts over.
LEMMA UpdateMapped ==
  ASSUME Base, Base', HistoryInv, Watch, NEW t \in Thread, UpdateExisting(t)
  PROVE  Abstract!Update(t) \/ UNCHANGED <<Map, seen, ConcurrentCall>>
<1> DEFINE n == th[t].node
           r == th[t].request
<1>t. /\ Typed /\ th \in [Thread -> ThreadState] /\ th[t] \in ThreadState /\ Settled(th[t])
      /\ \A u \in Thread \ {t} : th'[u] = th[u]
  BY StepOthers DEF Base, IInv, Typed, HistoryInv, History, Step, SharedStep
<1>1. th[t].pc = "decide" /\ r.name = "Put" /\ n # NoNode /\ ~ th[t].ok
  BY <1>t DEF UpdateExisting, At, Settled
<1>2. CASE Readable(n)
  <2>1. n \in owned /\ n \in Node /\ key[n] = r.key
    BY <1>1, KeysOrdered DEF Base, IInv, SearchBracketsKey, Brackets
  <2>2. n \in Live
    BY <1>2, <2>1 DEF Live, Readable
  <2>3. /\ Live' = Live /\ key' = key /\ value'[n] = r.value
        /\ \A m \in Live : m # n => value'[m] = value[m]
    BY <1>t, <1>2, <2>1 DEF UpdateExisting, Live, Typed
  <2>4. Map' = [Map EXCEPT ![r.key] = r.value]
    BY <2>1, <2>2, <2>3, MapPut
  <2>5. Map[r.key] # Absent
    BY <2>1, <2>2, AbsentAssumption DEF Base, MapShown
  <2>6. th'[t].pc = "idle" /\ th'[t].request = r /\ th'[t].ok = FALSE /\ th'[t].out = <<>>
    BY <1>t, <1>2 DEF UpdateExisting, Return, Fresh
  <2>7. Abstract!Becomes(t, "idle", FALSE, <<>>)
    BY <1>t, <2>6, BecomesMapped
  <2>8. Abstract!Open(t, {"Put"})
    BY <1>1, PhaseMapped DEF Abstract!Open, Done
  <2> QED
    BY <2>4, <2>5, <2>7, <2>8, PhaseMapped DEF Abstract!Update
<1>3. CASE ~ Readable(n)
  <2>1. th'[t].pc = "start" /\ th'[t].request = r /\ th'[t].ok = FALSE
    BY <1>t, <1>3 DEF UpdateExisting, Retry, Fresh
  <2>3. th'[t].ok = th[t].ok
    BY <1>t, <1>1, <2>1, LocalTypes
  <2>2. Map' = Map
    BY <1>1, <1>3, QuietMap DEF Step, SharedStep, Publish, Mark, Locked
  <2> QED
    BY <1>t, <1>1, <2>1, <2>2, <2>3, StutterMapped DEF Done
<1> QED
  BY <1>2, <1>3
\* The steps of an insertion or a deletion that are not seen from outside.
LEMMA QuietMapped ==
  ASSUME Base, Base', HistoryInv, Watch, NEW t \in Thread,
         LockNext(t) \/ InsertRetry(t) \/ DeleteRetry(t) \/ Insert(t) \/ LinkLevel(t)
         \/ Count(t) \/ UnlinkLevel(t) \/ Uncount(t)
  PROVE  UNCHANGED <<Map, seen, ConcurrentCall>>
<1>t. /\ Typed /\ th \in [Thread -> ThreadState] /\ th[t] \in ThreadState /\ Settled(th[t])
      /\ \A u \in Thread \ {t} : th'[u] = th[u]
  BY StepOthers DEF Base, IInv, Typed, HistoryInv, History, Step, SharedStep
<1>s. SharedStep(t) /\ Step(t) /\ \A u \in Thread \ {t} : th'[u] = th[u]
  BY <1>t, StepOthers DEF Step, SharedStep
<1>1. /\ th[t].pc # "idle" /\ th'[t].pc # "idle" /\ (th'[t].pc \in Done <=> th[t].pc \in Done)
      /\ th'[t].request = th[t].request /\ th'[t].ok = th[t].ok
  <2>1. CASE LockNext(t)
    BY <2>1 DEF LockNext
  <2>2. CASE InsertRetry(t) \/ DeleteRetry(t)
    <3>1. th[t].pc = "lock" /\ th'[t].pc = "start" /\ th'[t].request = th[t].request /\ ~ th'[t].ok
      BY <1>t, <2>2 DEF InsertRetry, DeleteRetry, Retry, Fresh, At
    <3>2. th[t].ok \in BOOLEAN /\ ~ th[t].ok /\ th'[t].ok = FALSE
      BY <1>t, <2>2, <3>1, LocalTypes DEF Settled, InsertRetry, DeleteRetry, Retry, Fresh
    <3> QED
      BY <3>1, <3>2 DEF Done
  <2>3. CASE Insert(t)
    BY <2>3, InsertSteady DEF Done
  <2>4. CASE LinkLevel(t)
    BY <1>t, <2>4 DEF LinkLevel, Goto, ThreadState, Done
  <2>5. CASE Count(t)
    BY <1>t, <2>5 DEF Count, Goto, ThreadState, Done
  <2>6. CASE UnlinkLevel(t)
    <3>1. \/ th'[t] = [th[t] EXCEPT !.level = @ - 1]
          \/ th'[t] = [th[t] EXCEPT !.pc = "uncount"]
      BY <1>t, <2>6 DEF UnlinkLevel, Goto
    <3> QED
      BY <1>t, <2>6, <3>1 DEF UnlinkLevel, ThreadState, Done
  <2>7. CASE Uncount(t)
    BY <1>t, <2>7 DEF Uncount, ThreadState, Done
  <2> QED
    BY <2>1, <2>2, <2>3, <2>4, <2>5, <2>6, <2>7
<1>2. Map' = Map
  <2>1. ~ Publish(t) /\ ~ Mark(t) /\ ~ UpdateExisting(t)
    <3>1. ~ Publish(t)
      BY <1>1 DEF LockNext, InsertRetry, DeleteRetry, Insert, LinkLevel, Count, UnlinkLevel,
                  Uncount, Publish, Locked
    <3>2. ~ UpdateExisting(t)
      BY DEF LockNext, InsertRetry, DeleteRetry, Insert, LinkLevel, Count, UnlinkLevel,
             Uncount, UpdateExisting, At, Locked
    <3>3. ~ Mark(t)
      BY DEF LockNext, InsertRetry, DeleteRetry, Insert, LinkLevel, Count, UnlinkLevel,
             Uncount, Mark, At, Locked, NextToLock
    <3> QED
      BY <3>1, <3>2, <3>3
  <2> QED
    BY <1>s, <2>1, QuietMap
<1> QED
  BY <1>s, <1>1, <1>2, StutterMapped

\* Put of a new key and Delete return once they have adjusted current_level_.
LEMMA FinishMapped ==
  ASSUME Base, Base', NEW t \in Thread, Raise(t) \/ Lower(t)
  PROVE  Abstract!Finish(t)
<1>t. Typed /\ th \in [Thread -> ThreadState] /\ \A u \in Thread \ {t} : th'[u] = th[u]
  BY StepOthers DEF Base, IInv, Typed, Step, SharedStep
<1>1. th[t].pc \in Done /\ Return(t, TRUE, <<>>)
  BY DEF Raise, Lower, Done
<1>2. th'[t].pc = "idle" /\ th'[t].request = th[t].request /\ th'[t].ok = TRUE /\ th'[t].out = <<>>
  BY <1>t, <1>1 DEF Return, Fresh
<1>3. Map' = Map
  <2>1. ~ Publish(t) /\ ~ Mark(t) /\ ~ UpdateExisting(t)
    BY DEF Raise, Lower, Publish, Mark, UpdateExisting, At, Locked
  <2> QED
    BY <2>1, QuietMap DEF Step, SharedStep
<1>4. Abstract!Becomes(t, "idle", TRUE, <<>>)
  BY <1>t, <1>2, BecomesMapped
<1> QED
  BY <1>1, <1>3, <1>4, PhaseMapped DEF Abstract!Finish
\* A search, and a walk that goes on, are not seen from outside.
LEMMA LocalMapped ==
  ASSUME Base, Base', HistoryInv, Watch, NEW t \in Thread, LocalStep(t), th'[t].pc # "idle"
  PROVE  UNCHANGED <<Map, seen, ConcurrentCall>>
<1>t. /\ Typed /\ IInv /\ th \in [Thread -> ThreadState] /\ th[t] \in ThreadState
      /\ \A u \in Thread \ {t} : th'[u] = th[u]
  BY StepOthers DEF Base, IInv, Typed, Step
<1>1. Map' = Map
  <2>1. UNCHANGED <<key, value, marked, linked, owned>>
    BY DEF LocalStep, heap, content
  <2>2. Live' = Live
    BY <2>1 DEF Live
  <2> QED
    BY <2>1, <2>2, MapSame
<1> DEFINE Goes == /\ th[t].pc # "idle" /\ (th'[t].pc \in Done <=> th[t].pc \in Done)
                   /\ th'[t].request = th[t].request /\ th'[t].ok = th[t].ok
<1>2. CASE Start(t) \/ Advance(t) \/ PrepareDelete(t) \/ Recompute(t)
  <2>1. Start(t) => Goes
    BY <1>t DEF Start, ThreadState, Done
  <2>2. Advance(t) => Goes
    BY <1>t DEF Advance, ThreadState, Done
  <2>3. PrepareDelete(t) => Goes
    BY <1>t DEF PrepareDelete, At, ThreadState, Done
  <2>4. Recompute(t) => Goes
    BY <1>t DEF Recompute, Goto, ThreadState, Done
  <2>5. Goes
    BY <1>2, <2>1, <2>2, <2>3, <2>4
  <2> QED
    BY <1>t, <1>1, <2>5, StutterMapped
<1>3. CASE Descend(t) \/ FinishFind(t)
  <2>1. th[t].pc = "find" /\ ~ Before(Current(t), th[t].request.key)
    BY <1>3 DEF Descend, FinishFind
  <2>2. /\ Record(t) \in ThreadState /\ Record(t).pc = "find"
        /\ Record(t).request = th[t].request /\ Record(t).ok = th[t].ok
    BY <1>t, <2>1, RecordKeeps DEF Record, ThreadState
  <2>3. th'[t].request = th[t].request /\ th'[t].ok = th[t].ok
    <3>1. Descend(t) => th'[t].request = th[t].request /\ th'[t].ok = th[t].ok
      BY <1>t, <2>2 DEF Descend, ThreadState
    <3>2. FinishFind(t) => th'[t].request = th[t].request /\ th'[t].ok = th[t].ok
      BY <1>t, <2>2 DEF FinishFind, ThreadState
    <3> QED
      BY <1>3, <3>1, <3>2
  <2>4. th'[t].pc \in {"find", "decide", "reread", "next"}
    <3>1. th[t].request.name \in Keyed
      BY <1>t, <2>1 DEF IInv, LocalsOK, LocalOK
    <3>2. Descend(t) => th'[t].pc = "find"
      BY <1>t, <2>2 DEF Descend, ThreadState
    <3>3. FinishFind(t) => th'[t].pc = Continuation[th[t].request.name]
      BY <1>t, <2>2 DEF FinishFind, ThreadState
    <3> QED
      BY <1>3, <3>1, <3>2, <3>3 DEF Continuation, Keyed
  <2> QED
    BY <1>t, <1>1, <2>1, <2>3, <2>4, StutterMapped DEF Done
<1>4. CASE PrepareInsert(t)
  <2>1. PICK h : th' = [th EXCEPT ![t].pc = "lock", ![t].top = h,
                                  ![t].toLock = InsertTargets(t, h)]
    BY <1>4 DEF PrepareInsert
  <2>2. Goes
    BY <1>t, <1>4, <2>1 DEF PrepareInsert, At, ThreadState, Done
  <2> QED
    BY <1>t, <1>1, <2>2, StutterMapped
<1>5. CASE Reread(t) \/ Peek(t) \/ Read(t)
  <2>1. ASSUME NEW ok, NEW out, Return(t, ok, out)
        PROVE  FALSE
    BY <1>t, <2>1 DEF Return, Fresh
  <2>2. \/ th[t].pc = "reread" /\ th' = [th EXCEPT ![t].pc = "peek", ![t].node = forward[th[t].pred][0]]
        \/ th[t].pc = "peek" /\ th' = [th EXCEPT ![t].pc = "read"]
    BY <1>5, <2>1 DEF Reread, Peek, Read, Goto
  <2>3. Goes
    BY <1>t, <2>2 DEF ThreadState, Done
  <2> QED
    BY <1>t, <1>1, <2>3, StutterMapped
<1>6. CASE StepNext(t) \/ Walk(t) \/ Collect(t)
  <2>1. StepNext(t) => Goes
    BY <1>t DEF StepNext, ThreadState, Done
  <2>2. Walk(t) => Goes
    BY <1>t DEF Walk, Goto, ThreadState, Done
  <2>3. Collect(t) => Goes
    BY <1>t DEF Collect, ThreadState, Done
  <2>4. Goes
    BY <1>6, <2>1, <2>2, <2>3
  <2> QED
    BY <1>t, <1>1, <2>4, StutterMapped
<1>7. CASE ScanNothing(t) \/ DeleteMiss(t) \/ ReturnWalk(t)
  BY <1>t, <1>7 DEF ScanNothing, DeleteMiss, ReturnWalk, Return, Fresh
<1> QED
  BY <1>2, <1>3, <1>4, <1>5, <1>6, <1>7 DEF LocalStep

\* Get and Delete may miss a key that was absent at some time during the call.
LEMMA MissMapped ==
  ASSUME Base, Base', NEW t \in Thread, LocalStep(t), Return(t, FALSE, <<>>),
         th[t].pc \notin Done \union {"idle"}, th[t].request.name \in {"Get", "Delete"},
         Vacant(t, th[t].request.key) \/ Abstract!Hidden(t, th[t].request.key)
  PROVE  Abstract!Miss(t)
<1>t. Typed /\ th \in [Thread -> ThreadState] /\ \A u \in Thread \ {t} : th'[u] = th[u]
  BY StepOthers DEF Base, IInv, Typed, Step
<1>1. th'[t].pc = "idle" /\ th'[t].request = th[t].request /\ th'[t].ok = FALSE /\ th'[t].out = <<>>
  BY <1>t DEF Return, Fresh
<1>2. Map' = Map
  <2>1. UNCHANGED <<key, value, marked, linked, owned>>
    BY DEF LocalStep, heap, content
  <2>2. Live' = Live
    BY <2>1 DEF Live
  <2> QED
    BY <2>1, <2>2, MapSame
<1>3. Abstract!Becomes(t, "idle", FALSE, <<>>)
  BY <1>t, <1>1, BecomesMapped
<1> QED
  BY <1>2, <1>3, PhaseMapped DEF Abstract!Miss, Abstract!Open, Vacant

\* Get gives up at a node that has come before the one it looked for: its key was
\* absent when the search ended, and its Put has begun since.
LEMMA RereadMapped ==
  ASSUME Base, Base', HistoryInv, NEW t \in Thread, LocalStep(t), Reread(t),
         ~ Holds(forward[th[t].pred][0], th[t].request.key)
  PROVE  Abstract!Miss(t)
<1> DEFINE p == th[t].pred
           k == th[t].request.key
           n == forward[th[t].pred][0]
<1>1. /\ th[t].pc = "reread" /\ Return(t, FALSE, <<>>)
      /\ th[t].request.name = "Get" /\ k \in Key /\ k \in Int
  <2>1. th[t].pc = "reread" /\ Return(t, FALSE, <<>>)
    BY DEF Reread
  <2>2. th[t].request.name = "Get"
    BY <2>1 DEF HistoryInv, History, Settled
  <2> QED
    BY <2>1, <2>2, KeyedRequest DEF Keyed, Base, IInv
<1>2. /\ p \in owned \union {HeadNode} /\ (p = HeadNode \/ key[p] < k)
      /\ \A j \in Key : (p = HeadNode \/ key[p] < j) /\ j < k => Vacant(t, j)
      /\ \A m \in owned :
           /\ m = forward[p][0] \/ (m \in On(0) /\ p \in On(0) \union {HeadNode})
           /\ After(p, m) /\ key[m] < k /\ linked[m]
           => seen[t][key[m]] # {Absent}
  BY <1>1 DEF HistoryInv, History, Rereading
<1>3. Gap(t, p)
  <2>1. PICK S \in SUBSET (Node \X Level) : Trail(t, S) /\ <<p, 0>> \in S
    BY <1>1 DEF HistoryInv, History, OnTrail, Stands
  <2>2. p \in Node
    BY <1>2, KeysOrdered
  <2> QED
    BY <1>1, <2>1, <2>2, TrailGap
<1>4. n # NoNode => n \in owned /\ (p # HeadNode => key[p] < key[n]) /\ key[n] \in Key /\ key[n] \in Int
  BY <1>2, LeadsOn, Basics, KeysOrdered
<1>5. CASE n = NoNode \/ k < key[n]
  BY <1>1, <1>2, <1>3, <1>5, MissMapped DEF Gap, Done
<1>6. CASE n # NoNode /\ key[n] < k
  <2>1. Vacant(t, key[n]) /\ After(p, n)
    BY <1>2, <1>4, <1>6 DEF After
  <2>2. \/ seen[t][key[n]] # {Absent}
        \/ \E u \in Thread : /\ Abstract!Open(u, {"Put"})
                             /\ ConcurrentCall[u].request.key = key[n]
    <3>1. CASE linked[n]
      BY <1>2, <1>4, <1>6, <2>1, <3>1
    <3>2. CASE ~ linked[n]
      <4>1. PICK u \in Thread : th[u].pc \in {"link", "publish"} /\ th[u].node = n
        BY <1>4, <1>6, <3>2 DEF Base, Created
      <4>2. th[u].request.name = "Put" /\ key[n] = th[u].request.key
        BY <4>1 DEF HistoryInv, History, Settled
      <4> QED
        BY <4>1, <4>2, PhaseMapped DEF Abstract!Open, Done
    <3> QED
      BY <3>1, <3>2
  <2>3. Abstract!Arrives(t, key[n])
    BY <2>1, <2>2 DEF Abstract!Arrives, Vacant
  <2>4. Abstract!Open(t, {"Get"})
    BY <1>1, PhaseMapped DEF Abstract!Open, Done
  <2>5. Abstract!Hidden(t, k)
    BY <1>4, <1>6, <2>3, <2>4 DEF Abstract!Hidden
  <2> QED
    BY <1>1, <2>5, MissMapped DEF Done
<1>7. n = NoNode \/ k < key[n] \/ key[n] < k
  BY <1>1, <1>4 DEF Holds
<1> QED
  BY <1>5, <1>6, <1>7

\* Get reads the node that it has found: it is live, or has been deleted, or is not
\* published yet.
LEMMA ReadMapped ==
  ASSUME Base, Base', HistoryInv, NEW t \in Thread, LocalStep(t), th'[t].pc = "idle",
         Peek(t) \/ Read(t)
  PROVE  Abstract!Miss(t) \/ Abstract!Hit(t)
<1> DEFINE n == th[t].node
           k == th[t].request.key
<1>t. /\ Typed /\ th \in [Thread -> ThreadState] /\ th[t] \in ThreadState
      /\ \A u \in Thread \ {t} : th'[u] = th[u]
  BY StepOthers DEF Base, IInv, Typed, Step
<1>1. th[t].pc \in {"peek", "read"}
  BY DEF Peek, Read
<1>2. /\ th[t].request.name = "Get" /\ n \in owned /\ key[n] = k
      /\ n \in Node /\ k \in Key
  BY <1>1, KeysOrdered DEF HistoryInv, History, Settled
<1>3. CASE ~ Readable(n)
  <2>1. PICK S \in SUBSET (Node \X Level) : Trail(t, S) /\ <<n, 0>> \in S
    BY <1>1 DEF HistoryInv, History, OnTrail, Stands
  <2>2. Vacant(t, k)
    BY <1>1, <1>2, <1>3, <2>1, TrailGap
  <2>3. Return(t, FALSE, <<>>)
    BY <1>3 DEF Peek, Read
  <2> QED
    BY <1>1, <1>2, <2>2, <2>3, MissMapped DEF Done
<1>4. CASE Readable(n)
  <2>1. Read(t)
    BY <1>t, <1>4 DEF Peek, Goto, ThreadState
  <2>2. Return(t, TRUE, <<<<k, value[n]>>>>)
    BY <1>2, <1>4, <2>1 DEF Read
  <2>3. th'[t].request = th[t].request /\ th'[t].ok = TRUE /\ th'[t].out = <<<<k, value[n]>>>>
    BY <1>t, <2>2 DEF Return, Fresh
  <2>4. value[n] \in seen[t][k] \ {Absent}
    <3>1. n \in Live
      BY <1>2, <1>4 DEF Live, Readable
    <3>2. Map[k] = value[n] /\ value[n] \in Value
      BY <1>2, <3>1 DEF Base, MapShown
    <3> QED
      BY <1>1, <1>2, <3>2, AbsentAssumption DEF HistoryInv, History, Recorded
  <2>5. Abstract!Becomes(t, "idle", TRUE, <<<<k, value[n]>>>>)
    BY <1>t, <2>3, BecomesMapped
  <2>6. Map' = Map
    <3>1. UNCHANGED <<key, value, marked, linked, owned>>
      BY DEF LocalStep, heap, content
    <3>2. Live' = Live
      BY <3>1 DEF Live
    <3> QED
      BY <3>1, <3>2, MapSame
  <2>7. Abstract!Open(t, {"Get"})
    BY <1>1, <1>2, PhaseMapped DEF Abstract!Open, Done
  <2> QED
    BY <2>4, <2>5, <2>6, <2>7, PhaseMapped DEF Abstract!Hit
<1> QED
  BY <1>3, <1>4
\* Scan of an empty range returns at once; any walk, at the end of its range.
LEMMA ListMapped ==
  ASSUME Base, Base', HistoryInv, NEW t \in Thread, LocalStep(t), ScanNothing(t) \/ ReturnWalk(t)
  PROVE  Abstract!List(t)
<1> DEFINE me == th[t]
           r  == th[t].request
<1>t. /\ Typed /\ th \in [Thread -> ThreadState] /\ th[t] \in ThreadState
      /\ \A u \in Thread \ {t} : th'[u] = th[u]
      /\ Output(me) /\ Walking(t)
  BY StepOthers DEF Base, IInv, Typed, Step, OutputInv, HistoryInv, History
<1>1. Map' = Map
  <2>1. UNCHANGED <<key, value, marked, linked, owned>>
    BY DEF LocalStep, heap, content
  <2>2. Live' = Live
    BY <2>1 DEF Live
  <2> QED
    BY <2>1, <2>2, MapSame
<1>2. /\ r.name = "Scan" => r.key \in Int /\ r.end \in Int
      /\ \A j \in Key : j \in Int
  <2>1. me.request \in Request \union {NoRequest}
    BY <1>t, LocalTypes
  <2>2. r.name = "Scan" => r.key \in Key /\ r.end \in Key
    BY <2>1 DEF Request, NoRequest
  <2> QED
    BY <2>2, KeysOrdered
<1>3. PICK out : /\ Return(t, TRUE, out) /\ me.pc \in {"start", "walk"}
                 /\ r.name \in {"Scan", "Snapshot"} /\ Abstract!Lists(out, r, seen[t])
  <2>1. CASE ScanNothing(t)
    <3>1. /\ Return(t, TRUE, <<>>) /\ me.pc = "start" /\ r.name = "Scan" /\ r.end < r.key
      BY <2>1 DEF ScanNothing, EmptyRange
    <3>2. \A j \in Key : ~ Abstract!InRange(r, j)
      BY <1>2, <3>1 DEF Abstract!InRange
    <3>3. Abstract!Lists(<<>>, r, seen[t])
      BY <3>2 DEF Abstract!Lists
    <3> QED
      BY <3>1, <3>3
  <2>2. CASE ReturnWalk(t)
    <3>1. me.pc = "walk" /\ PastEnd(t) /\ Return(t, TRUE, me.out)
      BY <2>2 DEF ReturnWalk
    <3>2. /\ r.name \in {"Scan", "Snapshot"}
          /\ \A i \in 1 .. Len(me.out) :
               /\ Abstract!MayReport(r, me.out[i][1], seen[t])
               /\ me.out[i][2] \in seen[t][me.out[i][1]] \ {Absent}
          /\ \A j \in Key : Abstract!InRange(r, j) /\ ~ Beyond(me, j) =>
               Vacant(t, j) \/ \E i \in 1 .. Len(me.out) : me.out[i][1] = j
      BY <1>t, <3>1 DEF Walking
    <3>3. ASSUME NEW j \in Key, Abstract!InRange(r, j)
          PROVE  ~ Beyond(me, j)
      <4>1. CASE me.node = NoNode
        BY <4>1, KeysOrdered DEF Beyond
      <4>2. CASE me.node # NoNode
        <5>1. /\ me.node \in owned /\ me.node # HeadNode /\ key[me.node] \in Int
              /\ r.name = "Scan" /\ r.end < key[me.node]
          BY <1>t, <3>1, <4>2, KeysOrdered DEF Output, Collecting, PastEnd
        <5> QED
          BY <1>2, <3>1, <3>3, <5>1 DEF Beyond, Abstract!InRange
      <4> QED
        BY <4>1, <4>2
    <3>4. \A i \in 1 .. Len(me.out) - 1 : me.out[i][1] < me.out[i + 1][1]
      BY <1>t DEF Output, Ascending
    <3>5. Abstract!Lists(me.out, r, seen[t])
      BY <3>2, <3>3, <3>4 DEF Abstract!Lists, Vacant
    <3> QED
      BY <3>1, <3>2, <3>5
  <2> QED
    BY <2>1, <2>2
<1>4. th'[t].pc = "idle" /\ th'[t].request = r /\ th'[t].ok = TRUE /\ th'[t].out = out
  BY <1>t, <1>3 DEF Return, Fresh
<1>5. Abstract!Becomes(t, "idle", TRUE, out)
  BY <1>t, <1>4, BecomesMapped
<1>6. ConcurrentCall'[t].out = out
  BY <1>4 DEF ConcurrentCall, Phase
<1>7. Abstract!Open(t, {"Scan", "Snapshot"})
  BY <1>3, PhaseMapped DEF Abstract!Open, Done
<1> QED
  BY <1>1, <1>3, <1>5, <1>6, <1>7, PhaseMapped DEF Abstract!List

\* Every step inside a call is a step of the abstract call, or none.
LEMMA LocalStepMapped ==
  ASSUME Base, Base', HistoryInv, Watch, NEW t \in Thread, LocalStep(t)
  PROVE  \/ Abstract!Miss(t) \/ Abstract!Hit(t) \/ Abstract!List(t)
         \/ UNCHANGED <<Map, seen, ConcurrentCall>>
<1>t. Typed /\ IInv /\ th \in [Thread -> ThreadState] /\ th[t] \in ThreadState
  BY DEF Base, IInv, Typed
<1> SUFFICES ASSUME th'[t].pc = "idle"
             PROVE  Abstract!Miss(t) \/ Abstract!Hit(t) \/ Abstract!List(t)
  BY LocalMapped
<1>1. CASE DeleteMiss(t)
  <2>1. /\ th[t].pc = "decide" /\ th[t].request.name = "Delete" /\ Return(t, FALSE, <<>>)
        /\ Vacant(t, th[t].request.key)
    BY <1>1 DEF DeleteMiss, At, HistoryInv, History, Recorded
  <2> QED
    BY <2>1, MissMapped DEF Done
<1>2. CASE Reread(t)
  <2>1. ~ Holds(forward[th[t].pred][0], th[t].request.key)
    BY <1>t, <1>2, ZenonT(40) DEF Reread, ThreadState
  <2> QED
    BY <1>2, <2>1, RereadMapped
<1>3. CASE Peek(t) \/ Read(t)
  BY <1>3, ReadMapped
<1>4. CASE ScanNothing(t) \/ ReturnWalk(t)
  BY <1>4, ListMapped
<1>5. CASE Descend(t) \/ FinishFind(t)
  <2>1. th[t].pc = "find" /\ ~ Before(Current(t), th[t].request.key)
    BY <1>5 DEF Descend, FinishFind
  <2>2. Record(t) \in ThreadState /\ Record(t).pc = "find" /\ th[t].request.name \in Keyed
    BY <1>t, <2>1, RecordKeeps DEF IInv, LocalsOK, LocalOK
  <2>3. Descend(t) => th'[t].pc = "find"
    BY <1>t, <2>2 DEF Descend, ThreadState
  <2>4. FinishFind(t) => th'[t].pc = Continuation[th[t].request.name]
    BY <1>t, <2>2 DEF FinishFind, ThreadState
  <2> QED
    BY <1>5, <2>2, <2>3, <2>4 DEF Continuation, Keyed
<1>6. CASE PrepareInsert(t)
  <2>1. PICK h : th' = [th EXCEPT ![t].pc = "lock", ![t].top = h,
                                  ![t].toLock = InsertTargets(t, h)]
    BY <1>6 DEF PrepareInsert
  <2> QED
    BY <1>t, <2>1 DEF ThreadState
<1>7. ~ Start(t) /\ ~ Advance(t) /\ ~ PrepareDelete(t) /\ ~ Recompute(t)
      /\ ~ StepNext(t) /\ ~ Walk(t) /\ ~ Collect(t)
  <2>1. ~ Start(t) /\ ~ Advance(t)
    BY <1>t DEF Start, Advance, ThreadState
  <2>2. ~ PrepareDelete(t) /\ ~ Recompute(t)
    BY <1>t DEF PrepareDelete, Recompute, Goto, ThreadState
  <2>3. ~ StepNext(t) /\ ~ Walk(t) /\ ~ Collect(t)
    BY <1>t DEF StepNext, Walk, Collect, Goto, ThreadState
  <2> QED
    BY <2>1, <2>2, <2>3
<1> QED
  BY <1>1, <1>2, <1>3, <1>4, <1>5, <1>6, <1>7 DEF LocalStep

LEMMA SharedStepMapped ==
  ASSUME Base, Base', HistoryInv, Watch, NEW t \in Thread, SharedStep(t)
  PROVE  \/ Abstract!Insert(t) \/ Abstract!Update(t) \/ Abstract!Remove(t) \/ Abstract!Finish(t)
         \/ UNCHANGED <<Map, seen, ConcurrentCall>>
BY QuietMapped, PublishMapped, MarkMapped, UpdateMapped, FinishMapped DEF SharedStep

LEMMA InitMapped ==
  ASSUME HInit, Base
  PROVE  Abstract!Init
<1>1. Live = {}
  BY DEF HInit, Init, Live
<1>2. Map = [k \in Key |-> Absent]
  BY <1>1 DEF Map
<1>3. ConcurrentCall = [t \in Thread |-> [phase |-> "idle", request |-> NoRequest,
                                          ok |-> FALSE, out |-> <<>>]]
  BY DEF HInit, Init, ConcurrentCall, Phase, Fresh
<1> QED
  BY <1>2, <1>3 DEF HInit, Nothing, Abstract!Init, Abstract!Nothing

LEMMA NextMapped ==
  ASSUME Base, Base', HistoryInv, [HNext]_hvars
  PROVE  [Abstract!Next]_(Abstract!vars)
<1>1. ASSUME UNCHANGED vars
      PROVE  Map' = Map /\ ConcurrentCall' = ConcurrentCall
  BY <1>1 DEF vars, Map, Live, ConcurrentCall, Phase
<1>2. CASE UNCHANGED hvars
  BY <1>1, <1>2 DEF hvars, Abstract!vars
<1>3. CASE HNext
  <2>1. Next /\ Watch
    BY <1>3 DEF HNext, Watch
  <2>2. CASE Finished
    <3>1. \A t \in Thread : th'[t].pc = "idle" /\ seen[t] = Nothing
      BY <2>2 DEF Finished, vars, HistoryInv, History, Recorded
    <3>2. seen' = seen
      BY <2>1, <3>1 DEF Watch, HistoryInv
    <3> QED
      BY <1>1, <2>2, <3>2 DEF Finished, Abstract!vars
  <2>3. ASSUME NEW t \in Thread, Call(t) \/ Clear(t) \/ Step(t)
        PROVE  \/ Abstract!Begin(t) \/ Abstract!Insert(t) \/ Abstract!Update(t)
               \/ Abstract!Remove(t) \/ Abstract!Finish(t) \/ Abstract!Miss(t)
               \/ Abstract!Hit(t) \/ Abstract!List(t) \/ Abstract!Clear(t)
               \/ UNCHANGED <<Map, seen, ConcurrentCall>>
    BY <2>1, <2>3, CallMapped, ClearMapped, LocalStepMapped, SharedStepMapped DEF Step
  <2> QED
    BY <2>1, <2>2, <2>3, ObserveMapped DEF Next, Abstract!Next, Abstract!vars
<1> QED
  BY <1>2, <1>3

\* For every number of threads, keys, values, levels and nodes and every sequence of
\* calls: Put and Delete take effect at one instant between call and return, Get and
\* the miss of Delete answer with what the key held during the call, and Scan and
\* Snapshot list in order what they may, and all that they must, report.
THEOREM ImplementsMap == HSpec => RefinesMap
<1>1. HInit /\ Base => Abstract!Init
  BY InitMapped
<1>2. Base /\ Base' /\ HistoryInv /\ [HNext]_hvars => [Abstract!Next]_(Abstract!vars)
  BY NextMapped
<1> QED
  BY <1>1, <1>2, HistoryHolds, PTL DEF HSpec, RefinesMap, Abstract!Spec

=============================================================================

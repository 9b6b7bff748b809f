--------------------------- MODULE SkipListProofs ---------------------------
(***************************************************************************)
(* What holds of the skip list for every number of threads, keys, levels   *)
(* and nodes and every sequence of calls.                                  *)
(***************************************************************************)
EXTENDS SkipListSafety, FiniteSetTheorems, WellFoundedInduction, TLAPS

-----------------------------------------------------------------------------
(* Types, Sorted and SearchBracketsKey.  No lock is used in the argument:   *)
(* order is kept by the searches alone.                                     *)

Keyed == {"Put", "Delete", "Get", "Scan"}

\* What the value of pc says of the other locals.
LocalOK(me) ==
  /\ me.pc \in {"start", "find"} => me.request.name \in Keyed
  /\ me.pc = "start" =>
       /\ me.pred = HeadNode /\ me.node = NoNode
       /\ \A l \in Level : me.preds[l] = HeadNode /\ me.succs[l] = NoNode
  /\ me.pc \in {"next", "collect", "peek", "read", "link", "publish", "unlink"} =>
       me.node # NoNode
  /\ me.pc = "lock" /\ me.request.name = "Put" => me.node = NoNode
  /\ me.pc = "lock" /\ me.request.name = "Delete" =>
       me.node # NoNode /\ me.top = top[me.node]
  /\ me.pc \in {"link", "unlink"} => me.top = top[me.node] /\ me.level <= me.top

LocalsOK == \A t \in Thread : LocalOK(th[t])

\* The inductive invariant.
IInv ==
  /\ Typed
  /\ top[HeadNode] = MaxLevel - 1
  /\ Sorted
  /\ LocalsOK
  /\ SearchBracketsKey

-----------------------------------------------------------------------------
(* Facts about the helpers.                                                 *)

\* Levels and null: level 0 exists and no node has the null address.
LEMMA Basics ==
  /\ 0 \in Level /\ MaxLevel - 1 \in Level
  /\ NoNode \notin Node /\ NoNode \in NodeOrNull /\ HeadNode \in NodeOrNull
  /\ \A l \in Level : l \in Int /\ 0 <= l /\ l < MaxLevel
  /\ \A n \in NodeOrNull : n # NoNode => n \in Node
  /\ \A n \in Node : n \in NodeOrNull /\ n \in Int
BY SkipListAssumption DEF Level, NodeOrNull, NoNode

\* The levels up to a node's top are levels.
LEMMA LevelsBelow ==
  ASSUME NEW h \in Level, NEW l \in 0 .. h
  PROVE  l \in Level
BY SkipListAssumption DEF Level

\* A keyed request carries a key, a Put a value.
LEMMA RequestFields ==
  ASSUME NEW r \in Request
  PROVE  /\ r.name \in Keyed => r.key \in Key
         /\ r.name = "Put" => r.value \in Value
BY DEF Request, Keyed

\* A fresh call at any pc has locals of the right types.
LEMMA FreshType ==
  ASSUME NEW pc \in PC, NEW r \in Request \union {NoRequest}
  PROVE  Fresh(pc, r) \in ThreadState
<1>1. [l \in Level |-> HeadNode] \in [Level -> Node]
  BY SkipListAssumption
<1>2. [l \in Level |-> NoNode] \in [Level -> NodeOrNull]
  BY Basics
<1>3. <<>> \in Seq(Key \X Value)
  OBVIOUS
<1> QED
  BY <1>1, <1>2, <1>3, Basics, SkipListAssumption DEF Fresh, ThreadState

\* IInv holds of an empty list.
LEMMA InitIInv == Init => IInv
<1> SUFFICES ASSUME Init PROVE IInv
  OBVIOUS
<1> USE Basics, SkipListAssumption
<1>1. Fresh("idle", NoRequest) \in ThreadState
  BY FreshType DEF PC
<1>2. Typed
  BY <1>1 DEF Init, Typed
<1>3. top[HeadNode] = MaxLevel - 1 /\ Sorted
  BY DEF Init, Sorted
<1>4. \A t \in Thread : th[t].pc = "idle"
  BY DEF Init, Fresh
<1>5. LocalsOK
  BY <1>4 DEF LocalsOK, LocalOK
<1>6. SearchBracketsKey
  BY <1>4 DEF SearchBracketsKey, Brackets
<1> QED
  BY <1>2, <1>3, <1>5, <1>6 DEF IInv

-----------------------------------------------------------------------------
(* Frames: what is left to prove of a step that changes one thread's locals *)
(* and leaves the owned nodes' keys and heights alone.                      *)

\* A step of t inside its call: every action but Clear.
Frame(t) ==
  /\ \A u \in Thread \ {t} : th'[u] = th[u]
  /\ owned \subseteq owned'
  /\ \A n \in owned \union {HeadNode} : key'[n] = key[n] /\ top'[n] = top[n]

\* The other threads' locals keep their invariants.
LEMMA FrameKeeps ==
  ASSUME IInv, NEW t \in Thread, Frame(t), LocalOK(th[t])', Brackets(th[t])'
  PROVE  LocalsOK' /\ SearchBracketsKey'
<1>1. ASSUME NEW u \in Thread \ {t}
      PROVE  LocalOK(th[u])'
  BY <1>1 DEF IInv, LocalsOK, LocalOK, SearchBracketsKey, Brackets, Frame
<1>2. ASSUME NEW u \in Thread \ {t}
      PROVE  Brackets(th[u])'
  BY <1>2, Basics DEF IInv, SearchBracketsKey, Brackets, Precedes, Follows, Frame
<1> QED
  BY <1>1, <1>2 DEF LocalsOK, SearchBracketsKey

\* A step that changes nothing but t's locals.
LEMMA LocalFrame ==
  ASSUME IInv, NEW t \in Thread, UNCHANGED <<heap, mutex, counts, calls>>,
         th' \in [Thread -> ThreadState], \A u \in Thread \ {t} : th'[u] = th[u],
         LocalOK(th[t])', Brackets(th[t])'
  PROVE  IInv'
<1> USE DEF heap, content, counts
<1>1. Frame(t)
  BY DEF Frame, IInv, Typed
<1>2. Typed'
  BY DEF IInv, Typed
<1>3. (top[HeadNode] = MaxLevel - 1)' /\ Sorted'
  BY DEF IInv, Sorted
<1>4. LocalsOK' /\ SearchBracketsKey'
  BY <1>1, FrameKeeps
<1> QED
  BY <1>2, <1>3, <1>4 DEF IInv

\* A call that returns or starts over has nothing to keep.
LEMMA FreshKeeps ==
  ASSUME IInv, NEW t \in Thread, UNCHANGED <<heap, counts, calls>>,
         mutex' \in [Node -> Thread \union {NoThread}],
         th' \in [Thread -> ThreadState], \A u \in Thread \ {t} : th'[u] = th[u],
         \/ th'[t].pc = "idle"
         \/ th'[t] = Fresh("start", th[t].request) /\ th[t].request.name \in Keyed
  PROVE  IInv'
<1> USE DEF heap, content, counts
<1>1. Frame(t)
  BY DEF Frame, IInv, Typed
<1>2. Typed'
  BY DEF IInv, Typed
<1>3. (top[HeadNode] = MaxLevel - 1)' /\ Sorted'
  BY DEF IInv, Sorted
<1>4. LocalOK(th[t])' /\ Brackets(th[t])'
  BY DEF LocalOK, Brackets, Fresh
<1>5. LocalsOK' /\ SearchBracketsKey'
  BY <1>1, <1>4, FrameKeeps
<1> QED
  BY <1>2, <1>3, <1>5 DEF IInv

\* Return keeps th well typed, and leaves t idle.
LEMMA ReturnType ==
  ASSUME Typed, NEW t \in Thread, NEW ok \in BOOLEAN, NEW out \in Seq(Key \X Value),
         Return(t, ok, out)
  PROVE  /\ th' \in [Thread -> ThreadState] /\ \A u \in Thread \ {t} : th'[u] = th[u]
         /\ th'[t].pc = "idle"
<1>1. Fresh("idle", th[t].request) \in ThreadState
  BY FreshType DEF Typed, ThreadState, PC
<1>2. [Fresh("idle", th[t].request) EXCEPT !.ok = ok, !.out = out] \in ThreadState
  BY <1>1 DEF ThreadState
<1>3. [Fresh("idle", th[t].request) EXCEPT !.ok = ok, !.out = out].pc = "idle"
  BY DEF Fresh
<1>4. th \in [Thread -> ThreadState]
  BY DEF Typed
<1> QED
  BY <1>2, <1>3, <1>4 DEF Return

\* Returning no entries.
LEMMA ReturnEmptyType ==
  ASSUME Typed, NEW t \in Thread, Return(t, TRUE, <<>>) \/ Return(t, FALSE, <<>>)
  PROVE  /\ th' \in [Thread -> ThreadState] /\ \A u \in Thread \ {t} : th'[u] = th[u]
         /\ th'[t].pc = "idle"
<1>1. <<>> \in Seq(Key \X Value) /\ TRUE \in BOOLEAN /\ FALSE \in BOOLEAN
  OBVIOUS
<1> QED
  BY <1>1, ReturnType, Zenon

\* Retry keeps th well typed, and takes t back to the start of its loop.
LEMMA RetryType ==
  ASSUME Typed, NEW t \in Thread, Retry(t)
  PROVE  /\ th' \in [Thread -> ThreadState] /\ \A u \in Thread \ {t} : th'[u] = th[u]
         /\ th'[t] = Fresh("start", th[t].request)
<1>1. Fresh("start", th[t].request) \in ThreadState
  BY FreshType DEF Typed, ThreadState, PC
<1>2. th \in [Thread -> ThreadState]
  BY DEF Typed
<1> QED
  BY <1>1, <1>2 DEF Retry

\* Release frees mutexes and takes none.
LEMMA ReleaseType ==
  ASSUME Typed, NEW t \in Thread, Release(t)
  PROVE  mutex' \in [Node -> Thread \union {NoThread}]
BY DEF Release, Typed

-----------------------------------------------------------------------------
(* The invariant is preserved: the search.                                  *)

\* The types of one thread's locals.
LEMMA LocalTypes ==
  ASSUME Typed, NEW t \in Thread
  PROVE  /\ th[t] \in ThreadState
         /\ th[t].pc \in PC /\ th[t].request \in Request \union {NoRequest}
         /\ th[t].level \in Level /\ th[t].pred \in Node
         /\ th[t].preds \in [Level -> Node] /\ th[t].succs \in [Level -> NodeOrNull]
         /\ th[t].node \in NodeOrNull /\ th[t].top \in Level
         /\ th[t].toLock \in SUBSET Node /\ th[t].out \in Seq(Key \X Value)
         /\ th[t].ok \in BOOLEAN
BY DEF Typed, ThreadState

\* A node's pointer is null or a node.
LEMMA PointerType ==
  ASSUME Typed, NEW n \in Node, NEW l \in Level
  PROVE  forward[n][l] \in NodeOrNull /\ (forward[n][l] # NoNode => forward[n][l] \in Node)
<1>1. forward[n][l] \in NodeOrNull
  BY DEF Typed
<1> QED
  BY <1>1, Basics

\* The fields of the request of a keyed call.
LEMMA KeyedRequest ==
  ASSUME Typed, NEW t \in Thread, th[t].request.name \in Keyed
  PROVE  /\ th[t].request \in Request
         /\ th[t].request.key \in Key /\ th[t].request.key \in Int
         /\ th[t].request.name = "Put" => th[t].request.value \in Value
<1>1. th[t].request # NoRequest
  BY DEF NoRequest, Keyed
<1>2. th[t].request \in Request
  BY <1>1, LocalTypes
<1> QED
  BY <1>2, RequestFields, SkipListAssumption

LEMMA StartIInv ==
  ASSUME IInv, NEW t \in Thread, Start(t), UNCHANGED <<heap, mutex, counts, calls>>
  PROVE  IInv'
<1> DEFINE s == [th[t] EXCEPT !.pc = "find", !.level = currentLevel - 1]
<1>0. Typed
  BY DEF IInv
<1>1. currentLevel - 1 \in Level
  BY <1>0, SkipListAssumption DEF Typed, Level
<1>2. s \in ThreadState
  BY <1>0, <1>1, LocalTypes, ZenonT(90) DEF ThreadState, PC
<1>3. th' = [th EXCEPT ![t] = s]
  BY DEF Start
<1>4. th' \in [Thread -> ThreadState] /\ \A u \in Thread \ {t} : th'[u] = th[u]
  BY <1>0, <1>2, <1>3 DEF Typed
<1>5. /\ th'[t] = s
      /\ s.pc = "find" /\ s.level = currentLevel - 1 /\ s.request = th[t].request
      /\ s.pred = HeadNode /\ s.node = NoNode
      /\ \A l \in Level : s.preds[l] = HeadNode /\ s.succs[l] = NoNode
      /\ s.request.name \in Keyed
  BY <1>0, <1>3, LocalTypes DEF Typed, ThreadState, IInv, LocalsOK, LocalOK, Start
<1>6. LocalOK(th[t])'
  BY <1>5 DEF LocalOK
<1>7. \A l \in Level : Precedes(HeadNode, l, th[t].request.key)'
  BY Basics, SkipListAssumption DEF IInv, Precedes, heap, content
<1>8. Brackets(th[t])'
  BY <1>1, <1>5, <1>7 DEF Brackets, Follows
<1> QED
  BY <1>4, <1>6, <1>8, LocalFrame

LEMMA AdvanceIInv ==
  ASSUME IInv, NEW t \in Thread, Advance(t), UNCHANGED <<heap, mutex, counts, calls>>
  PROVE  IInv'
<1> DEFINE s == [th[t] EXCEPT !.pred = Current(t)]
<1>0. Typed
  BY DEF IInv
<1>1. /\ th[t].pc = "find"
      /\ Precedes(th[t].pred, th[t].level, th[t].request.key)
      /\ Current(t) # NoNode /\ key[Current(t)] < th[t].request.key
  BY DEF IInv, SearchBracketsKey, Brackets, Advance, Before
<1>2. Current(t) \in Node
  BY <1>0, <1>1, LocalTypes, PointerType DEF Current
<1>3. Precedes(Current(t), th[t].level, th[t].request.key)
  BY <1>0, <1>1, LocalTypes DEF IInv, Sorted, Current, Precedes
<1>4. s \in ThreadState
  BY <1>0, <1>2, LocalTypes DEF ThreadState
<1>5. th' = [th EXCEPT ![t] = s]
  BY DEF Advance
<1>6. th' \in [Thread -> ThreadState] /\ \A u \in Thread \ {t} : th'[u] = th[u]
  BY <1>0, <1>4, <1>5 DEF Typed
<1>7. /\ th'[t] = s
      /\ s.pred = Current(t) /\ s.pc = "find" /\ s.request = th[t].request
      /\ s.level = th[t].level /\ s.preds = th[t].preds /\ s.succs = th[t].succs
      /\ s.node = th[t].node
  BY <1>0, <1>1, <1>5, LocalTypes DEF Typed, ThreadState
<1>8. LocalOK(th[t])'
  BY <1>1, <1>7 DEF IInv, LocalsOK, LocalOK
<1>9. Brackets(th[t])'
  BY <1>1, <1>3, <1>7 DEF IInv, SearchBracketsKey, Brackets, Precedes, Follows, heap, content
<1> QED
  BY <1>6, <1>8, <1>9, LocalFrame

\* What FindNode records of a level: the pair it turned around at.
LEMMA RecordKeeps ==
  ASSUME IInv, NEW t \in Thread, th[t].pc = "find",
         ~ Before(Current(t), th[t].request.key)
  PROVE  /\ Record(t) \in ThreadState
         /\ Record(t).pc = "find" /\ Record(t).request = th[t].request
         /\ Record(t).level = th[t].level /\ Record(t).pred = th[t].pred
         /\ Brackets(Record(t))
<1> DEFINE me == th[t]
           k  == th[t].request.key
           c  == Current(t)
           r  == [th[t] EXCEPT !.preds = [@ EXCEPT ![th[t].level] = th[t].pred],
                               !.succs = [@ EXCEPT ![th[t].level] = Current(t)],
                               !.node = IF FirstFound(t) THEN Current(t) ELSE @]
<1>0. Typed
  BY DEF IInv
<1>1. CASE me.request.name \notin {"Put", "Delete"}
  BY <1>0, <1>1, LocalTypes DEF Record, IInv, SearchBracketsKey
<1>2. CASE me.request.name \in {"Put", "Delete"}
  <2>1. Record(t) = r
    BY <1>2 DEF Record
  <2>2. c \in NodeOrNull /\ me.pred \in Node /\ me.level \in Level
    BY <1>0, LocalTypes, PointerType DEF Current
  <2>3. Precedes(me.pred, me.level, k) /\ Brackets(me)
    BY DEF IInv, SearchBracketsKey, Brackets
  <2>4. k \in Int
    BY <1>0, <1>2, KeyedRequest DEF Keyed
  <2>5. Follows(c, me.level, k)
    <3> SUFFICES ASSUME c # NoNode PROVE c \in owned /\ me.level <= top[c] /\ k <= key[c]
      BY DEF Follows
    <3>1. c \in owned /\ me.level <= top[c]
      BY <2>2, <2>3 DEF IInv, Sorted, Current, Precedes
    <3>2. key[c] \in Int
      BY <1>0, <3>1, SkipListAssumption DEF Typed
    <3> QED
      BY <2>4, <3>1, <3>2 DEF Before
  <2>6. /\ r.preds = [me.preds EXCEPT ![me.level] = me.pred]
        /\ r.succs = [me.succs EXCEPT ![me.level] = c]
        /\ r.node = IF FirstFound(t) THEN c ELSE me.node
        /\ r.pc = "find" /\ r.request = me.request /\ r.level = me.level /\ r.pred = me.pred
    <3>1. me \in ThreadState
      BY <1>0, LocalTypes
    <3>2. r.preds = [me.preds EXCEPT ![me.level] = me.pred]
      BY <3>1 DEF ThreadState
    <3>3. r.succs = [me.succs EXCEPT ![me.level] = c]
      BY <3>1 DEF ThreadState
    <3>4. r.node = IF FirstFound(t) THEN c ELSE me.node
      BY <3>1 DEF ThreadState
    <3>5. r.pc = "find" /\ r.request = me.request /\ r.level = me.level /\ r.pred = me.pred
      BY <3>1 DEF ThreadState
    <3> QED
      BY <3>2, <3>3, <3>4, <3>5
  <2>7. r \in ThreadState
    BY <1>0, <2>2, LocalTypes DEF ThreadState
  <2>8. \A l \in Level : Precedes(r.preds[l], l, k) /\ Follows(r.succs[l], l, k)
    BY <1>0, <2>2, <2>3, <2>5, <2>6, LocalTypes DEF Brackets
  <2>9. r.node # NoNode => r.node \in owned /\ key[r.node] = k
    BY <2>3, <2>5, <2>6 DEF FirstFound, Holds, Brackets, Follows
  <2>10. r.node = NoNode => \A l \in Level : r.succs[l] # NoNode => key[r.succs[l]] # k
    BY <1>0, <2>2, <2>3, <2>6, LocalTypes DEF FirstFound, Holds, Brackets
  <2> QED
    BY <2>1, <2>3, <2>6, <2>7, <2>8, <2>9, <2>10 DEF Brackets
<1> QED
  BY <1>1, <1>2

LEMMA DescendIInv ==
  ASSUME IInv, NEW t \in Thread, Descend(t), UNCHANGED <<heap, mutex, counts, calls>>
  PROVE  IInv'
<1> DEFINE r == Record(t)
           s == [r EXCEPT !.level = r.level - 1]
<1>0. Typed /\ th[t].level \in Level
  BY LocalTypes DEF IInv
<1>1. th[t].pc = "find" /\ th[t].level > 0 /\ ~ Before(Current(t), th[t].request.key)
  BY DEF Descend
<1>2. /\ r \in ThreadState /\ Brackets(r)
      /\ r.pc = "find" /\ r.request = th[t].request
      /\ r.level = th[t].level /\ r.pred = th[t].pred
  BY <1>1, RecordKeeps
<1>3. r.level - 1 \in Level /\ r.level - 1 <= r.level
  BY <1>0, <1>1, <1>2, SkipListAssumption DEF Level
<1>4. Precedes(r.pred, r.level - 1, r.request.key)
  <2>1. Precedes(r.pred, r.level, r.request.key)
    BY <1>2 DEF Brackets
  <2>2. r.pred \in Node /\ top[r.pred] \in Int /\ r.level \in Int /\ r.level - 1 \in Int
    BY <1>0, <1>2, LocalTypes, Basics DEF IInv, Typed
  <2> QED
    BY <1>3, <2>1, <2>2 DEF Precedes
<1> HIDE DEF r
<1>5. s \in ThreadState
  BY <1>2, <1>3 DEF ThreadState
<1>6. th' = [th EXCEPT ![t] = s]
  BY DEF Descend, r
<1>7. th' \in [Thread -> ThreadState] /\ \A u \in Thread \ {t} : th'[u] = th[u]
  BY <1>0, <1>5, <1>6 DEF Typed
<1>8. /\ th'[t] = s
      /\ s.pred = r.pred /\ s.pc = "find" /\ s.request = r.request
      /\ s.level = r.level - 1 /\ s.preds = r.preds /\ s.succs = r.succs /\ s.node = r.node
  BY <1>0, <1>2, <1>6 DEF Typed, ThreadState
<1>9. LocalOK(th[t])'
  BY <1>1, <1>2, <1>8 DEF IInv, LocalsOK, LocalOK
<1>10. Brackets(th[t])'
  BY <1>2, <1>4, <1>8 DEF Brackets, Precedes, Follows, heap, content
<1> QED
  BY <1>7, <1>9, <1>10, LocalFrame

LEMMA FinishFindIInv ==
  ASSUME IInv, NEW t \in Thread, FinishFind(t), UNCHANGED <<heap, mutex, counts, calls>>
  PROVE  IInv'
<1> DEFINE r    == Record(t)
           name == th[t].request.name
           s    == [r EXCEPT !.pc = Continuation[name],
                             !.node = IF name = "Scan" THEN th[t].pred ELSE r.node]
<1>0. Typed /\ th[t].pred \in Node
  BY LocalTypes DEF IInv
<1>1. th[t].pc = "find" /\ ~ Before(Current(t), th[t].request.key) /\ name \in Keyed
  BY DEF FinishFind, IInv, LocalsOK, LocalOK
<1>2. /\ r \in ThreadState /\ Brackets(r)
      /\ r.pc = "find" /\ r.request = th[t].request
  BY <1>1, RecordKeeps
<1>3. /\ Continuation[name] \in {"decide", "reread", "next"}
      /\ Continuation[name] = "next" <=> name = "Scan"
  BY <1>1 DEF Continuation, Keyed
<1> HIDE DEF r
<1>4. s \in ThreadState
  BY <1>0, <1>2, <1>3, Basics DEF ThreadState, PC
<1>5. th' = [th EXCEPT ![t] = s]
  BY DEF FinishFind, r
<1>6. th' \in [Thread -> ThreadState] /\ \A u \in Thread \ {t} : th'[u] = th[u]
  BY <1>0, <1>4, <1>5 DEF Typed
<1>7. /\ th'[t] = s
      /\ s.pc = Continuation[name] /\ s.request = r.request
      /\ s.preds = r.preds /\ s.succs = r.succs
      /\ name # "Scan" => s.node = r.node
      /\ name = "Scan" => s.node = th[t].pred
  BY <1>0, <1>2, <1>5 DEF Typed, ThreadState
<1>8. LocalOK(th[t])'
  BY <1>0, <1>3, <1>7, Basics DEF LocalOK
<1>9. Brackets(th[t])'
  BY <1>2, <1>3, <1>7 DEF Brackets, Precedes, Follows, heap, content
<1> QED
  BY <1>6, <1>8, <1>9, LocalFrame

-----------------------------------------------------------------------------
(* The invariant is preserved: the other steps on locals.                   *)

LEMMA PrepareInsertIInv ==
  ASSUME IInv, NEW t \in Thread, PrepareInsert(t), UNCHANGED <<heap, mutex, counts, calls>>
  PROVE  IInv'
<1>0. Typed
  BY DEF IInv
<1>1. PICK h \in Level : th' = [th EXCEPT ![t] =
        [th[t] EXCEPT !.pc = "lock", !.top = h, !.toLock = InsertTargets(t, h)]]
  BY DEF PrepareInsert
<1> DEFINE s == [th[t] EXCEPT !.pc = "lock", !.top = h, !.toLock = InsertTargets(t, h)]
<1>2. InsertTargets(t, h) \in SUBSET Node
  BY <1>0, LocalTypes, LevelsBelow DEF InsertTargets
<1>3. s \in ThreadState
  BY <1>0, <1>2, LocalTypes, ZenonT(90) DEF ThreadState, PC
<1>4. th' \in [Thread -> ThreadState] /\ \A u \in Thread \ {t} : th'[u] = th[u]
  BY <1>0, <1>1, <1>3 DEF Typed
<1>5. /\ th'[t] = s /\ s.pc = "lock" /\ s.request = th[t].request
      /\ s.preds = th[t].preds /\ s.succs = th[t].succs /\ s.node = th[t].node
  BY <1>0, <1>1, LocalTypes DEF Typed, ThreadState
<1>6. th[t].pc = "decide" /\ th[t].request.name = "Put" /\ th[t].node = NoNode
  BY DEF PrepareInsert, At
<1>7. LocalOK(th[t])'
  BY <1>5, <1>6 DEF LocalOK
<1>8. Brackets(th[t])'
  BY <1>5, <1>6 DEF IInv, SearchBracketsKey, Brackets, Precedes, Follows, heap, content
<1> QED
  BY <1>4, <1>7, <1>8, LocalFrame

LEMMA PrepareDeleteIInv ==
  ASSUME IInv, NEW t \in Thread, PrepareDelete(t), UNCHANGED <<heap, mutex, counts, calls>>
  PROVE  IInv'
<1> DEFINE n == th[t].node
           s == [th[t] EXCEPT !.pc = "lock", !.top = top[n], !.toLock = DeleteTargets(t)]
<1>0. Typed
  BY DEF IInv
<1>1. th[t].pc = "decide" /\ th[t].request.name = "Delete" /\ n # NoNode
  BY DEF PrepareDelete, At
<1>2. n \in Node /\ top[n] \in Level
  BY <1>0, <1>1, LocalTypes, Basics DEF Typed
<1>3. DeleteTargets(t) \in SUBSET Node
  BY <1>0, <1>2, LocalTypes, LevelsBelow DEF DeleteTargets, PredecessorTargets
<1>4. s \in ThreadState
  BY <1>0, <1>2, <1>3, LocalTypes, ZenonT(90) DEF ThreadState, PC
<1>5. th' = [th EXCEPT ![t] = s]
  BY DEF PrepareDelete
<1>6. th' \in [Thread -> ThreadState] /\ \A u \in Thread \ {t} : th'[u] = th[u]
  BY <1>0, <1>4, <1>5 DEF Typed
<1>7. /\ th'[t] = s /\ s.pc = "lock" /\ s.request = th[t].request /\ s.top = top[n]
      /\ s.preds = th[t].preds /\ s.succs = th[t].succs /\ s.node = n
  BY <1>0, <1>5, LocalTypes DEF Typed, ThreadState
<1>8. LocalOK(th[t])'
  BY <1>1, <1>7 DEF LocalOK, heap, content
<1>9. Brackets(th[t])'
  BY <1>1, <1>7 DEF IInv, SearchBracketsKey, Brackets, Precedes, Follows, heap, content
<1> QED
  BY <1>6, <1>8, <1>9, LocalFrame

\* Outside the searches and the loops of Put and Delete only node matters.
LEMMA OutsideSearch ==
  ASSUME IInv, NEW t \in Thread, UNCHANGED <<heap, mutex, counts, calls>>,
         th' \in [Thread -> ThreadState], \A u \in Thread \ {t} : th'[u] = th[u],
         \/ th'[t].pc \in {"recompute", "lower", "walk"}
         \/ th'[t].pc \in {"peek", "read", "next", "collect"} /\ th'[t].node # NoNode
  PROVE  IInv'
<1>1. LocalOK(th[t])'
  BY DEF LocalOK
<1>2. Brackets(th[t])'
  BY DEF Brackets
<1> QED
  BY <1>1, <1>2, LocalFrame

LEMMA RecomputeIInv ==
  ASSUME IInv, NEW t \in Thread, Recompute(t), UNCHANGED <<heap, mutex, counts, calls>>
  PROVE  IInv'
<1>0. Typed
  BY DEF IInv
<1>1. CASE th[t].level > 0 /\ forward[HeadNode][th[t].level] = NoNode
  <2> DEFINE s == [th[t] EXCEPT !.level = th[t].level - 1]
  <2>1. th' = [th EXCEPT ![t] = s]
    BY <1>1 DEF Recompute
  <2>2. th[t].level - 1 \in Level
    BY <1>0, <1>1, LocalTypes, SkipListAssumption DEF Level
  <2>3. s \in ThreadState /\ s.pc = "recompute"
    BY <1>0, <2>2, LocalTypes DEF ThreadState, Recompute
  <2>4. th' \in [Thread -> ThreadState] /\ th'[t] = s /\ \A u \in Thread \ {t} : th'[u] = th[u]
    BY <1>0, <2>1, <2>3 DEF Typed
  <2> QED
    BY <2>3, <2>4, OutsideSearch
<1>2. CASE ~ (th[t].level > 0 /\ forward[HeadNode][th[t].level] = NoNode)
  <2> DEFINE s == [th[t] EXCEPT !.pc = "lower"]
  <2>1. th' = [th EXCEPT ![t] = s]
    BY <1>2 DEF Recompute, Goto
  <2>2. s \in ThreadState /\ s.pc = "lower"
    BY <1>0, LocalTypes DEF ThreadState, PC
  <2>3. th' \in [Thread -> ThreadState] /\ th'[t] = s /\ \A u \in Thread \ {t} : th'[u] = th[u]
    BY <1>0, <2>1, <2>2 DEF Typed
  <2> QED
    BY <2>2, <2>3, OutsideSearch
<1> QED
  BY <1>1, <1>2

\* A Return step of a call that changes nothing shared.
LEMMA ReturnIInv ==
  ASSUME IInv, NEW t \in Thread, UNCHANGED <<heap, mutex, counts, calls>>,
         NEW ok \in BOOLEAN, NEW out \in Seq(Key \X Value), Return(t, ok, out)
  PROVE  IInv'
<1>0. Typed
  BY DEF IInv
<1>1. mutex' \in [Node -> Thread \union {NoThread}]
  BY <1>0 DEF Typed
<1>2. /\ th' \in [Thread -> ThreadState] /\ \A u \in Thread \ {t} : th'[u] = th[u]
      /\ th'[t].pc = "idle"
  BY <1>0, ReturnType
<1> QED
  BY <1>1, <1>2, FreshKeeps

\* A Get or Delete that misses, or a Scan of an empty range.
LEMMA ReturnNothing ==
  ASSUME IInv, NEW t \in Thread, UNCHANGED <<heap, mutex, counts, calls>>,
         Return(t, TRUE, <<>>) \/ Return(t, FALSE, <<>>)
  PROVE  IInv'
<1>1. <<>> \in Seq(Key \X Value) /\ TRUE \in BOOLEAN /\ FALSE \in BOOLEAN
  OBVIOUS
<1>2. CASE Return(t, TRUE, <<>>)
  BY <1>1, <1>2, ReturnIInv, Zenon
<1>3. CASE Return(t, FALSE, <<>>)
  BY <1>1, <1>3, ReturnIInv, Zenon
<1> QED
  BY <1>2, <1>3

\* An extended result is a result.
LEMMA AppendType ==
  ASSUME NEW S, NEW seq \in Seq(S), NEW e \in S
  PROVE  Append(seq, e) \in Seq(S)
OBVIOUS

\* A step that moves t to another pc outside the searches.
LEMMA GotoIInv ==
  ASSUME IInv, NEW t \in Thread, UNCHANGED <<heap, mutex, counts, calls>>,
         NEW pc \in {"peek", "read", "next", "collect"}, Goto(t, pc), th[t].node # NoNode
  PROVE  IInv'
<1> DEFINE s == [th[t] EXCEPT !.pc = pc]
<1>0. Typed
  BY DEF IInv
<1>1. s \in ThreadState /\ s.pc = pc /\ s.node = th[t].node
  BY <1>0, LocalTypes DEF ThreadState, PC
<1>2. th' \in [Thread -> ThreadState] /\ th'[t] = s /\ \A u \in Thread \ {t} : th'[u] = th[u]
  BY <1>0, <1>1 DEF Typed, Goto
<1> QED
  BY <1>1, <1>2, OutsideSearch

\* Get.
LEMMA RereadIInv ==
  ASSUME IInv, NEW t \in Thread, Reread(t), UNCHANGED <<heap, mutex, counts, calls>>
  PROVE  IInv'
<1> DEFINE n == forward[th[t].pred][0]
<1>0. Typed
  BY DEF IInv
<1>1. CASE Holds(n, th[t].request.key)
  <2> DEFINE s == [th[t] EXCEPT !.pc = "peek", !.node = n]
  <2>1. th' = [th EXCEPT ![t] = s]
    BY <1>1 DEF Reread
  <2>2. n \in NodeOrNull /\ n # NoNode
    BY <1>0, <1>1, LocalTypes, PointerType, Basics DEF Holds
  <2>3. s \in ThreadState /\ s.pc = "peek" /\ s.node = n
    BY <1>0, <2>2, LocalTypes, ZenonT(40) DEF ThreadState, PC
  <2>4. th' \in [Thread -> ThreadState] /\ th'[t] = s /\ \A u \in Thread \ {t} : th'[u] = th[u]
    BY <1>0, <2>1, <2>3 DEF Typed
  <2> QED
    BY <2>2, <2>3, <2>4, OutsideSearch
<1>2. CASE ~ Holds(n, th[t].request.key)
  <2>1. Return(t, FALSE, <<>>)
    BY <1>2 DEF Reread
  <2> QED
    BY <2>1, ReturnNothing
<1> QED
  BY <1>1, <1>2

LEMMA PeekIInv ==
  ASSUME IInv, NEW t \in Thread, Peek(t), UNCHANGED <<heap, mutex, counts, calls>>
  PROVE  IInv'
<1>1. th[t].node # NoNode
  BY DEF Peek, IInv, LocalsOK, LocalOK
<1>2. CASE Readable(th[t].node)
  BY <1>1, <1>2, GotoIInv DEF Peek
<1>3. CASE ~ Readable(th[t].node)
  <2>1. Return(t, FALSE, <<>>)
    BY <1>3 DEF Peek
  <2> QED
    BY <2>1, ReturnNothing
<1> QED
  BY <1>2, <1>3

\* A node's entry in a result.
LEMMA EntryType ==
  ASSUME Typed, NEW n \in Node
  PROVE  <<key[n], value[n]>> \in Key \X Value
BY DEF Typed

LEMMA ReadIInv ==
  ASSUME IInv, NEW t \in Thread, Read(t), UNCHANGED <<heap, mutex, counts, calls>>
  PROVE  IInv'
<1> DEFINE n == th[t].node
<1>1. Typed /\ n \in Node
  BY LocalTypes, Basics DEF Read, IInv, LocalsOK, LocalOK
<1>2. CASE Readable(n)
  <2>1. <<<<key[n], value[n]>>>> \in Seq(Key \X Value)
    BY <1>1, EntryType
  <2>2. Return(t, TRUE, <<<<key[n], value[n]>>>>)
    BY <1>2 DEF Read
  <2> QED
    BY <2>1, <2>2, ReturnIInv
<1>3. CASE ~ Readable(n)
  <2>1. Return(t, FALSE, <<>>)
    BY <1>3 DEF Read
  <2> QED
    BY <2>1, ReturnNothing
<1> QED
  BY <1>2, <1>3

\* Scan and Snapshot.
LEMMA StepNextIInv ==
  ASSUME IInv, NEW t \in Thread, StepNext(t), UNCHANGED <<heap, mutex, counts, calls>>
  PROVE  IInv'
<1> DEFINE s == [th[t] EXCEPT !.pc = "walk", !.node = forward[th[t].node][0]]
<1>1. Typed /\ th[t].node \in Node
  BY LocalTypes, Basics DEF StepNext, IInv, LocalsOK, LocalOK
<1>2. s \in ThreadState /\ s.pc = "walk"
  BY <1>1, LocalTypes, PointerType, Basics, ZenonT(90) DEF ThreadState, PC
<1>3. th' = [th EXCEPT ![t] = s]
  BY DEF StepNext
<1>4. th' \in [Thread -> ThreadState] /\ th'[t] = s /\ \A u \in Thread \ {t} : th'[u] = th[u]
  BY <1>1, <1>2, <1>3 DEF Typed
<1> QED
  BY <1>2, <1>4, OutsideSearch

LEMMA WalkIInv ==
  ASSUME IInv, NEW t \in Thread, Walk(t), UNCHANGED <<heap, mutex, counts, calls>>
  PROVE  IInv'
<1>1. th[t].node # NoNode
  BY DEF Walk, PastEnd
<1> QED
  BY <1>1, GotoIInv DEF Walk

LEMMA CollectIInv ==
  ASSUME IInv, NEW t \in Thread, Collect(t), UNCHANGED <<heap, mutex, counts, calls>>
  PROVE  IInv'
<1> DEFINE n   == th[t].node
           out == IF Readable(n) THEN Append(th[t].out, <<key[n], value[n]>>) ELSE th[t].out
           s   == [th[t] EXCEPT !.pc = "next", !.out = out]
<1>1. Typed /\ n \in Node /\ n # NoNode
  BY LocalTypes, Basics DEF Collect, IInv, LocalsOK, LocalOK
<1>2. out \in Seq(Key \X Value)
  <2>1. Append(th[t].out, <<key[n], value[n]>>) \in Seq(Key \X Value)
    BY <1>1, EntryType, LocalTypes, AppendType, Zenon
  <2> QED
    BY <1>1, <2>1, LocalTypes
<1>3. th' = [th EXCEPT ![t] = s]
  BY DEF Collect
<1> HIDE DEF out
<1>4. s \in ThreadState /\ s.pc = "next" /\ s.node = n
  BY <1>1, <1>2, LocalTypes, ZenonT(90) DEF ThreadState, PC
<1>5. th' \in [Thread -> ThreadState] /\ th'[t] = s /\ \A u \in Thread \ {t} : th'[u] = th[u]
  BY <1>1, <1>3, <1>4 DEF Typed
<1> QED
  BY <1>1, <1>4, <1>5, OutsideSearch

\* All the steps that change only a thread's locals.
LEMMA LocalStepIInv ==
  ASSUME IInv, NEW t \in Thread, LocalStep(t)
  PROVE  IInv'
<1>0. UNCHANGED <<heap, mutex, counts, calls>>
  BY DEF LocalStep
<1>1. CASE ScanNothing(t) \/ DeleteMiss(t)
  <2>1. Return(t, TRUE, <<>>) \/ Return(t, FALSE, <<>>)
    BY <1>1 DEF ScanNothing, DeleteMiss
  <2> QED
    BY <1>0, <2>1, ReturnNothing
<1>2. CASE ReturnWalk(t)
  <2>1. th[t].out \in Seq(Key \X Value)
    BY LocalTypes DEF IInv
  <2> QED
    BY <1>0, <1>2, <2>1, ReturnIInv DEF ReturnWalk
<1> QED
  BY <1>0, <1>1, <1>2, StartIInv, AdvanceIInv, DescendIInv, FinishFindIInv,
     PrepareInsertIInv, PrepareDeleteIInv, RecomputeIInv, RereadIInv, PeekIInv, ReadIInv,
     StepNextIInv, WalkIInv, CollectIInv DEF LocalStep

-----------------------------------------------------------------------------
(* The invariant is preserved: the steps on shared data.                    *)

\* Steps that leave the shape of the list alone.
LEMMA ShapeFrame ==
  ASSUME IInv, NEW t \in Thread, UNCHANGED <<key, top, forward, owned>>, Typed',
         \A u \in Thread \ {t} : th'[u] = th[u],
         LocalOK(th[t])', Brackets(th[t])'
  PROVE  IInv'
<1>1. Frame(t)
  BY DEF Frame
<1>2. (top[HeadNode] = MaxLevel - 1)' /\ Sorted'
  BY DEF IInv, Sorted
<1>3. LocalsOK' /\ SearchBracketsKey'
  BY <1>1, FrameKeeps
<1> QED
  BY <1>2, <1>3 DEF IInv

LEMMA LockNextIInv ==
  ASSUME IInv, NEW t \in Thread, LockNext(t)
  PROVE  IInv'
<1> USE DEF heap, content, counts
<1>1. Typed'
  BY DEF IInv, Typed, LockNext
<1>2. LocalOK(th[t])'
  BY DEF IInv, LocalsOK, LocalOK, LockNext
<1>3. Brackets(th[t])'
  BY DEF IInv, SearchBracketsKey, Brackets, Precedes, Follows, LockNext
<1> QED
  BY <1>1, <1>2, <1>3, ShapeFrame DEF LockNext

\* A fresh start of the loop asks nothing of the heap.
LEMMA RestartOK ==
  ASSUME NEW t \in Thread,
         \/ th'[t].pc = "idle"
         \/ th'[t] = Fresh("start", th[t].request) /\ th[t].request.name \in Keyed
  PROVE  LocalOK(th[t])' /\ Brackets(th[t])'
BY DEF LocalOK, Brackets, Fresh

LEMMA UpdateExistingIInv ==
  ASSUME IInv, NEW t \in Thread, UpdateExisting(t)
  PROVE  IInv'
<1> DEFINE n == th[t].node
<1>0. /\ Typed /\ n \in Node /\ th[t].request.name = "Put"
      /\ UNCHANGED <<key, top, forward, marked, linked, owned, mutex, currentLevel, size, calls>>
  BY LocalTypes, Basics DEF IInv, UpdateExisting, At, counts
<1>1. CASE Readable(n)
  <2>1. th[t].request.value \in Value
    BY <1>0, KeyedRequest DEF Keyed
  <2>2. value' \in [Node -> Value]
    BY <1>0, <1>1, <2>1 DEF UpdateExisting, Typed
  <2>3. Return(t, FALSE, <<>>)
    BY <1>1 DEF UpdateExisting
  <2>4. /\ th' \in [Thread -> ThreadState] /\ \A u \in Thread \ {t} : th'[u] = th[u]
        /\ th'[t].pc = "idle"
    BY <1>0, <2>3, ReturnEmptyType
  <2>5. Typed'
    BY <1>0, <2>2, <2>4 DEF Typed
  <2> QED
    BY <1>0, <2>4, <2>5, RestartOK, ShapeFrame
<1>2. CASE ~ Readable(n)
  <2>1. Retry(t) /\ value' = value
    BY <1>2 DEF UpdateExisting
  <2>2. /\ th' \in [Thread -> ThreadState] /\ \A u \in Thread \ {t} : th'[u] = th[u]
        /\ th'[t] = Fresh("start", th[t].request)
    BY <1>0, <2>1, RetryType
  <2>3. Typed'
    BY <1>0, <2>1, <2>2 DEF Typed
  <2> QED
    BY <1>0, <2>2, <2>3, RestartOK, ShapeFrame DEF Keyed
<1> QED
  BY <1>1, <1>2

LEMMA RetryIInv ==
  ASSUME IInv, NEW t \in Thread, InsertRetry(t) \/ DeleteRetry(t)
  PROVE  IInv'
<1>1. /\ Typed /\ Release(t) /\ Retry(t) /\ UNCHANGED <<heap, counts, calls>>
      /\ th[t].request.name \in Keyed
  BY DEF IInv, InsertRetry, DeleteRetry, At, Keyed
<1>2. mutex' \in [Node -> Thread \union {NoThread}]
  BY <1>1, ReleaseType
<1>3. /\ th' \in [Thread -> ThreadState] /\ \A u \in Thread \ {t} : th'[u] = th[u]
      /\ th'[t] = Fresh("start", th[t].request)
  BY <1>1, RetryType
<1> QED
  BY <1>1, <1>2, <1>3, FreshKeeps

\* Raise and Lower: the last step of an Insert or a Delete.
LEMMA LastStepIInv ==
  ASSUME IInv, NEW t \in Thread, Raise(t) \/ Lower(t)
  PROVE  IInv'
<1>1. Typed /\ Release(t) /\ Return(t, TRUE, <<>>) /\ UNCHANGED <<heap, size, calls>>
  BY DEF IInv, Raise, Lower
<1>2. currentLevel' \in 1 .. MaxLevel
  <2>1. th[t].level \in Level /\ th[t].top \in Level
    BY <1>1, LocalTypes
  <2>2. th[t].level + 1 \in 1 .. MaxLevel /\ th[t].top + 1 \in 1 .. MaxLevel
    BY <2>1, SkipListAssumption DEF Level
  <2>3. currentLevel \in 1 .. MaxLevel
    BY <1>1 DEF Typed
  <2> QED
    BY <2>2, <2>3 DEF Raise, Lower
<1>3. mutex' \in [Node -> Thread \union {NoThread}]
  BY <1>1, ReleaseType
<1>4. /\ th' \in [Thread -> ThreadState] /\ \A u \in Thread \ {t} : th'[u] = th[u]
      /\ th'[t].pc = "idle"
  BY <1>1, ReturnEmptyType
<1>5. Typed'
  BY <1>1, <1>2, <1>3, <1>4 DEF Typed, heap, content
<1> QED
  BY <1>1, <1>4, <1>5, RestartOK, ShapeFrame DEF heap, content

\* Publish, Count and Uncount: only flags and counters change.
LEMMA PublishIInv ==
  ASSUME IInv, NEW t \in Thread, Publish(t)
  PROVE  IInv'
<1> DEFINE s == [th[t] EXCEPT !.pc = "count"]
<1>1. Typed /\ s \in ThreadState /\ s.pc = "count"
  BY LocalTypes DEF IInv, ThreadState, PC
<1>2. th' = [th EXCEPT ![t] = s]
  BY DEF Publish, Goto
<1>3. th' \in [Thread -> ThreadState] /\ th'[t] = s /\ \A u \in Thread \ {t} : th'[u] = th[u]
  BY <1>1, <1>2 DEF Typed
<1>4. Typed'
  BY <1>1, <1>3 DEF Typed, Publish, content, counts
<1>5. LocalOK(th[t])' /\ Brackets(th[t])'
  BY <1>1, <1>3 DEF LocalOK, Brackets
<1> QED
  BY <1>3, <1>4, <1>5, ShapeFrame DEF Publish, content

LEMMA CountIInv ==
  ASSUME IInv, NEW t \in Thread, Count(t)
  PROVE  IInv'
<1> DEFINE s == [th[t] EXCEPT !.pc = "raise"]
<1>1. Typed /\ s \in ThreadState /\ s.pc = "raise"
  BY LocalTypes DEF IInv, ThreadState, PC
<1>2. th' = [th EXCEPT ![t] = s]
  BY DEF Count, Goto
<1>3. th' \in [Thread -> ThreadState] /\ th'[t] = s /\ \A u \in Thread \ {t} : th'[u] = th[u]
  BY <1>1, <1>2 DEF Typed
<1>4. Typed'
  BY <1>1, <1>3 DEF Typed, Count, heap, content
<1>5. LocalOK(th[t])' /\ Brackets(th[t])'
  BY <1>1, <1>3 DEF LocalOK, Brackets
<1> QED
  BY <1>3, <1>4, <1>5, ShapeFrame DEF Count, heap, content

LEMMA UncountIInv ==
  ASSUME IInv, NEW t \in Thread, Uncount(t)
  PROVE  IInv'
<1> DEFINE s == [th[t] EXCEPT !.pc = "recompute", !.level = MaxLevel - 1]
<1>1. Typed /\ s \in ThreadState /\ s.pc = "recompute"
  BY LocalTypes, Basics, ZenonT(90) DEF IInv, ThreadState, PC
<1>2. th' = [th EXCEPT ![t] = s]
  BY DEF Uncount
<1>3. th' \in [Thread -> ThreadState] /\ th'[t] = s /\ \A u \in Thread \ {t} : th'[u] = th[u]
  BY <1>1, <1>2 DEF Typed
<1>4. Typed'
  BY <1>1, <1>3 DEF Typed, Uncount, heap, content
<1>5. LocalOK(th[t])' /\ Brackets(th[t])'
  BY <1>1, <1>3 DEF LocalOK, Brackets
<1> QED
  BY <1>3, <1>4, <1>5, ShapeFrame DEF Uncount, heap, content

LEMMA MarkIInv ==
  ASSUME IInv, NEW t \in Thread, Mark(t)
  PROVE  IInv'
<1> DEFINE s == [th[t] EXCEPT !.pc = "unlink", !.level = th[t].top]
<1>0. th[t].pc = "lock" /\ th[t].request.name = "Delete"
  BY DEF Mark, At
<1>1. /\ Typed /\ s \in ThreadState /\ s.pc = "unlink" /\ s.request = th[t].request
      /\ s.level = th[t].top /\ s.top = th[t].top /\ s.node = th[t].node
      /\ s.preds = th[t].preds /\ s.succs = th[t].succs
  BY LocalTypes, ZenonT(90) DEF IInv, ThreadState, PC
<1>2. th' = [th EXCEPT ![t] = s]
  BY DEF Mark
<1>3. th' \in [Thread -> ThreadState] /\ th'[t] = s /\ \A u \in Thread \ {t} : th'[u] = th[u]
  BY <1>1, <1>2 DEF Typed
<1>4. Typed'
  BY <1>1, <1>3 DEF Typed, Mark, content, counts
<1>5. th[t].node # NoNode /\ th[t].top = top[th[t].node] /\ th[t].top <= th[t].top
  BY <1>0, <1>1, LocalTypes, Basics DEF IInv, LocalsOK, LocalOK
<1>6. LocalOK(th[t])'
  BY <1>1, <1>3, <1>5 DEF LocalOK, Mark, content
<1>7. Brackets(th[t])'
  BY <1>0, <1>1, <1>3
     DEF IInv, SearchBracketsKey, Brackets, Precedes, Follows, Mark, content
<1> QED
  BY <1>3, <1>4, <1>6, <1>7, ShapeFrame DEF Mark, content

\* A store into one pointer keeps the order if its target belongs there.
LEMMA StoreSorted ==
  ASSUME IInv, NEW p \in Node, NEW l \in Level, NEW m \in NodeOrNull,
         UNCHANGED <<key, top, owned>>,
         forward' = [forward EXCEPT ![p][l] = m],
         m # NoNode => /\ l <= top[p]
                       /\ m \in owned /\ l <= top[m]
                       /\ p # HeadNode => key[p] < key[m]
  PROVE  Sorted' /\ forward' \in [Node -> [Level -> NodeOrNull]]
<1>0. Typed
  BY DEF IInv
<1>1. forward' \in [Node -> [Level -> NodeOrNull]]
  BY <1>0 DEF Typed
<1>2. \A n \in Node, k \in Level :
        forward'[n][k] = IF n = p /\ k = l THEN m ELSE forward[n][k]
  BY <1>0 DEF Typed
<1>3. owned \union {HeadNode} \subseteq Node
  BY <1>0, SkipListAssumption DEF Typed
<1>4. Sorted'
  BY <1>2, <1>3 DEF IInv, Sorted
<1> QED
  BY <1>1, <1>4

LEMMA LinkLevelIInv ==
  ASSUME IInv, NEW t \in Thread, LinkLevel(t)
  PROVE  IInv'
<1> DEFINE me == th[t]
           p  == th[t].preds[th[t].level]
<1>0. Typed /\ me.pc = "link" /\ UNCHANGED <<key, value, top, marked, linked, owned, mutex,
                                              currentLevel, size, calls>>
  BY DEF IInv, LinkLevel, content, counts
<1>1. /\ me.node # NoNode /\ me.top = top[me.node] /\ me.level <= me.top
      /\ me.level \in Level /\ me.top \in Level /\ p \in Node /\ me.node \in NodeOrNull
  BY <1>0, LocalTypes DEF IInv, LocalsOK, LocalOK
<1>2. Precedes(p, me.level, me.request.key) /\ me.node \in owned
      /\ key[me.node] = me.request.key
  BY <1>0, <1>1 DEF IInv, SearchBracketsKey, Brackets
<1>3. forward' = [forward EXCEPT ![p][me.level] = me.node]
  BY DEF LinkLevel
<1>4. Sorted' /\ forward' \in [Node -> [Level -> NodeOrNull]]
  BY <1>0, <1>1, <1>2, <1>3, StoreSorted DEF Precedes
<1>5. /\ th' \in [Thread -> ThreadState] /\ \A u \in Thread \ {t} : th'[u] = th[u]
      /\ LocalOK(th[t])' /\ Brackets(th[t])'
  <2>1. CASE me.level < me.top
    <3> DEFINE s == [th[t] EXCEPT !.level = th[t].level + 1]
    <3>1. me.level + 1 \in Level /\ me.level + 1 <= me.top
      BY <1>1, <2>1, SkipListAssumption DEF Level
    <3>2. /\ s \in ThreadState /\ s.pc = "link" /\ s.request = me.request
          /\ s.level = me.level + 1 /\ s.top = me.top /\ s.node = me.node
          /\ s.preds = me.preds /\ s.succs = me.succs
      BY <1>0, <3>1, LocalTypes DEF ThreadState
    <3>3. th' = [th EXCEPT ![t] = s]
      BY <2>1 DEF LinkLevel
    <3>4. th' \in [Thread -> ThreadState] /\ th'[t] = s /\ \A u \in Thread \ {t} : th'[u] = th[u]
      BY <1>0, <3>2, <3>3 DEF Typed
    <3>5. LocalOK(th[t])'
      BY <1>0, <1>1, <3>1, <3>2, <3>4 DEF LocalOK
    <3>6. Brackets(th[t])'
      BY <1>0, <3>2, <3>4 DEF IInv, SearchBracketsKey, Brackets, Precedes, Follows
    <3> QED
      BY <3>4, <3>5, <3>6
  <2>2. CASE ~ (me.level < me.top)
    <3> DEFINE s == [th[t] EXCEPT !.pc = "publish"]
    <3>1. s \in ThreadState /\ s.pc = "publish" /\ s.node = me.node
      BY <1>0, LocalTypes DEF ThreadState, PC
    <3>2. th' = [th EXCEPT ![t] = s]
      BY <2>2 DEF LinkLevel, Goto
    <3>3. th' \in [Thread -> ThreadState] /\ th'[t] = s /\ \A u \in Thread \ {t} : th'[u] = th[u]
      BY <1>0, <3>1, <3>2 DEF Typed
    <3>4. LocalOK(th[t])' /\ Brackets(th[t])'
      BY <1>1, <3>1, <3>3 DEF LocalOK, Brackets
    <3> QED
      BY <3>3, <3>4
  <2> QED
    BY <2>1, <2>2
<1>6. Typed'
  BY <1>0, <1>4, <1>5 DEF Typed
<1>7. Frame(t)
  BY <1>0, <1>5 DEF Frame
<1>8. LocalsOK' /\ SearchBracketsKey'
  BY <1>5, <1>7, FrameKeeps
<1> QED
  BY <1>0, <1>4, <1>6, <1>8 DEF IInv

LEMMA UnlinkLevelIInv ==
  ASSUME IInv, NEW t \in Thread, UnlinkLevel(t)
  PROVE  IInv'
<1> DEFINE me == th[t]
           p  == th[t].preds[th[t].level]
           m  == forward[th[t].node][th[t].level]
<1>0. Typed /\ me.pc = "unlink" /\ UNCHANGED <<key, value, top, marked, linked, owned, mutex,
                                                currentLevel, size, calls>>
  BY DEF IInv, UnlinkLevel, content, counts
<1>1. /\ me.node # NoNode /\ me.top = top[me.node] /\ me.level <= me.top
      /\ me.level \in Level /\ me.top \in Level /\ p \in Node /\ me.node \in NodeOrNull
  BY <1>0, LocalTypes DEF IInv, LocalsOK, LocalOK
<1>2. Precedes(p, me.level, me.request.key) /\ me.node \in owned
      /\ key[me.node] = me.request.key
  BY <1>0, <1>1 DEF IInv, SearchBracketsKey, Brackets
<1>3. m \in NodeOrNull
  BY <1>0, <1>1, PointerType, Basics
<1>4. m # NoNode => /\ m \in owned /\ me.level <= top[m] /\ key[me.node] < key[m]
                    /\ key[m] \in Int /\ key[me.node] \in Int
                    /\ p # HeadNode => key[p] \in Int
  <2>1. me.node # HeadNode
    BY <1>0, <1>2 DEF Typed
  <2>2. \A n \in Node : key[n] \in Int
    BY <1>0, SkipListAssumption DEF Typed
  <2> QED
    BY <1>0, <1>1, <1>2, <2>1, <2>2 DEF IInv, Sorted, Typed
<1>5. forward' = [forward EXCEPT ![p][me.level] = m]
  BY DEF UnlinkLevel
<1>6. m # NoNode => (p # HeadNode => key[p] < key[m])
  BY <1>2, <1>4 DEF Precedes
<1>7. Sorted' /\ forward' \in [Node -> [Level -> NodeOrNull]]
  BY <1>0, <1>1, <1>2, <1>3, <1>4, <1>5, <1>6, StoreSorted DEF Precedes
<1>8. /\ th' \in [Thread -> ThreadState] /\ \A u \in Thread \ {t} : th'[u] = th[u]
      /\ LocalOK(th[t])' /\ Brackets(th[t])'
  <2>1. CASE me.level > 0
    <3> DEFINE s == [th[t] EXCEPT !.level = th[t].level - 1]
    <3>1. me.level - 1 \in Level /\ me.level - 1 <= me.top
      BY <1>1, <2>1, SkipListAssumption DEF Level
    <3>2. /\ s \in ThreadState /\ s.pc = "unlink" /\ s.request = me.request
          /\ s.level = me.level - 1 /\ s.top = me.top /\ s.node = me.node
          /\ s.preds = me.preds /\ s.succs = me.succs
      BY <1>0, <3>1, LocalTypes DEF ThreadState
    <3>3. th' = [th EXCEPT ![t] = s]
      BY <2>1 DEF UnlinkLevel
    <3>4. th' \in [Thread -> ThreadState] /\ th'[t] = s /\ \A u \in Thread \ {t} : th'[u] = th[u]
      BY <1>0, <3>2, <3>3 DEF Typed
    <3>5. LocalOK(th[t])'
      BY <1>0, <1>1, <3>1, <3>2, <3>4 DEF LocalOK
    <3>6. Brackets(th[t])'
      BY <1>0, <3>2, <3>4 DEF IInv, SearchBracketsKey, Brackets, Precedes, Follows
    <3> QED
      BY <3>4, <3>5, <3>6
  <2>2. CASE ~ (me.level > 0)
    <3> DEFINE s == [th[t] EXCEPT !.pc = "uncount"]
    <3>1. s \in ThreadState /\ s.pc = "uncount"
      BY <1>0, LocalTypes DEF ThreadState, PC
    <3>2. th' = [th EXCEPT ![t] = s]
      BY <2>2 DEF UnlinkLevel, Goto
    <3>3. th' \in [Thread -> ThreadState] /\ th'[t] = s /\ \A u \in Thread \ {t} : th'[u] = th[u]
      BY <1>0, <3>1, <3>2 DEF Typed
    <3>4. LocalOK(th[t])' /\ Brackets(th[t])'
      BY <3>1, <3>3 DEF LocalOK, Brackets
    <3> QED
      BY <3>3, <3>4
  <2> QED
    BY <2>1, <2>2
<1>9. Typed'
  BY <1>0, <1>7, <1>8 DEF Typed
<1>10. Frame(t)
  BY <1>0, <1>8 DEF Frame
<1>11. LocalsOK' /\ SearchBracketsKey'
  BY <1>8, <1>10, FrameKeeps
<1> QED
  BY <1>0, <1>7, <1>9, <1>11 DEF IInv

\* The new node goes between the pairs the search recorded.
LEMMA InsertIInv ==
  ASSUME IInv, NEW t \in Thread, Insert(t)
  PROVE  IInv'
<1> DEFINE me  == th[t]
           k   == th[t].request.key
           fwd == [l \in Level |-> IF l <= th[t].top THEN th[t].succs[l] ELSE NoNode]
<1>0. /\ Typed /\ me.pc = "lock" /\ me.request.name = "Put"
      /\ UNCHANGED <<mutex, currentLevel, size, calls>>
  BY DEF IInv, Insert, At, counts
<1>1. PICK n \in Node \ (owned \union {HeadNode}) :
        /\ key'     = [key EXCEPT ![n] = k]
        /\ value'   = [value EXCEPT ![n] = me.request.value]
        /\ top'     = [top EXCEPT ![n] = me.top]
        /\ forward' = [forward EXCEPT ![n] = fwd]
        /\ marked'  = [marked EXCEPT ![n] = FALSE]
        /\ linked'  = [linked EXCEPT ![n] = FALSE]
        /\ owned'   = owned \union {n}
        /\ th'      = [th EXCEPT ![t].pc = "link", ![t].node = n, ![t].level = 0]
  BY DEF Insert
<1> DEFINE s == [th[t] EXCEPT !.pc = "link", !.node = n, !.level = 0]
<1>2. k \in Key /\ k \in Int /\ me.request.value \in Value /\ me.node = NoNode
  BY <1>0, KeyedRequest DEF Keyed, IInv, LocalsOK, LocalOK
<1>3. me.top \in Level /\ me.succs \in [Level -> NodeOrNull] /\ n \in Node /\ n # NoNode
  BY <1>0, LocalTypes, Basics
<1>4. fwd \in [Level -> NodeOrNull]
  BY <1>3, Basics
<1>5. \A l \in Level : me.succs[l] # NoNode =>
        /\ me.succs[l] \in owned /\ l <= top[me.succs[l]]
        /\ k < key[me.succs[l]]
  <2>1. \A m \in Node : key[m] \in Int
    BY <1>0, SkipListAssumption DEF Typed
  <2> QED
    BY <1>0, <1>2, <1>3, <2>1, Basics DEF IInv, SearchBracketsKey, Brackets, Follows
<1>6. /\ key' \in [Node -> Key] /\ value' \in [Node -> Value] /\ top' \in [Node -> Level]
      /\ forward' \in [Node -> [Level -> NodeOrNull]]
      /\ marked' \in [Node -> BOOLEAN] /\ linked' \in [Node -> BOOLEAN]
      /\ owned' \subseteq Node \ {HeadNode}
  BY <1>0, <1>1, <1>2, <1>3, <1>4 DEF Typed
<1>7. /\ key'[n] = k /\ top'[n] = me.top /\ forward'[n] = fwd
      /\ \A m \in Node \ {n} : key'[m] = key[m] /\ top'[m] = top[m] /\ forward'[m] = forward[m]
  BY <1>0, <1>1, <1>3 DEF Typed
<1>8. s \in ThreadState /\ s.pc = "link" /\ s.request = me.request /\ s.level = 0
      /\ s.node = n /\ s.top = me.top /\ s.preds = me.preds /\ s.succs = me.succs
  <2>1. th[t] \in ThreadState
    BY <1>0, LocalTypes
  <2>2. "link" \in PC /\ 0 \in Level /\ n \in NodeOrNull
    BY <1>3, Basics DEF PC
  <2> QED
    BY <2>1, <2>2, ZenonT(40) DEF ThreadState
<1>9. th' \in [Thread -> ThreadState] /\ th'[t] = s /\ \A u \in Thread \ {t} : th'[u] = th[u]
  <2>1. th' = [th EXCEPT ![t] = s]
    BY <1>1
  <2> QED
    BY <1>0, <1>8, <2>1 DEF Typed
<1>10. Typed'
  BY <1>0, <1>6, <1>9 DEF Typed
<1>11. owned \union {HeadNode} \subseteq Node \ {n}
  BY <1>0, <1>1, SkipListAssumption DEF Typed
<1>12. Frame(t) /\ (top[HeadNode] = MaxLevel - 1)'
  BY <1>1, <1>7, <1>9, <1>11 DEF Frame, IInv
<1>13. Sorted'
  <2> SUFFICES ASSUME NEW p \in owned \union {HeadNode, n}, NEW l \in Level,
                      forward'[p][l] # NoNode
               PROVE  /\ l <= top'[p]
                      /\ forward'[p][l] \in owned' /\ l <= top'[forward'[p][l]]
                      /\ p # HeadNode => key'[p] < key'[forward'[p][l]]
    BY <1>1 DEF Sorted
  <2>1. CASE p = n
    <3>1. forward'[p][l] = me.succs[l] /\ l <= me.top
      BY <1>7, <2>1
    <3> QED
      BY <1>1, <1>5, <1>7, <1>11, <2>1, <3>1
  <2>2. CASE p # n
    <3>1. p \in owned \union {HeadNode} /\ forward'[p][l] = forward[p][l]
      BY <1>7, <1>11, <2>2
    <3>2. /\ l <= top[p] /\ forward[p][l] \in owned /\ l <= top[forward[p][l]]
          /\ p # HeadNode => key[p] < key[forward[p][l]]
      BY <3>1 DEF IInv, Sorted
    <3> QED
      BY <1>1, <1>7, <1>11, <3>1, <3>2
  <2> QED
    BY <2>1, <2>2
<1>14. LocalOK(th[t])'
  BY <1>3, <1>7, <1>8, <1>9, Basics DEF LocalOK
<1>15. Brackets(th[t])'
  <2>1. \A l \in Level : Precedes(me.preds[l], l, k) /\ Follows(me.succs[l], l, k)
    BY <1>0 DEF IInv, SearchBracketsKey, Brackets
  <2>2. \A l \in Level : /\ Precedes(th[t].preds[l], l, th[t].request.key)'
                         /\ Follows(th[t].succs[l], l, th[t].request.key)'
    BY <1>1, <1>7, <1>8, <1>9, <1>11, <2>1 DEF Precedes, Follows
  <2> QED
    BY <1>1, <1>3, <1>7, <1>8, <1>9, <2>2 DEF Brackets
<1>16. LocalsOK' /\ SearchBracketsKey'
  BY <1>12, <1>14, <1>15, FrameKeeps
<1> QED
  BY <1>10, <1>12, <1>13, <1>16 DEF IInv

-----------------------------------------------------------------------------
(* The invariant is preserved: calls, and the theorems.                     *)

\* A request that Work offers is a request.
LEMMA WorkType ==
  ASSUME NEW t \in Thread, NEW i \in Nat, i < Len(Work[t]), NEW r \in Work[t][i + 1]
  PROVE  r \in Request
<1>1. Work[t] \in Seq(SUBSET Request)
  BY SkipListAssumption
<1>2. i + 1 \in 1 .. Len(Work[t])
  BY <1>1
<1>3. Work[t][i + 1] \in SUBSET Request
  BY <1>1, <1>2
<1> QED
  BY <1>3

LEMMA CallIInv ==
  ASSUME IInv, NEW t \in Thread, Call(t)
  PROVE  IInv'
<1>0. Typed /\ calls[t] \in Nat /\ calls' = [calls EXCEPT ![t] = calls[t] + 1]
      /\ UNCHANGED <<key, value, top, forward, marked, linked, owned, mutex, currentLevel, size>>
  BY DEF IInv, Typed, Call, heap, content, counts
<1>1. PICK r \in Work[t][calls[t] + 1] :
        /\ r.name # "Clear"
        /\ th' = [th EXCEPT ![t] =
             IF r.name = "Snapshot" THEN [Fresh("next", r) EXCEPT !.node = HeadNode]
                                    ELSE Fresh("start", r)]
  BY DEF Call
<1>2. r \in Request
  BY <1>0, WorkType DEF Call
<1>3. Fresh("next", r) \in ThreadState /\ Fresh("start", r) \in ThreadState
  BY <1>2, FreshType DEF PC
<1>4. calls' \in [Thread -> Nat]
  BY <1>0 DEF Typed
<1>5. CASE r.name = "Snapshot"
  <2> DEFINE s == [Fresh("next", r) EXCEPT !.node = HeadNode]
  <2>1. s \in ThreadState /\ s.pc = "next" /\ s.node = HeadNode
    BY <1>3, Basics DEF ThreadState, Fresh
  <2>2. th' \in [Thread -> ThreadState] /\ th'[t] = s /\ \A u \in Thread \ {t} : th'[u] = th[u]
    BY <1>0, <1>1, <1>5, <2>1 DEF Typed
  <2>3. Typed'
    BY <1>0, <1>4, <2>2 DEF Typed
  <2>4. LocalOK(th[t])' /\ Brackets(th[t])'
    BY <2>1, <2>2, Basics, SkipListAssumption DEF LocalOK, Brackets
  <2> QED
    BY <1>0, <2>2, <2>3, <2>4, ShapeFrame
<1>6. CASE r.name # "Snapshot"
  <2> DEFINE s == Fresh("start", r)
  <2>1. r.name \in Keyed
    BY <1>1, <1>2, <1>6 DEF Request, Keyed
  <2>2. th' \in [Thread -> ThreadState] /\ th'[t] = s /\ \A u \in Thread \ {t} : th'[u] = th[u]
    BY <1>0, <1>1, <1>3, <1>6 DEF Typed
  <2>3. Typed'
    BY <1>0, <1>4, <2>2 DEF Typed
  <2>4. LocalOK(th[t])' /\ Brackets(th[t])'
    BY <2>1, <2>2 DEF LocalOK, Brackets, Fresh
  <2> QED
    BY <1>0, <2>2, <2>3, <2>4, ShapeFrame
<1> QED
  BY <1>5, <1>6

\* With no call in progress, an empty list satisfies everything.
LEMMA ClearIInv ==
  ASSUME IInv, NEW t \in Thread, Clear(t)
  PROVE  IInv'
<1>0. Typed /\ calls[t] \in Nat /\ UNCHANGED <<key, value, top, marked, linked, mutex>>
      /\ owned' = {} /\ currentLevel' = 1 /\ size' = 0
      /\ calls' = [calls EXCEPT ![t] = calls[t] + 1]
      /\ forward' = [forward EXCEPT ![HeadNode] = [l \in Level |-> NoNode]]
  BY DEF IInv, Typed, Clear, content
<1>1. PICK r \in Work[t][calls[t] + 1] : th' = [th EXCEPT ![t] = Fresh("idle", r)]
  BY DEF Clear
<1>2. Fresh("idle", r) \in ThreadState
  <2>1. r \in Request
    BY <1>0, WorkType DEF Clear
  <2> QED
    BY <2>1, FreshType DEF PC
<1>3. \A u \in Thread : th'[u].pc = "idle"
  BY <1>0, <1>1 DEF Clear, Fresh, Typed
<1>4. Typed'
  <2>1. forward' \in [Node -> [Level -> NodeOrNull]]
    BY <1>0, Basics DEF Typed
  <2> QED
    BY <1>0, <1>1, <1>2, <2>1, SkipListAssumption DEF Typed
<1>5. (top[HeadNode] = MaxLevel - 1)' /\ Sorted'
  BY <1>0, SkipListAssumption DEF IInv, Typed, Sorted
<1>6. LocalsOK' /\ SearchBracketsKey'
  BY <1>3 DEF LocalsOK, LocalOK, SearchBracketsKey, Brackets
<1> QED
  BY <1>4, <1>5, <1>6 DEF IInv

LEMMA SharedStepIInv ==
  ASSUME IInv, NEW t \in Thread, SharedStep(t)
  PROVE  IInv'
BY LockNextIInv, UpdateExistingIInv, RetryIInv, InsertIInv, LinkLevelIInv, PublishIInv,
   CountIInv, LastStepIInv, MarkIInv, UnlinkLevelIInv, UncountIInv DEF SharedStep

LEMMA NextIInv == IInv /\ [Next]_vars => IInv'
<1> SUFFICES ASSUME IInv, [Next]_vars PROVE IInv'
  OBVIOUS
<1>1. CASE UNCHANGED vars
  BY <1>1 DEF vars, IInv, Typed, Sorted, LocalsOK, LocalOK, SearchBracketsKey, Brackets,
              Precedes, Follows
<1>2. ASSUME NEW t \in Thread, Call(t) \/ Clear(t) \/ Step(t)
      PROVE  IInv'
  BY <1>2, CallIInv, ClearIInv, LocalStepIInv, SharedStepIInv DEF Step
<1> QED
  BY <1>1, <1>2 DEF Next, Finished

\* The skip list keeps its types, its order and the brackets of its searches,
\* whatever the threads do (SkipList.hpp, all operations).
THEOREM InvariantHolds == Spec => []IInv
BY InitIInv, NextIInv, PTL DEF Spec

\* No interleaving of Put and Delete ever links nodes out of order, past a node's
\* height or into memory the list does not own.
THEOREM OrderHolds == Spec => []Sorted
<1>1. IInv => Sorted
  BY DEF IInv
<1> QED
  BY <1>1, InvariantHolds, PTL

\* What FindNode recorded brackets the key until the call stops using it.
THEOREM BracketsHold == Spec => []SearchBracketsKey
<1>1. IInv => SearchBracketsKey
  BY DEF IInv
<1> QED
  BY <1>1, InvariantHolds, PTL

-----------------------------------------------------------------------------
(* No call keeps the address of a node that is not owned.  Between calls a *)
(* thread keeps none at all, so that Clear may free them.                   *)

\* The locals' addresses lie in S.
Within(me, S) ==
  /\ me.pred \in S /\ me.node \in S /\ me.toLock \subseteq S
  /\ \A l \in Level : me.preds[l] \in S /\ me.succs[l] \in S

\* The locals of two states hold the same addresses.
Alike(me, it) ==
  /\ me.pred = it.pred /\ me.node = it.node /\ me.toLock = it.toLock
  /\ me.preds = it.preds /\ me.succs = it.succs

Held(me) ==
  /\ Within(me, owned \union {HeadNode, NoNode})
  /\ me.pc = "idle" => Within(me, {HeadNode, NoNode})

AllHeld == \A t \in Thread : Held(th[t])

\* A call that begins, starts over or returns keeps no address.
LEMMA FreshWithin ==
  ASSUME NEW pc, NEW r
  PROVE  /\ Within(Fresh(pc, r), {HeadNode, NoNode})
         /\ Within([Fresh(pc, r) EXCEPT !.node = HeadNode], {HeadNode, NoNode})
         /\ \A ok, out : Within([Fresh(pc, r) EXCEPT !.ok = ok, !.out = out], {HeadNode, NoNode})
BY DEF Within, Fresh

\* A step of t's that keeps the nodes alive: t's addresses are what is left to prove.
LEMMA HeldFrame ==
  ASSUME AllHeld, NEW t \in Thread, \A u \in Thread \ {t} : th'[u] = th[u],
         owned \subseteq owned',
         \/ Within(th'[t], {HeadNode, NoNode})
         \/ th'[t].pc # "idle" /\ Within(th'[t], owned' \union {HeadNode, NoNode})
  PROVE  AllHeld'
<1>1. Held(th[t])'
  BY DEF Held, Within
<1>2. ASSUME NEW u \in Thread \ {t}
      PROVE  Held(th[u])'
  BY <1>2 DEF AllHeld, Held, Within
<1> QED
  BY <1>1, <1>2 DEF AllHeld

\* What an owned node's pointer leads to is owned.
LEMMA PointerOwned ==
  ASSUME IInv, NEW n \in Node, n \in owned \union {HeadNode, NoNode}, NEW l \in Level
  PROVE  forward[n][l] \in owned \union {HeadNode, NoNode}
BY Basics DEF IInv, Sorted

\* Steps on locals leave those of the other threads alone.
LEMMA LocalStepOthers ==
  ASSUME Typed, NEW t \in Thread, LocalStep(t)
  PROVE  \A u \in Thread \ {t} : th'[u] = th[u]
BY DEF LocalStep, Start, ScanNothing, Advance, Descend, FinishFind, PrepareInsert, DeleteMiss,
       PrepareDelete, Recompute, Reread, Peek, Read, StepNext, ReturnWalk, Walk, Collect,
       Return, Goto, Typed

\* A step of t inside its call, on addresses it has or finds in a node's pointers.
LEMMA LocalHeld ==
  ASSUME IInv, AllHeld, NEW t \in Thread, LocalStep(t)
  PROVE  AllHeld'
<1> DEFINE S == owned \union {HeadNode, NoNode}
           me == th[t]
<1>t. Typed /\ th \in [Thread -> ThreadState] /\ me \in ThreadState /\ owned' = owned
  BY LocalTypes DEF IInv, Typed, LocalStep, heap
<1>o. \A u \in Thread \ {t} : th'[u] = th[u]
  BY <1>t, LocalStepOthers
<1>w. Within(me, S) /\ LocalOK(me) /\ me.pred \in Node /\ me.level \in Level
  BY <1>t, LocalTypes DEF AllHeld, Held, IInv, LocalsOK
<1>1. CASE \E ok \in BOOLEAN : \E out : Return(t, ok, out)
  <2>1. PICK ok, out : th'[t] = [Fresh("idle", me.request) EXCEPT !.ok = ok, !.out = out]
    BY <1>t, <1>1 DEF Return
  <2>2. Within([Fresh("idle", me.request) EXCEPT !.ok = ok, !.out = out], {HeadNode, NoNode})
    BY FreshWithin, Zenon
  <2>3. Within(th'[t], {HeadNode, NoNode})
    BY <2>1, <2>2, Zenon
  <2> QED
    BY <1>t, <1>o, <2>3, HeldFrame
<1>2. ASSUME th'[t].pc # "idle", Alike(th'[t], me)
      PROVE  AllHeld'
  <2>1. Within(th'[t], S)
    BY <1>w, <1>2 DEF Within, Alike
  <2> QED
    BY <1>t, <1>o, <1>2, <2>1, HeldFrame
<1>3. CASE Advance(t)
  <2>1. Current(t) \in S
    BY <1>w, PointerOwned DEF Current, Within
  <2>2. th'[t] = [me EXCEPT !.pred = Current(t)] /\ me.pc = "find"
    BY <1>t, <1>3 DEF Advance
  <2>3. th'[t].pc # "idle" /\ Within(th'[t], S)
    BY <1>t, <1>w, <2>1, <2>2 DEF Within, ThreadState
  <2> QED
    BY <1>t, <1>o, <2>3, HeldFrame
<1>4. CASE Descend(t) \/ FinishFind(t)
  <2>1. Current(t) \in S /\ me.pc = "find"
    BY <1>w, <1>4, PointerOwned DEF Current, Within, Descend, FinishFind
  <2>2. Within(Record(t), S) /\ Record(t) \in ThreadState /\ Record(t).pc = "find"
    <3>1. CASE me.request.name \notin {"Put", "Delete"}
      BY <1>t, <1>w, <2>1, <3>1 DEF Record
    <3>2. CASE me.request.name \in {"Put", "Delete"}
      <4>1. me.level \in Level /\ me.preds \in [Level -> Node] /\ me.succs \in [Level -> NodeOrNull]
            /\ me.pred \in S
        BY <1>t, <1>w, LocalTypes DEF Within
      <4>2. \A l \in Level : /\ [me.preds EXCEPT ![me.level] = me.pred][l] \in S
                             /\ [me.succs EXCEPT ![me.level] = Current(t)][l] \in S
        BY <1>w, <2>1, <4>1 DEF Within
      <4>3. /\ Record(t).pred = me.pred /\ Record(t).toLock = me.toLock
            /\ Record(t).preds = [me.preds EXCEPT ![me.level] = me.pred]
            /\ Record(t).succs = [me.succs EXCEPT ![me.level] = Current(t)]
            /\ Record(t).node \in {me.node, Current(t)}
        BY <1>t, <3>2 DEF Record, ThreadState
      <4>4. Record(t) \in ThreadState /\ Record(t).pc = "find"
        BY <2>1, <1>w, RecordKeeps, <1>4 DEF LocalOK, Descend, FinishFind
      <4> QED
        BY <1>w, <2>1, <4>2, <4>3, <4>4 DEF Within
    <3> QED
      BY <3>1, <3>2
  <2>3. CASE Descend(t)
    <3>1. th'[t] = [Record(t) EXCEPT !.level = Record(t).level - 1]
      BY <1>t, <2>3 DEF Descend
    <3>2. th'[t].pc # "idle" /\ Within(th'[t], S)
      BY <2>2, <3>1 DEF Within, ThreadState
    <3> QED
      BY <1>t, <1>o, <3>2, HeldFrame
  <2>4. CASE FinishFind(t)
    <3>1. Continuation[me.request.name] \in {"decide", "reread", "next"}
      BY <1>w, <2>1 DEF LocalOK, Continuation, Keyed
    <3>2. PICK n \in {Record(t).node, me.pred} :
            th'[t] = [Record(t) EXCEPT !.pc = Continuation[me.request.name], !.node = n]
      BY <1>t, <2>4 DEF FinishFind
    <3>3. n \in S
      BY <1>w, <2>2, <3>2 DEF Within
    <3>4. th'[t].pc # "idle" /\ Within(th'[t], S)
      BY <2>2, <3>1, <3>2, <3>3 DEF Within, ThreadState
    <3> QED
      BY <1>t, <1>o, <3>4, HeldFrame
  <2> QED
    BY <1>4, <2>3, <2>4
<1>5. CASE PrepareInsert(t) \/ PrepareDelete(t)
  <2>1. PICK h \in Level, T \in SUBSET Node :
          /\ th'[t] = [me EXCEPT !.pc = "lock", !.top = h, !.toLock = T]
          /\ T \subseteq S
    <3>1. CASE PrepareInsert(t)
      <4>1. PICK h \in Level : th' = [th EXCEPT ![t].pc = "lock", ![t].top = h,
                                              ![t].toLock = InsertTargets(t, h)]
        BY <3>1 DEF PrepareInsert
      <4>2. \A l \in 0 .. h : me.preds[l] \in S /\ me.preds[l] \in Node
        BY <1>t, <1>w, LevelsBelow DEF Within, ThreadState
      <4>3. InsertTargets(t, h) \subseteq S /\ InsertTargets(t, h) \subseteq Node
        BY <4>2 DEF InsertTargets
      <4>4. th'[t] = [me EXCEPT !.pc = "lock", !.top = h, !.toLock = InsertTargets(t, h)]
        BY <1>t, <4>1
      <4> QED
        BY <4>3, <4>4
    <3>2. CASE PrepareDelete(t)
      <4>1. me.node # NoNode /\ me.node \in Node /\ me.node \in S
        BY <1>t, <1>w, <3>2, LocalTypes, Basics DEF PrepareDelete, Within
      <4>2. top[me.node] \in Level
        BY <1>t, <4>1 DEF Typed
      <4>3. \A l \in 0 .. top[me.node] : me.preds[l] \in S /\ me.preds[l] \in Node
        BY <1>t, <1>w, <4>2, LevelsBelow DEF Within, ThreadState
      <4>4. DeleteTargets(t) \subseteq S /\ DeleteTargets(t) \subseteq Node
        BY <4>1, <4>3 DEF DeleteTargets, PredecessorTargets
      <4>5. th'[t] = [me EXCEPT !.pc = "lock", !.top = top[me.node], !.toLock = DeleteTargets(t)]
        BY <1>t, <3>2 DEF PrepareDelete
      <4> QED
        BY <4>2, <4>4, <4>5
    <3> QED
      BY <1>5, <3>1, <3>2
  <2>2. th'[t].pc # "idle" /\ Within(th'[t], S)
    BY <1>t, <1>w, <2>1 DEF Within, ThreadState
  <2> QED
    BY <1>t, <1>o, <2>2, HeldFrame
<1>6. ASSUME NEW pc \in PC, pc # "idle", NEW n \in S,
             th'[t] = [me EXCEPT !.pc = pc, !.node = n]
      PROVE  AllHeld'
  <2>1. th'[t].pc # "idle" /\ Within(th'[t], S)
    BY <1>t, <1>w, <1>6 DEF Within, ThreadState
  <2> QED
    BY <1>t, <1>o, <2>1, HeldFrame
<1>7. CASE Reread(t) /\ ~ Return(t, FALSE, <<>>)
  <2>1. forward[me.pred][0] \in S
    BY <1>w, PointerOwned, Basics DEF Within
  <2>2. th'[t] = [me EXCEPT !.pc = "peek", !.node = forward[me.pred][0]]
    BY <1>t, <1>7 DEF Reread
  <2> QED
    BY <1>6, <2>1, <2>2 DEF PC
<1>8. CASE StepNext(t)
  <2>1. me.node \in Node
    BY <1>t, <1>w, <1>8, LocalTypes, Basics DEF StepNext, LocalOK
  <2>2. forward[me.node][0] \in S
    BY <1>w, <2>1, PointerOwned, Basics DEF Within
  <2>3. th'[t] = [me EXCEPT !.pc = "walk", !.node = forward[me.node][0]]
    BY <1>t, <1>8 DEF StepNext
  <2> QED
    BY <1>6, <2>2, <2>3 DEF PC
<1>9. CASE Start(t) \/ Recompute(t) \/ Walk(t) \/ Collect(t) \/ (Peek(t) /\ ~ Return(t, FALSE, <<>>))
  <2>1. th'[t].pc # "idle" /\ Alike(th'[t], me)
    <3>1. CASE Start(t) \/ Collect(t)
      BY <1>t, <3>1 DEF Start, Collect, Alike, ThreadState
    <3>2. CASE Recompute(t)
      <4>1. /\ me.pc = "recompute"
            /\ \/ th' = [th EXCEPT ![t].level = me.level - 1]
               \/ th' = [th EXCEPT ![t].pc = "lower"]
        BY <1>t, <3>2 DEF Recompute, Goto
      <4> QED
        BY <1>t, <4>1 DEF Alike, ThreadState
    <3>3. CASE Walk(t) \/ (Peek(t) /\ ~ Return(t, FALSE, <<>>))
      <4>1. \/ th' = [th EXCEPT ![t].pc = "collect"]
            \/ th' = [th EXCEPT ![t].pc = "next"]
            \/ th' = [th EXCEPT ![t].pc = "read"]
        BY <3>3 DEF Walk, Peek, Goto
      <4> QED
        BY <1>t, <4>1 DEF Alike, ThreadState
    <3> QED
      BY <1>9, <3>1, <3>2, <3>3
  <2> QED
    BY <1>2, <2>1
<1>10. CASE ScanNothing(t) \/ DeleteMiss(t) \/ Read(t) \/ ReturnWalk(t) \/ Return(t, FALSE, <<>>)
  <2>1. \E ok \in BOOLEAN : \E out : Return(t, ok, out)
    BY <1>10 DEF ScanNothing, DeleteMiss, Read, ReturnWalk
  <2> QED
    BY <1>1, <2>1
<1> QED
  BY <1>3, <1>4, <1>5, <1>7, <1>8, <1>9, <1>10 DEF LocalStep

\* A step on shared data: only Insert brings an address, that of the new node.
LEMMA SharedHeld ==
  ASSUME IInv, AllHeld, NEW t \in Thread, SharedStep(t)
  PROVE  AllHeld'
<1> DEFINE S == owned \union {HeadNode, NoNode}
           me == th[t]
<1>t. Typed /\ th \in [Thread -> ThreadState] /\ me \in ThreadState
  BY LocalTypes DEF IInv, Typed
<1>w. Within(me, S)
  BY DEF AllHeld, Held
<1>1. CASE UpdateExisting(t) \/ InsertRetry(t) \/ DeleteRetry(t) \/ Raise(t) \/ Lower(t)
  <2>1. owned' = owned /\ \/ Retry(t)
                          \/ \E ok \in BOOLEAN : Return(t, ok, <<>>)
    BY <1>1 DEF UpdateExisting, InsertRetry, DeleteRetry, Raise, Lower, heap
  <2>2. /\ \A u \in Thread \ {t} : th'[u] = th[u]
        /\ Within(th'[t], {HeadNode, NoNode})
    <3>1. CASE Retry(t)
      BY <1>t, <3>1, FreshWithin DEF Retry
    <3>2. CASE \E ok \in BOOLEAN : Return(t, ok, <<>>)
      <4>1. PICK ok : /\ \A u \in Thread \ {t} : th'[u] = th[u]
                      /\ th'[t] = [Fresh("idle", me.request) EXCEPT !.ok = ok, !.out = <<>>]
        BY <1>t, <3>2 DEF Return
      <4>2. Within([Fresh("idle", me.request) EXCEPT !.ok = ok, !.out = <<>>], {HeadNode, NoNode})
        BY FreshWithin, Zenon
      <4> QED
        BY <4>1, <4>2, Zenon
    <3> QED
      BY <2>1, <3>1, <3>2
  <2> QED
    BY <2>1, <2>2, HeldFrame
<1>2. CASE LockNext(t)
  <2>1. owned' = owned /\ th' = th
    BY <1>2 DEF LockNext, heap
  <2> QED
    BY <2>1 DEF AllHeld, Held, Within
<1>3. CASE LinkLevel(t) \/ Publish(t) \/ Count(t) \/ Mark(t) \/ UnlinkLevel(t) \/ Uncount(t)
  <2>1. /\ owned' = owned /\ \A u \in Thread \ {t} : th'[u] = th[u]
        /\ th'[t].pc # "idle" /\ Alike(th'[t], me)
    <3>1. CASE LinkLevel(t)
      <4>1. /\ me.pc = "link" /\ owned' = owned
            /\ \/ th' = [th EXCEPT ![t].level = me.level + 1]
               \/ th' = [th EXCEPT ![t].pc = "publish"]
        BY <1>t, <3>1 DEF LinkLevel, Goto
      <4>2. /\ \A u \in Thread \ {t} : th'[u] = th[u]
            /\ \/ th'[t] = [me EXCEPT !.level = me.level + 1]
               \/ th'[t] = [me EXCEPT !.pc = "publish"]
        BY <1>t, <4>1
      <4> QED
        BY <1>t, <4>1, <4>2 DEF Alike, ThreadState
    <3>2. CASE UnlinkLevel(t)
      <4>1. /\ me.pc = "unlink" /\ owned' = owned
            /\ \/ th' = [th EXCEPT ![t].level = me.level - 1]
               \/ th' = [th EXCEPT ![t].pc = "uncount"]
        BY <1>t, <3>2 DEF UnlinkLevel, Goto
      <4>2. /\ \A u \in Thread \ {t} : th'[u] = th[u]
            /\ \/ th'[t] = [me EXCEPT !.level = me.level - 1]
               \/ th'[t] = [me EXCEPT !.pc = "uncount"]
        BY <1>t, <4>1
      <4> QED
        BY <1>t, <4>1, <4>2 DEF Alike, ThreadState
    <3>3. CASE Publish(t) \/ Count(t)
      BY <1>t, <3>3 DEF Publish, Count, Goto, Alike, ThreadState, heap
    <3>4. CASE Mark(t) \/ Uncount(t)
      BY <1>t, <3>4 DEF Mark, Uncount, Alike, ThreadState, heap
    <3> QED
      BY <1>3, <3>1, <3>2, <3>3, <3>4
  <2>2. Within(th'[t], S)
    BY <1>w, <2>1 DEF Within, Alike
  <2> QED
    BY <2>1, <2>2, HeldFrame
<1>4. CASE Insert(t)
  <2>1. PICK n \in Node : owned' = owned \union {n}
                        /\ th' = [th EXCEPT ![t].pc = "link", ![t].node = n, ![t].level = 0]
    BY <1>4 DEF Insert
  <2>2. /\ \A u \in Thread \ {t} : th'[u] = th[u]
        /\ th'[t] = [me EXCEPT !.pc = "link", !.node = n, !.level = 0]
    BY <1>t, <2>1
  <2>3. th'[t].pc # "idle" /\ Within(th'[t], owned' \union {HeadNode, NoNode})
    BY <1>t, <1>w, <2>1, <2>2 DEF Within, ThreadState
  <2> QED
    BY <2>1, <2>2, <2>3, HeldFrame
<1> QED
  BY <1>1, <1>2, <1>3, <1>4 DEF SharedStep

LEMMA NextHeld == IInv /\ AllHeld /\ [Next]_vars => AllHeld'
<1> SUFFICES ASSUME IInv, AllHeld, [Next]_vars PROVE AllHeld'
  OBVIOUS
<1>t. th \in [Thread -> ThreadState]
  BY DEF IInv, Typed
<1>1. CASE UNCHANGED vars
  BY <1>1 DEF vars, AllHeld, Held, Within
<1>2. ASSUME NEW t \in Thread, Call(t)
      PROVE  AllHeld'
  <2>1. /\ owned' = owned /\ \A u \in Thread \ {t} : th'[u] = th[u]
        /\ \E r : th'[t] \in {Fresh("start", r), [Fresh("next", r) EXCEPT !.node = HeadNode]}
    BY <1>t, <1>2 DEF Call, heap
  <2>2. Within(th'[t], {HeadNode, NoNode})
    <3>1. PICK r : th'[t] \in {Fresh("start", r), [Fresh("next", r) EXCEPT !.node = HeadNode]}
      BY <2>1
    <3>2. /\ Within(Fresh("start", r), {HeadNode, NoNode})
          /\ Within([Fresh("next", r) EXCEPT !.node = HeadNode], {HeadNode, NoNode})
      BY FreshWithin, Zenon
    <3> QED
      BY <3>1, <3>2, Zenon
  <2> QED
    BY <2>1, <2>2, HeldFrame
<1>3. ASSUME NEW t \in Thread, Clear(t)
      PROVE  AllHeld'
  <2>1. /\ \A u \in Thread \ {t} : th'[u] = th[u] /\ th[u].pc = "idle"
        /\ \E r : th'[t] = Fresh("idle", r)
    BY <1>t, <1>3 DEF Clear
  <2>2. \A u \in Thread \ {t} : Within(th'[u], {HeadNode, NoNode})
    BY <2>1 DEF AllHeld, Held
  <2>3. Within(th'[t], {HeadNode, NoNode})
    <3>1. PICK r : th'[t] = Fresh("idle", r)
      BY <2>1
    <3>2. Within(Fresh("idle", r), {HeadNode, NoNode})
      BY FreshWithin, Zenon
    <3> QED
      BY <3>1, <3>2, Zenon
  <2> QED
    BY <2>2, <2>3 DEF AllHeld, Held, Within
<1> QED
  BY <1>1, <1>2, <1>3, LocalHeld, SharedHeld DEF Next, Finished, Step

\* Every reachable state is well typed, and no thread is ever left with the address
\* of a node that the list has freed (SkipList.hpp:162).
THEOREM TypeCorrect == Spec => []TypeOK
<1>1. Init => AllHeld
  <2> SUFFICES ASSUME Init PROVE AllHeld
    OBVIOUS
  <2>1. \A t \in Thread : Within(th[t], {HeadNode, NoNode})
    BY FreshWithin DEF Init
  <2> QED
    BY <2>1 DEF AllHeld, Held, Within
<1>2. IInv /\ AllHeld => TypeOK
  <2> SUFFICES ASSUME IInv, AllHeld, NEW t \in Thread
               PROVE  Pointers(th[t]) \subseteq owned \union {HeadNode, NoNode}
    BY DEF IInv, TypeOK
  <2>1. Within(th[t], owned \union {HeadNode, NoNode})
    BY DEF AllHeld, Held
  <2> QED
    BY <2>1 DEF Pointers, Within
<1> QED
  BY <1>1, <1>2, NextHeld, InvariantHolds, PTL DEF Spec

-----------------------------------------------------------------------------
(* What the locks are for.  For finitely many nodes the forward pointers of *)
(* each level chain exactly the nodes that have been linked into it and not *)
(* unlinked from it, in ascending order and each key once.                  *)

(* The inductive invariant, on top of IInv.                                 *)

\* The insertion of n has reached level l, at some time since the last Clear.
Joined(n, l) ==
  /\ n \in owned /\ l <= top[n]
  /\ \A u \in Thread : ~ (th[u].pc = "link" /\ th[u].node = n /\ th[u].level <= l)

\* The deletion of n has reached level l.
Left(n, l) ==
  /\ marked[n]
  /\ \A u \in Thread : ~ (th[u].pc = "unlink" /\ th[u].node = n /\ l <= th[u].level)

\* The nodes that level l is to chain.
On(l) == {n \in owned : Joined(n, l) /\ ~ Left(n, l)}

\* n comes after p on its level.
After(p, n) == p = HeadNode \/ key[p] < key[n]

\* Each node of level l points to the next one, and there are no two of a key.
Chained(l) ==
  /\ \A p \in On(l) \union {HeadNode} : \A n \in On(l) :
       After(p, n) => forward[p][l] # NoNode /\ key[forward[p][l]] <= key[n]
  /\ \A p \in On(l) \union {HeadNode} :
       forward[p][l] # NoNode => forward[p][l] \in On(l)
  /\ \A m, n \in On(l) : key[m] = key[n] => m = n

\* Only what has been on a level is met there, even from removed nodes.
PointersJoined ==
  \A n \in owned \union {HeadNode} : \A l \in Level :
    forward[n][l] # NoNode => Joined(forward[n][l], l)

OnceOn(n, l) == n = HeadNode \/ Joined(n, l)

\* What a search has recorded has been on the level it is recorded for.
Met(me) ==
  me.pc \in {"find", "decide", "lock", "link", "publish", "count", "unlink"} =>
    /\ me.pc = "find" => OnceOn(me.pred, me.level)
    /\ \A l \in Level : /\ OnceOn(me.preds[l], l)
                        /\ me.succs[l] # NoNode => Joined(me.succs[l], l)

\* The nodes to lock are those the call is about to change.
Targets(t) ==
  /\ At(t, "lock", {"Put"}) => th[t].toLock = InsertTargets(t, th[t].top)
  /\ At(t, "lock", {"Delete"}) => th[t].toLock = DeleteTargets(t)

\* From the validation on, the predecessors are locked and not removed.
Guarded(t) ==
  th[t].pc \in {"link", "publish", "count", "unlink"} =>
    \A l \in 0 .. th[t].top : mutex[th[t].preds[l]] = t /\ ~ marked[th[t].preds[l]]

\* The levels an insertion has linked lead to the new node, the others still to
\* the successors that the node has been given.
Inserting(t) ==
  LET me == th[t] IN
  me.pc \in {"link", "publish", "count"} =>
    /\ me.node \in owned /\ ~ marked[me.node] /\ (linked[me.node] <=> me.pc = "count")
    /\ \A l \in 0 .. me.top :
         IF me.pc = "link" /\ me.level <= l
         THEN forward[me.preds[l]][l] = me.succs[l] /\ forward[me.node][l] = me.succs[l]
         ELSE forward[me.preds[l]][l] = me.node

\* The levels a deletion has not reached still lead to the victim.
Deleting(t) ==
  LET me == th[t] IN
  me.pc = "unlink" =>
    /\ mutex[me.node] = t /\ marked[me.node] /\ linked[me.node]
    /\ \A l \in 0 .. me.level : forward[me.preds[l]][l] = me.node

Own(t) == Met(th[t]) /\ Targets(t) /\ Guarded(t) /\ Inserting(t) /\ Deleting(t)

Creating == {"link", "publish", "count"}

LockInv ==
  /\ PointersJoined
  /\ \A t \in Thread : Own(t)
  /\ \A t, u \in Thread :
       th[t].pc \in Creating /\ th[u].pc \in Creating /\ th[t].node = th[u].node => t = u
  /\ \A l \in Level : Chained(l)

-----------------------------------------------------------------------------
(* What a step of one thread leaves to the others.                          *)

\* A step of t that ends no call of another thread and frees no node.
Others(t) ==
  /\ \A u \in Thread \ {t} : th'[u] = th[u]
  /\ owned \subseteq owned'
  /\ \A n \in owned \union {HeadNode} : key'[n] = key[n] /\ top'[n] = top[n]
  /\ \A u \in Thread \ {t} : \A n \in Node : mutex[n] = u => mutex'[n] = u

\* t starts no insertion of an old node, and goes on with its own upwards.
Upwards(t) ==
  th'[t].pc = "link" =>
    \/ th'[t].node \notin owned
    \/ th[t].pc = "link" /\ th'[t].node = th[t].node /\ th[t].level <= th'[t].level

\* No step but Clear takes a node off the levels that its insertion has reached.
LEMMA JoinedStays ==
  ASSUME IInv, IInv', NEW t \in Thread, Others(t), Upwards(t), NEW n, NEW l \in Level, Joined(n, l)
  PROVE  Joined(n, l)'
<1>1. n \in owned' /\ l <= top'[n]
  BY DEF Others, Joined
<1>2. ASSUME NEW u \in Thread, th'[u].pc = "link", th'[u].node = n, th'[u].level <= l
      PROVE  FALSE
  <2>1. CASE u # t
    BY <1>2, <2>1 DEF Others, Joined
  <2>2. CASE u = t
    <3>1. n \in owned /\ th[t].level \in Int /\ th'[t].level \in Int /\ l \in Int
      BY Basics DEF IInv, Typed, ThreadState, Joined
    <3>2. th[t].pc = "link" /\ th[t].node = n /\ th[t].level <= th'[t].level
      BY <1>2, <2>2, <3>1 DEF Upwards
    <3> QED
      BY <1>2, <2>2, <3>1, <3>2 DEF Joined
  <2> QED
    BY <2>1, <2>2
<1> QED
  BY <1>1, <1>2 DEF Joined

LEMMA OnceOnStays ==
  ASSUME IInv, IInv', NEW t \in Thread, Others(t), Upwards(t), NEW n, NEW l \in Level, OnceOn(n, l)
  PROVE  OnceOn(n, l)'
BY JoinedStays DEF OnceOn

\* A thread that has no part in the step keeps what it has, if the nodes it holds
\* and the node it creates stay as they are.
LEMMA OthersKeep ==
  ASSUME IInv, IInv', NEW t \in Thread, Others(t), Upwards(t), NEW u \in Thread \ {t}, Own(u),
         \A n \in owned \union {HeadNode} : mutex[n] = u =>
           marked'[n] = marked[n] /\ forward'[n] = forward[n] /\ (linked[n] => linked'[n]),
         th[u].pc \in Creating =>
           /\ marked'[th[u].node] = marked[th[u].node] /\ linked'[th[u].node] = linked[th[u].node]
           /\ th[u].pc = "link" => \A l \in Level : th[u].level <= l =>
                forward'[th[u].node][l] = forward[th[u].node][l]
  PROVE  Own(u)'
<1>0. th'[u] = th[u] /\ th[u] \in ThreadState /\ Typed
  BY LocalTypes DEF Others, IInv
<1>1. Met(th[u])'
  <2>1. \A l \in Level : th[u].preds[l] \in Node
    BY <1>0 DEF ThreadState
  <2>2. Met(th[u])
    BY DEF Own
  <2>3. th[u].level \in Level
    BY <1>0 DEF ThreadState
  <2> QED
    BY <1>0, <2>2, <2>3, JoinedStays, OnceOnStays DEF Met
<1>2. Targets(u)'
  BY <1>0 DEF Own, Targets, At, InsertTargets, DeleteTargets, PredecessorTargets, Others, IInv,
              SearchBracketsKey, Brackets, LocalsOK, LocalOK
<1>3. th[u].pc \in Creating \union {"unlink"} =>
        \A l \in 0 .. th[u].top : l \in Level /\ th[u].preds[l] \in Node
                                   /\ th[u].preds[l] \in owned \union {HeadNode}
  BY <1>0, LevelsBelow DEF ThreadState, Own, Met, OnceOn, Joined, Creating
<1>4. Guarded(u)'
  BY <1>0, <1>3 DEF Own, Guarded, Others, Creating
<1>5. Inserting(u)'
  <2> SUFFICES ASSUME th[u].pc \in Creating
               PROVE  Inserting(u)'
    BY <1>0 DEF Inserting, Creating
  <2>1. /\ th[u].node \in owned' /\ ~ marked'[th[u].node]
        /\ linked'[th[u].node] <=> th[u].pc = "count"
    BY <1>0 DEF Own, Inserting, Others, Creating
  <2>2. \A l \in 0 .. th[u].top : forward'[th[u].preds[l]] = forward[th[u].preds[l]]
    BY <1>3 DEF Own, Guarded, Creating
  <2> QED
    BY <1>0, <1>3, <2>1, <2>2 DEF Own, Inserting, Creating
<1>6. Deleting(u)'
  <2> SUFFICES ASSUME th[u].pc = "unlink"
               PROVE  Deleting(u)'
    BY <1>0 DEF Deleting
  <2>1. th[u].node \in Node /\ th[u].top \in Level /\ th[u].level <= th[u].top /\ th[u].level \in Level
    BY <1>0, Basics DEF IInv, LocalsOK, LocalOK, ThreadState
  <2>4. th[u].node \in owned
    BY <2>1, Basics DEF IInv, SearchBracketsKey, Brackets, LocalsOK, LocalOK
  <2>2. \A l \in 0 .. th[u].level : l \in 0 .. th[u].top
    BY <2>1, Basics
  <2>3. \A l \in 0 .. th[u].level : forward'[th[u].preds[l]] = forward[th[u].preds[l]]
    BY <1>3, <2>2 DEF Own, Guarded
  <2> QED
    BY <1>0, <2>1, <2>3, <2>4 DEF Own, Deleting, Others
<1> QED
  BY <1>1, <1>2, <1>4, <1>5, <1>6 DEF Own

\* The chain of a level depends on its nodes and on their pointers alone.
LEMMA ChainKept ==
  ASSUME NEW l \in Level, Chained(l), On(l)' = On(l),
         \A n \in On(l) : key'[n] = key[n],
         \A p \in On(l) \union {HeadNode} : forward'[p][l] = forward[p][l]
  PROVE  Chained(l)'
<1>1. \A p \in On(l) \union {HeadNode}, n \in On(l) : After(p, n)' <=> After(p, n)
  BY DEF After
<1>2. ASSUME NEW p \in On(l) \union {HeadNode}, forward[p][l] # NoNode
      PROVE  key'[forward[p][l]] = key[forward[p][l]]
  BY <1>2 DEF Chained
<1> QED
  BY <1>1, <1>2 DEF Chained

\* Owned nodes and the head are nodes.
LEMMA OwnedNode ==
  ASSUME Typed
  PROVE  owned \subseteq Node /\ HeadNode \in Node /\ HeadNode \notin owned /\ NoNode \notin owned
BY Basics, SkipListAssumption DEF Typed

\* A thread that neither links nor unlinks moves no node between the levels.
LEMMA OnStays ==
  ASSUME NEW t \in Thread, \A u \in Thread \ {t} : th'[u] = th[u],
         UNCHANGED <<top, owned>>,
         NEW l \in Level, \A n \in owned : marked[n] = marked'[n],
         th[t].pc \notin {"link", "unlink"}, th'[t].pc \notin {"link", "unlink"}
  PROVE  On(l)' = On(l)
<1>1. ASSUME NEW n \in owned
      PROVE  (Joined(n, l)' <=> Joined(n, l)) /\ (Left(n, l)' <=> Left(n, l))
  BY DEF Joined, Left
<1> QED
  BY <1>1 DEF On

\* A step that leaves the nodes alone, outside linking and unlinking.
LEMMA Quiet ==
  ASSUME IInv, IInv', LockInv, NEW t \in Thread, Others(t),
         UNCHANGED <<key, top, forward, marked, linked, owned>>,
         th[t].pc \notin {"link", "unlink"}, th'[t].pc \notin Creating \union {"unlink"},
         Met(th[t])', Targets(t)'
  PROVE  LockInv'
<1>0. Upwards(t) /\ Typed
  BY DEF Upwards, Creating, IInv
<1>1. PointersJoined'
  BY <1>0, JoinedStays DEF LockInv, PointersJoined
<1>2. ASSUME NEW u \in Thread \ {t}
      PROVE  Own(u)'
  BY <1>0, <1>2, OthersKeep DEF LockInv
<1>3. Own(t)'
  BY DEF Own, Guarded, Inserting, Deleting, Creating
<1>4. ASSUME NEW v \in Thread, NEW u \in Thread,
             th'[v].pc \in Creating, th'[u].pc \in Creating, th'[v].node = th'[u].node
      PROVE  v = u
  BY <1>4 DEF LockInv, Others
<1>5. ASSUME NEW l \in Level
      PROVE  Chained(l)'
  <2>1. On(l)' = On(l)
    BY OnStays DEF Others, Creating
  <2> QED
    BY <2>1, ChainKept DEF LockInv
<1> QED
  BY <1>1, <1>2, <1>3, <1>4, <1>5 DEF LockInv

\* A call that returns or starts over keeps nothing.
LEMMA QuietFresh ==
  ASSUME IInv, IInv', LockInv, NEW t \in Thread, Others(t),
         UNCHANGED <<key, top, forward, marked, linked, owned>>,
         th[t].pc \notin {"link", "unlink"},
         th'[t].pc \in {"idle", "start", "recompute", "lower", "reread", "peek", "read", "walk",
                        "collect", "next", "raise", "uncount"}
  PROVE  LockInv'
<1>1. Met(th[t])' /\ Targets(t)'
  BY DEF Met, Targets, At
<1> QED
  BY <1>1, Quiet DEF Creating

-----------------------------------------------------------------------------
(* Steps that change only the thread's own locals.                          *)

LEMMA LocalOthers ==
  ASSUME Typed, NEW t \in Thread, LocalStep(t)
  PROVE  Others(t) /\ UNCHANGED <<key, top, forward, marked, linked, owned>>
<1>1. UNCHANGED <<heap, mutex, counts, calls>>
  BY DEF LocalStep
<1>2. \A u \in Thread \ {t} : th'[u] = th[u]
  BY LocalStepOthers
<1> QED
  BY <1>1, <1>2 DEF Others, heap, content

\* What is on a level has been on the one below.
LEMMA JoinedBelow ==
  ASSUME IInv, NEW n, NEW l \in Level, NEW m \in Level, m <= l, Joined(n, l)
  PROVE  Joined(n, m)
<1>1. n \in Node /\ top[n] \in Int /\ l \in Int /\ m \in Int
  BY OwnedNode, Basics DEF IInv, Typed, Joined
<1>2. \A u \in Thread : th[u].level \in Int
  BY Basics DEF IInv, Typed, ThreadState
<1> QED
  BY <1>1, <1>2 DEF Joined

\* What a pointer of a recorded node leads to has been on the level.
LEMMA CurrentJoined ==
  ASSUME IInv, LockInv, NEW t \in Thread, th[t].pc = "find", Current(t) # NoNode
  PROVE  Joined(Current(t), th[t].level)
<1>1. th[t].pred \in owned \union {HeadNode} /\ th[t].level \in Level
  BY LocalTypes DEF IInv, SearchBracketsKey, Brackets, Precedes
<1> QED
  BY <1>1 DEF LockInv, PointersJoined, Current

\* What FindNode records of a level has been on it.
LEMMA RecordMet ==
  ASSUME IInv, LockInv, NEW t \in Thread, th[t].pc = "find"
  PROVE  \A l \in Level : /\ OnceOn(Record(t).preds[l], l)
                          /\ Record(t).succs[l] # NoNode => Joined(Record(t).succs[l], l)
<1>0. th[t] \in ThreadState /\ th[t].level \in Level /\ Met(th[t])
  BY LocalTypes DEF IInv, LockInv, Own
<1>1. CASE th[t].request.name \notin {"Put", "Delete"}
  BY <1>0, <1>1 DEF Record, Met
<1>2. CASE th[t].request.name \in {"Put", "Delete"}
  <2>1. /\ Record(t).preds = [th[t].preds EXCEPT ![th[t].level] = th[t].pred]
        /\ Record(t).succs = [th[t].succs EXCEPT ![th[t].level] = Current(t)]
    BY <1>0, <1>2 DEF Record, ThreadState
  <2>2. th[t].preds \in [Level -> Node] /\ th[t].succs \in [Level -> NodeOrNull]
    BY <1>0 DEF ThreadState
  <2>3. OnceOn(th[t].pred, th[t].level)
    BY <1>0 DEF Met
  <2>4. \A l \in Level : /\ OnceOn(th[t].preds[l], l)
                         /\ th[t].succs[l] # NoNode => Joined(th[t].succs[l], l)
    BY <1>0 DEF Met
  <2>5. Current(t) # NoNode => Joined(Current(t), th[t].level)
    BY CurrentJoined
  <2> QED
    BY <1>0, <2>1, <2>2, <2>3, <2>4, <2>5
<1> QED
  BY <1>1, <1>2

\* The search: what it stands on and what it has recorded have been there.
LEMMA SearchLock ==
  ASSUME IInv, IInv', LockInv, NEW t \in Thread, LocalStep(t), Start(t) \/ Advance(t) \/ Descend(t)
  PROVE  LockInv'
<1>t. Typed /\ th \in [Thread -> ThreadState] /\ th' \in [Thread -> ThreadState]
  BY DEF IInv, Typed
<1>0. /\ Others(t) /\ UNCHANGED <<key, top, forward, marked, linked, owned>>
      /\ th[t] \in ThreadState /\ th[t].level \in Level /\ th'[t] \in ThreadState
  BY <1>t, LocalOthers, LocalTypes
<1>1. th'[t].pc = "find" /\ th[t].pc \in {"start", "find"}
  <2>1. CASE Start(t) \/ Advance(t)
    BY <1>t, <1>0, <2>1 DEF Start, Advance, ThreadState
  <2>2. CASE Descend(t)
    <3>1. Record(t) \in ThreadState /\ Record(t).pc = "find"
      BY <2>2, RecordKeeps DEF Descend
    <3> QED
      BY <1>t, <1>0, <2>2, <3>1 DEF Descend, ThreadState
  <2> QED
    BY <2>1, <2>2
<1>2. Upwards(t)
  BY <1>1 DEF Upwards
<1>3. Met(th[t])
  BY DEF LockInv, Own
<1>4. CASE Start(t)
  <2>1. /\ th'[t].pred = HeadNode
        /\ \A l \in Level : th'[t].preds[l] = HeadNode /\ th'[t].succs[l] = NoNode
    <3>1. LocalOK(th[t]) /\ th[t].pc = "start"
      BY <1>4 DEF Start, IInv, LocalsOK
    <3>2. th'[t] = [th[t] EXCEPT !.pc = "find", !.level = currentLevel - 1]
      BY <1>t, <1>4 DEF Start
    <3> QED
      BY <1>0, <3>1, <3>2 DEF LocalOK, ThreadState
  <2>2. Met(th[t])'
    BY <2>1 DEF Met, OnceOn
  <2> QED
    BY <1>0, <1>1, <2>2, Quiet DEF Targets, At, Creating
<1>5. CASE Advance(t)
  <2>1. /\ th'[t].pred = Current(t) /\ th'[t].level = th[t].level
        /\ th'[t].preds = th[t].preds /\ th'[t].succs = th[t].succs
        /\ th[t].pc = "find" /\ Current(t) # NoNode
    BY <1>t, <1>0, <1>5 DEF Advance, Before, ThreadState
  <2>2. OnceOn(Current(t), th[t].level)
    BY <2>1, CurrentJoined DEF OnceOn
  <2>3. Met(th[t])'
    BY <1>0, <1>1, <1>2, <1>3, <2>1, <2>2, JoinedStays, OnceOnStays DEF Met
  <2> QED
    BY <1>0, <1>1, <2>3, Quiet DEF Targets, At, Creating
<1>6. CASE Descend(t)
  <2>1. th[t].pc = "find" /\ th[t].level > 0 /\ ~ Before(Current(t), th[t].request.key)
    BY <1>6 DEF Descend
  <2>2. /\ Record(t) \in ThreadState /\ Record(t).level = th[t].level /\ Record(t).pred = th[t].pred
    BY <2>1, RecordKeeps
  <2>3. /\ th'[t].pred = th[t].pred /\ th'[t].level = th[t].level - 1
        /\ th'[t].preds = Record(t).preds /\ th'[t].succs = Record(t).succs
    BY <1>t, <1>0, <1>6, <2>2 DEF Descend, ThreadState
  <2>4. OnceOn(th[t].pred, th[t].level - 1) /\ th[t].level - 1 \in Level
    <3>1. th[t].level - 1 \in Level /\ th[t].level - 1 <= th[t].level
      BY <1>0, <2>1, SkipListAssumption DEF Level
    <3> QED
      BY <1>0, <1>3, <2>1, <3>1, JoinedBelow DEF Met, OnceOn
  <2>5. \A l \in Level : /\ OnceOn(Record(t).preds[l], l)
                         /\ Record(t).succs[l] # NoNode => Joined(Record(t).succs[l], l)
    BY <2>1, RecordMet
  <2>6. Met(th[t])'
    BY <1>0, <1>1, <1>2, <2>3, <2>4, <2>5, JoinedStays, OnceOnStays DEF Met
  <2> QED
    BY <1>0, <1>1, <2>6, Quiet DEF Targets, At, Creating
<1> QED
  BY <1>4, <1>5, <1>6

LEMMA FinishFindLock ==
  ASSUME IInv, IInv', LockInv, NEW t \in Thread, LocalStep(t), FinishFind(t)
  PROVE  LockInv'
<1>t. Typed /\ th \in [Thread -> ThreadState] /\ th' \in [Thread -> ThreadState]
  BY DEF IInv, Typed
<1>0. /\ Others(t) /\ UNCHANGED <<key, top, forward, marked, linked, owned>>
      /\ th[t] \in ThreadState /\ th[t].pc = "find"
  BY <1>t, LocalOthers, LocalTypes DEF FinishFind
<1>1. th[t].request.name \in Keyed /\ ~ Before(Current(t), th[t].request.key)
  BY <1>0 DEF IInv, LocalsOK, LocalOK, FinishFind
<1>2. Record(t) \in ThreadState
  BY <1>0, <1>1, RecordKeeps
<1>3. /\ th'[t].pc \in {"decide", "reread", "next"}
      /\ th'[t].preds = Record(t).preds /\ th'[t].succs = Record(t).succs
  <2>1. Continuation[th[t].request.name] \in {"decide", "reread", "next"}
    BY <1>1 DEF Continuation, Keyed
  <2> QED
    BY <1>t, <1>2, <2>1 DEF FinishFind, ThreadState
<1>4. Upwards(t)
  BY <1>3 DEF Upwards
<1>5. \A l \in Level : /\ OnceOn(Record(t).preds[l], l)
                       /\ Record(t).succs[l] # NoNode => Joined(Record(t).succs[l], l)
  BY <1>0, RecordMet
<1>6. Met(th[t])'
  BY <1>0, <1>3, <1>4, <1>5, JoinedStays, OnceOnStays DEF Met
<1>7. Targets(t)'
  BY <1>3 DEF Targets, At
<1> QED
  BY <1>0, <1>3, <1>6, <1>7, Quiet DEF Creating

\* The nodes to lock are chosen among those recorded.
LEMMA PrepareLock ==
  ASSUME IInv, IInv', LockInv, NEW t \in Thread, LocalStep(t), PrepareInsert(t) \/ PrepareDelete(t)
  PROVE  LockInv'
<1>t. Typed /\ th \in [Thread -> ThreadState] /\ th' \in [Thread -> ThreadState]
  BY DEF IInv, Typed
<1>0. /\ Others(t) /\ UNCHANGED <<key, top, forward, marked, linked, owned>>
      /\ th[t] \in ThreadState /\ th[t].pc = "decide"
  BY <1>t, LocalOthers, LocalTypes DEF PrepareInsert, PrepareDelete, At
<1>1. /\ th'[t].pc = "lock" /\ th'[t].preds = th[t].preds /\ th'[t].succs = th[t].succs
      /\ th'[t].request = th[t].request /\ th'[t].node = th[t].node
  <2>1. CASE PrepareInsert(t)
    <3>1. PICK h \in Level : th' = [th EXCEPT ![t].pc = "lock", ![t].top = h,
                                            ![t].toLock = InsertTargets(t, h)]
      BY <2>1 DEF PrepareInsert
    <3>2. th'[t] = [th[t] EXCEPT !.pc = "lock", !.top = h, !.toLock = InsertTargets(t, h)]
      BY <1>t, <3>1
    <3> QED
      BY <1>0, <3>2 DEF ThreadState
  <2>2. CASE PrepareDelete(t)
    BY <1>t, <1>0, <2>2 DEF PrepareDelete, ThreadState
  <2> QED
    BY <2>1, <2>2
<1>2. Upwards(t)
  BY <1>1 DEF Upwards
<1>3. Met(th[t])'
  BY <1>0, <1>1, <1>2, JoinedStays, OnceOnStays DEF Met, LockInv, Own
<1>4. CASE PrepareInsert(t)
  <2>1. PICK h \in Level : th' = [th EXCEPT ![t].pc = "lock", ![t].top = h, ![t].toLock = InsertTargets(t, h)]
    BY <1>4 DEF PrepareInsert
  <2>2. th'[t].top = h /\ th'[t].toLock = InsertTargets(t, h) /\ th[t].request.name = "Put"
    BY <1>t, <1>0, <1>4, <2>1 DEF PrepareInsert, At, ThreadState
  <2>3. Targets(t)'
    BY <1>1, <2>2 DEF Targets, At, InsertTargets
  <2> QED
    BY <1>0, <1>1, <1>3, <2>3, Quiet DEF Creating
<1>5. CASE PrepareDelete(t)
  <2>1. th'[t].toLock = DeleteTargets(t) /\ th[t].request.name = "Delete"
    BY <1>t, <1>0, <1>5 DEF PrepareDelete, At, ThreadState
  <2>2. Targets(t)'
    BY <1>0, <1>1, <2>1 DEF Targets, At, DeleteTargets, PredecessorTargets
  <2> QED
    BY <1>0, <1>1, <1>3, <2>2, Quiet DEF Creating
<1> QED
  BY <1>4, <1>5

\* Where the other local steps lead to.
LEMMA LocalLock ==
  ASSUME IInv, IInv', LockInv, NEW t \in Thread, LocalStep(t)
  PROVE  LockInv'
<1>t. Typed /\ th \in [Thread -> ThreadState] /\ th[t] \in ThreadState
  BY DEF IInv, Typed
<1>0. Others(t) /\ UNCHANGED <<key, top, forward, marked, linked, owned>>
  BY <1>t, LocalOthers
<1>1. CASE ScanNothing(t) \/ DeleteMiss(t) \/ Read(t) \/ ReturnWalk(t)
  <2>1. th'[t].pc = "idle" /\ th[t].pc \notin {"link", "unlink"}
    BY <1>t, <1>1, ZenonT(40) DEF ScanNothing, DeleteMiss, Read, ReturnWalk, Return, Fresh, At
  <2> QED
    BY <1>0, <2>1, QuietFresh
<1>2. CASE Recompute(t)
  <2>1. th'[t].pc \in {"recompute", "lower"} /\ th[t].pc = "recompute"
    BY <1>t, <1>2 DEF Recompute, Goto, ThreadState
  <2> QED
    BY <1>0, <2>1, QuietFresh
<1>3. CASE Reread(t) \/ Peek(t)
  <2>1. th'[t].pc \in {"peek", "read", "idle"} /\ th[t].pc \in {"reread", "peek"}
    <3>1. CASE Return(t, FALSE, <<>>)
      BY <1>t, <1>3, <3>1 DEF Reread, Peek, Return, Fresh
    <3>2. CASE ~ Return(t, FALSE, <<>>)
      <4>1. /\ th[t].pc \in {"reread", "peek"}
            /\ \/ th'[t] = [th[t] EXCEPT !.pc = "peek", !.node = forward[th[t].pred][0]]
               \/ th'[t] = [th[t] EXCEPT !.pc = "read"]
        BY <1>t, <1>3, <3>2 DEF Reread, Peek, Goto
      <4> QED
        BY <1>t, <4>1 DEF ThreadState
    <3> QED
      BY <3>1, <3>2
  <2> QED
    BY <1>0, <2>1, QuietFresh
<1>4. CASE StepNext(t) \/ Walk(t) \/ Collect(t)
  <2>1. th'[t].pc \in {"walk", "collect", "next"} /\ th[t].pc \in {"walk", "collect", "next"}
    BY <1>t, <1>4 DEF StepNext, Walk, Collect, Goto, ThreadState
  <2> QED
    BY <1>0, <2>1, QuietFresh
<1> QED
  BY <1>1, <1>2, <1>3, <1>4, SearchLock, FinishFindLock, PrepareLock DEF LocalStep

-----------------------------------------------------------------------------
(* Steps on locks and counters.                                             *)

\* Taking a free mutex, or giving up one's own, disturbs no other thread.
LEMMA MutexOthers ==
  ASSUME Typed, NEW t \in Thread,
         \/ UNCHANGED mutex
         \/ Release(t)
         \/ \E n \in Node : mutex[n] = NoThread /\ mutex' = [mutex EXCEPT ![n] = t]
  PROVE  \A u \in Thread \ {t} : \A n \in Node : mutex[n] = u => mutex'[n] = u
<1>1. NoThread \notin Thread /\ mutex \in [Node -> Thread \union {NoThread}]
  BY SkipListAssumption DEF Typed
<1> QED
  BY <1>1 DEF Release

LEMMA LockNextLock ==
  ASSUME IInv, IInv', LockInv, NEW t \in Thread, LockNext(t)
  PROVE  LockInv'
<1>t. Typed /\ th[t] \in ThreadState
  BY LocalTypes DEF IInv
<1>1. \E n \in Node : mutex[n] = NoThread /\ mutex' = [mutex EXCEPT ![n] = t]
  BY <1>t DEF LockNext, NextToLock, Unlocked, ThreadState
<1>2. Others(t) /\ UNCHANGED <<key, top, forward, marked, linked, owned, th>> /\ th[t].pc = "lock"
  BY <1>t, <1>1, MutexOthers DEF LockNext, Others, heap, content
<1>3. Upwards(t)
  BY <1>2 DEF Upwards
<1>4. Met(th[t])'
  BY <1>2, <1>3, JoinedStays, OnceOnStays DEF Met, LockInv, Own
<1>5. Targets(t)'
  BY <1>2 DEF LockInv, Own, Targets, At, InsertTargets, DeleteTargets, PredecessorTargets
<1> QED
  BY <1>2, <1>4, <1>5, Quiet DEF Creating

LEMMA RestLock ==
  ASSUME IInv, IInv', LockInv, NEW t \in Thread,
         \/ UpdateExisting(t) \/ InsertRetry(t) \/ DeleteRetry(t) \/ Count(t) \/ Raise(t)
         \/ Uncount(t) \/ Lower(t) \/ Call(t)
  PROVE  LockInv'
<1>t. Typed /\ th \in [Thread -> ThreadState] /\ th[t] \in ThreadState
  BY DEF IInv, Typed
<1>1. UNCHANGED mutex \/ Release(t)
  BY DEF UpdateExisting, InsertRetry, DeleteRetry, Count, Raise, Uncount, Lower, Call
<1>2. \A u \in Thread \ {t} : th'[u] = th[u]
  BY <1>t DEF UpdateExisting, InsertRetry, DeleteRetry, Count, Raise, Uncount, Lower, Call,
              Return, Retry, Goto
<1>3. UNCHANGED <<key, top, forward, marked, linked, owned>>
  BY DEF UpdateExisting, InsertRetry, DeleteRetry, Count, Raise, Uncount, Lower, Call, heap, content
<1>4. Others(t)
  BY <1>t, <1>1, <1>2, <1>3, MutexOthers DEF Others
<1>5. CASE UpdateExisting(t) \/ InsertRetry(t) \/ DeleteRetry(t) \/ Raise(t) \/ Lower(t)
  <2>1. th'[t].pc \in {"idle", "start"}
    <3>1. Retry(t) \/ Return(t, TRUE, <<>>) \/ Return(t, FALSE, <<>>)
      BY <1>5 DEF UpdateExisting, InsertRetry, DeleteRetry, Raise, Lower
    <3>2. CASE Retry(t)
      BY <1>t, <3>2 DEF Retry, Fresh
    <3>3. CASE Return(t, TRUE, <<>>) \/ Return(t, FALSE, <<>>)
      BY <1>t, <3>3 DEF Return, Fresh
    <3> QED
      BY <3>1, <3>2, <3>3
  <2>2. th[t].pc \in {"decide", "lock", "raise", "lower"}
    BY <1>5 DEF UpdateExisting, InsertRetry, DeleteRetry, Raise, Lower, Locked, At
  <2> QED
    BY <1>3, <1>4, <2>1, <2>2, QuietFresh
<1>6. CASE Count(t) \/ Uncount(t)
  <2>1. th'[t].pc \in {"raise", "recompute"} /\ th[t].pc \in {"count", "uncount"}
    BY <1>t, <1>6 DEF Count, Uncount, Goto, ThreadState
  <2> QED
    BY <1>3, <1>4, <2>1, QuietFresh
<1>7. CASE Call(t)
  <2>1. PICK r \in Work[t][calls[t] + 1] : th' = [th EXCEPT ![t] =
            IF r.name = "Snapshot" THEN [Fresh("next", r) EXCEPT !.node = HeadNode]
                                   ELSE Fresh("start", r)]
    BY <1>7 DEF Call
  <2>2. th'[t].pc \in {"next", "start"} /\ th[t].pc = "idle"
    BY <1>t, <1>7, <2>1 DEF Call, Fresh
  <2> QED
    BY <1>3, <1>4, <2>2, QuietFresh
<1> QED
  BY <1>5, <1>6, <1>7

-----------------------------------------------------------------------------
(* Publishing and marking a node.                                           *)

\* A validated predecessor is on the level.
LEMMA GuardedOn ==
  ASSUME NEW n, NEW l \in Level, OnceOn(n, l), ~ marked[n]
  PROVE  n \in On(l) \union {HeadNode}
BY DEF OnceOn, On, Joined, Left

\* A node has one predecessor on each level.
LEMMA PredecessorUnique ==
  ASSUME IInv, NEW l \in Level, Chained(l),
         NEW p \in On(l) \union {HeadNode}, NEW q \in On(l) \union {HeadNode},
         forward[p][l] # NoNode, forward[p][l] = forward[q][l]
  PROVE  p = q
<1>1. /\ \A n \in owned : key[n] \in Int
      /\ On(l) \subseteq owned
      /\ forward[p][l] \in owned
  BY SkipListAssumption DEF IInv, Typed, On, Sorted
<1>2. \A n \in On(l) : n # HeadNode
  BY OwnedNode DEF IInv, On
<1>3. p # HeadNode => key[p] < key[forward[p][l]]
  BY <1>1 DEF IInv, Sorted
<1>4. q # HeadNode => key[q] < key[forward[p][l]]
  BY <1>1 DEF IInv, Sorted
<1>5. p # HeadNode => ~ After(q, p)
  BY <1>1, <1>3 DEF Chained
<1>6. q # HeadNode => ~ After(p, q)
  BY <1>1, <1>4 DEF Chained
<1> QED
  BY <1>1, <1>5, <1>6 DEF After, Chained

LEMMA PublishLock ==
  ASSUME IInv, IInv', LockInv, NEW t \in Thread, Publish(t)
  PROVE  LockInv' /\ \A l \in Level : On(l)' = On(l)
<1>t. Typed /\ th \in [Thread -> ThreadState] /\ th[t] \in ThreadState
  BY DEF IInv, Typed
<1>1. /\ UNCHANGED <<key, top, forward, marked, owned, mutex>>
      /\ linked' = [linked EXCEPT ![th[t].node] = TRUE]
      /\ \A u \in Thread \ {t} : th'[u] = th[u]
      /\ th[t].pc = "publish" /\ th'[t] = [th[t] EXCEPT !.pc = "count"]
  BY <1>t DEF Publish, Goto, content
<1>2. /\ th'[t].pc = "count" /\ th'[t].node = th[t].node /\ th'[t].top = th[t].top
      /\ th'[t].preds = th[t].preds /\ th'[t].succs = th[t].succs
  BY <1>t, <1>1 DEF ThreadState
<1>3. Others(t) /\ Upwards(t)
  BY <1>1, <1>2 DEF Others, Upwards
<1>4. th[t].node \in owned /\ owned \subseteq Node /\ linked \in [Node -> BOOLEAN]
  BY <1>t, <1>1, OwnedNode DEF LockInv, Own, Inserting, Typed
<1>5. PointersJoined'
  BY <1>1, <1>3, JoinedStays DEF LockInv, PointersJoined
<1>6. ASSUME NEW u \in Thread \ {t}
      PROVE  Own(u)'
  <2>1. th[u].pc \in Creating => th[u].node # th[t].node
    BY <1>1 DEF LockInv, Creating
  <2>2. th[u].pc \in Creating => th[u].node \in Node
    BY <1>4 DEF LockInv, Own, Inserting, Creating
  <2>3. \A n \in Node : linked[n] => linked'[n]
    BY <1>1, <1>4
  <2>4. th[u].pc \in Creating => linked'[th[u].node] = linked[th[u].node]
    BY <1>1, <1>4, <2>1, <2>2
  <2>5. Own(u) /\ \A n \in owned \union {HeadNode} : n \in Node
    BY <1>t, OwnedNode DEF LockInv
  <2> QED
    BY <1>1, <1>3, <2>3, <2>4, <2>5, OthersKeep
<1>7. Own(t)'
  <2>1. Met(th[t])'
    BY <1>1, <1>2, <1>3, JoinedStays, OnceOnStays DEF LockInv, Own, Met
  <2>2. Targets(t)' /\ Deleting(t)'
    BY <1>2 DEF Targets, At, Deleting
  <2>3. Guarded(t)'
    BY <1>1, <1>2 DEF LockInv, Own, Guarded
  <2>4. Inserting(t)'
    BY <1>1, <1>2, <1>4 DEF LockInv, Own, Inserting
  <2> QED
    BY <2>1, <2>2, <2>3, <2>4 DEF Own
<1>8. ASSUME NEW v \in Thread, NEW u \in Thread,
             th'[v].pc \in Creating, th'[u].pc \in Creating, th'[v].node = th'[u].node
      PROVE  v = u
  <2>1. /\ th[v].pc \in Creating /\ th'[v].node = th[v].node
        /\ th[u].pc \in Creating /\ th'[u].node = th[u].node
    BY <1>1, <1>2, <1>8 DEF Creating
  <2> QED
    BY <1>8, <2>1 DEF LockInv
<1>9. ASSUME NEW l \in Level
      PROVE  Chained(l)' /\ On(l)' = On(l)
  <2>1. On(l)' = On(l)
    BY <1>1, <1>2, OnStays
  <2> QED
    BY <1>1, <2>1, ChainKept DEF LockInv
<1> QED
  BY <1>5, <1>6, <1>7, <1>8, <1>9 DEF LockInv

\* Locking the victim and its predecessors leaves no insertion of the victim
\* that is not counted yet.
LEMMA VictimSettled ==
  ASSUME IInv, LockInv, NEW t \in Thread, Mark(t), NEW u \in Thread, th[u].pc \in Creating
  PROVE  th[u].node # th[t].node
<1>1. /\ th[t].pc = "lock" /\ th[t].request.name = "Delete" /\ linked[th[t].node]
      /\ Unlocked(t) = {} /\ CanDelete(t)
  BY DEF Mark, Locked, At, Deletable
<1>2. SUFFICES ASSUME th[u].node = th[t].node PROVE FALSE
  OBVIOUS
<1>3. th[u].pc = "count"
  BY <1>1, <1>2 DEF LockInv, Own, Inserting, Creating
<1>4. /\ 0 \in Level /\ 0 \in 0 .. th[t].top /\ 0 \in 0 .. th[u].top
      /\ th[t].node # NoNode /\ th[t].top = top[th[t].node]
  <2>1. th[t].top \in Level /\ th[u].top \in Level /\ 0 \in Level
    BY Basics, LocalTypes DEF IInv
  <2>2. LocalOK(th[t])
    BY DEF IInv, LocalsOK
  <2>3. \A h \in Level : 0 \in 0 .. h
    BY SkipListAssumption DEF Level
  <2> QED
    BY <1>1, <2>1, <2>2, <2>3 DEF LocalOK
<1> DEFINE p == th[t].preds[0]
           q == th[u].preds[0]
<1>5. p \in th[t].toLock
  BY <1>1, <1>4 DEF LockInv, Own, Targets, At, DeleteTargets, PredecessorTargets
<1>6. mutex[p] = t /\ ~ marked[p] /\ forward[p][0] = th[t].node
  BY <1>1, <1>4, <1>5 DEF Unlocked, CanDelete, StillLinked
<1>7. mutex[q] = u /\ ~ marked[q] /\ forward[q][0] = th[u].node
  BY <1>3, <1>4 DEF LockInv, Own, Guarded, Inserting
<1>8. OnceOn(p, 0) /\ OnceOn(q, 0)
  BY <1>1, <1>3, <1>4 DEF LockInv, Own, Met
<1>9. p = q
  BY <1>2, <1>4, <1>6, <1>7, <1>8, GuardedOn, PredecessorUnique DEF LockInv
<1> QED
  BY <1>1, <1>3, <1>6, <1>7, <1>9

LEMMA MarkLock ==
  ASSUME IInv, IInv', LockInv, NEW t \in Thread, Mark(t)
  PROVE  LockInv' /\ \A l \in Level : On(l)' = On(l)
<1> DEFINE n == th[t].node
<1>t. Typed /\ th \in [Thread -> ThreadState] /\ th[t] \in ThreadState
  BY DEF IInv, Typed
<1>1. /\ UNCHANGED <<key, top, forward, linked, owned, mutex>>
      /\ marked' = [marked EXCEPT ![n] = TRUE]
      /\ \A u \in Thread \ {t} : th'[u] = th[u]
      /\ th[t].pc = "lock" /\ th[t].request.name = "Delete"
      /\ th'[t] = [th[t] EXCEPT !.pc = "unlink", !.level = th[t].top]
  BY <1>t DEF Mark, At, content
<1>2. /\ th'[t].pc = "unlink" /\ th'[t].node = n /\ th'[t].top = th[t].top
      /\ th'[t].preds = th[t].preds /\ th'[t].succs = th[t].succs /\ th'[t].level = th[t].top
  BY <1>t, <1>1 DEF ThreadState
<1>3. Others(t) /\ Upwards(t)
  BY <1>1, <1>2 DEF Others, Upwards
<1>4. n \in owned /\ n \in Node /\ marked \in [Node -> BOOLEAN] /\ th[t].top = top[n]
  BY <1>t, <1>1, OwnedNode DEF IInv, SearchBracketsKey, Brackets, LocalsOK, LocalOK, Typed
<1>5. /\ linked[n] /\ Unlocked(t) = {} /\ CanDelete(t) /\ th[t].toLock = DeleteTargets(t)
  BY <1>1 DEF Mark, Locked, Deletable, LockInv, Own, Targets, At
<1>6. mutex[n] = t
  BY <1>5 DEF Unlocked, DeleteTargets
<1>7. \A l \in 0 .. th[t].top :
        /\ mutex[th[t].preds[l]] = t /\ ~ marked[th[t].preds[l]] /\ forward[th[t].preds[l]][l] = n
        /\ l \in Level /\ OnceOn(th[t].preds[l], l) /\ th[t].preds[l] \in Node
  <2>1. \A l \in 0 .. th[t].top : th[t].preds[l] \in th[t].toLock /\ l \in Level
    BY <1>t, <1>4, <1>5, LevelsBelow DEF DeleteTargets, PredecessorTargets, ThreadState
  <2>2. \A l \in 0 .. th[t].top : ~ marked[th[t].preds[l]] /\ forward[th[t].preds[l]][l] = n
    BY <1>5 DEF CanDelete, StillLinked
  <2>3. \A l \in Level : OnceOn(th[t].preds[l], l)
    BY <1>1 DEF LockInv, Own, Met
  <2> QED
    BY <1>t, <1>5, <2>1, <2>2, <2>3 DEF Unlocked, ThreadState
<1>8. PointersJoined'
  BY <1>1, <1>3, JoinedStays DEF LockInv, PointersJoined
<1>9. ASSUME NEW u \in Thread \ {t}
      PROVE  Own(u)'
  <2>1. th[u].pc \in Creating => th[u].node # n /\ th[u].node \in Node
    BY <1>t, VictimSettled, OwnedNode DEF LockInv, Own, Inserting, Creating
  <2>2. th[u].pc \in Creating => marked'[th[u].node] = marked[th[u].node]
    BY <1>1, <1>4, <2>1
  <2>3. \A m \in owned \union {HeadNode} : mutex[m] = u => marked'[m] = marked[m]
    BY <1>t, <1>1, <1>4, <1>6, OwnedNode
  <2> QED
    BY <1>1, <1>3, <2>2, <2>3, OthersKeep DEF LockInv
<1>10. Own(t)'
  <2>1. Met(th[t])'
    BY <1>1, <1>2, <1>3, JoinedStays, OnceOnStays DEF LockInv, Own, Met
  <2>2. Targets(t)' /\ Inserting(t)'
    BY <1>2 DEF Targets, At, Inserting
  <2>3. \A l \in 0 .. th[t].top : th[t].preds[l] # n
    <3> SUFFICES ASSUME NEW l \in 0 .. th[t].top, th[t].preds[l] = n PROVE FALSE
      OBVIOUS
    <3>1. forward[n][l] = n /\ l \in Level /\ n # NoNode /\ n # HeadNode
      BY <1>t, <1>4, <1>7, OwnedNode
    <3>2. key[n] < key[n] /\ key[n] \in Int
      BY <1>4, <3>1, SkipListAssumption DEF IInv, Sorted, Typed
    <3> QED
      BY <3>2
  <2>4. Guarded(t)'
    BY <1>1, <1>2, <1>4, <1>7, <2>3 DEF Guarded
  <2>5. Deleting(t)'
    BY <1>1, <1>2, <1>4, <1>5, <1>6, <1>7 DEF Deleting
  <2> QED
    BY <2>1, <2>2, <2>4, <2>5 DEF Own
<1>11. ASSUME NEW v \in Thread, NEW u \in Thread,
              th'[v].pc \in Creating, th'[u].pc \in Creating, th'[v].node = th'[u].node
       PROVE  v = u
  <2>1. v # t /\ u # t
    BY <1>2, <1>11 DEF Creating
  <2> QED
    BY <1>1, <1>11, <2>1 DEF LockInv
<1>12. ASSUME NEW l \in Level
       PROVE  Chained(l)' /\ On(l)' = On(l)
  <2>1. ASSUME NEW m \in owned
        PROVE  (Joined(m, l)' <=> Joined(m, l)) /\ (Joined(m, l) => (Left(m, l)' <=> Left(m, l)))
    <3>1. Joined(m, l)' <=> Joined(m, l)
      BY <1>1, <1>2, ZenonT(40) DEF Joined
    <3>2. CASE m = n
      <4>1. Joined(m, l) => ~ Left(m, l)'
        BY <1>2, <1>4, <3>2 DEF Joined, Left
      <4>2. ~ Left(m, l)
        BY <3>2 DEF Left, Mark, Deletable
      <4> QED
        BY <3>1, <4>1, <4>2
    <3>3. CASE m # n
      <4>1. m \in Node /\ marked'[m] = marked[m]
        BY <1>t, <1>1, <1>4, <3>3, OwnedNode
      <4>2. Left(m, l)' <=> Left(m, l)
        BY <1>1, <1>2, <3>3, <4>1, ZenonT(40) DEF Left
      <4> QED
        BY <3>1, <4>2
    <3> QED
      BY <3>2, <3>3
  <2>2. On(l)' = On(l)
    BY <1>1, <2>1 DEF On
  <2> QED
    BY <1>1, <2>2, ChainKept DEF LockInv
<1> QED
  BY <1>8, <1>9, <1>10, <1>11, <1>12 DEF LockInv
-----------------------------------------------------------------------------
(* Inserting a node, level by level.                                        *)

\* A new node, of which nobody knows yet, is on no level; the locked
\* predecessors still point to the successors it is given.
LEMMA InsertLock ==
  ASSUME IInv, IInv', LockInv, NEW t \in Thread, Insert(t)
  PROVE  LockInv' /\ \A l \in Level : On(l)' = On(l)
<1> DEFINE me == th[t]
<1>t. Typed /\ th \in [Thread -> ThreadState] /\ th[t] \in ThreadState
  BY DEF IInv, Typed
<1>1. PICK n \in Node \ (owned \union {HeadNode}) :
        /\ key'     = [key EXCEPT ![n] = me.request.key]
        /\ top'     = [top EXCEPT ![n] = me.top]
        /\ forward' = [forward EXCEPT ![n] =
                         [l \in Level |-> IF l <= me.top THEN me.succs[l] ELSE NoNode]]
        /\ marked'  = [marked EXCEPT ![n] = FALSE]
        /\ linked'  = [linked EXCEPT ![n] = FALSE]
        /\ owned'   = owned \union {n}
        /\ th'      = [th EXCEPT ![t].pc = "link", ![t].node = n, ![t].level = 0]
  BY DEF Insert
<1>2. /\ mutex' = mutex /\ me.pc = "lock" /\ me.request.name = "Put"
      /\ Unlocked(t) = {} /\ CanInsert(t)
  BY DEF Insert, Locked, At
<1>3. th'[t] = [th[t] EXCEPT !.pc = "link", !.node = n, !.level = 0]
  BY <1>t, <1>1
<1>4. /\ th'[t].pc = "link" /\ th'[t].node = n /\ th'[t].level = 0 /\ th'[t].top = me.top
      /\ th'[t].preds = me.preds /\ th'[t].succs = me.succs
      /\ \A u \in Thread \ {t} : th'[u] = th[u]
  BY <1>t, <1>1, <1>3 DEF ThreadState
<1>5. /\ \A m \in owned \union {HeadNode} :
           /\ key'[m] = key[m] /\ top'[m] = top[m] /\ forward'[m] = forward[m]
           /\ marked'[m] = marked[m] /\ linked'[m] = linked[m]
      /\ marked'[n] = FALSE /\ linked'[n] = FALSE
      /\ \A l \in Level : forward'[n][l] = IF l <= me.top THEN me.succs[l] ELSE NoNode
  BY <1>t, <1>1, OwnedNode, ZenonT(40) DEF Typed
<1>6. Others(t) /\ Upwards(t)
  BY <1>1, <1>2, <1>4, <1>5 DEF Others, Upwards
<1>7. \A l \in Level : /\ OnceOn(me.preds[l], l)
                       /\ me.succs[l] # NoNode => Joined(me.succs[l], l)
  BY <1>2 DEF LockInv, Own, Met
<1>8. \A l \in 0 .. me.top :
        /\ l \in Level /\ me.preds[l] \in owned \union {HeadNode} /\ mutex[me.preds[l]] = t
        /\ ~ marked[me.preds[l]] /\ forward[me.preds[l]][l] = me.succs[l]
  <2>1. \A l \in 0 .. me.top : l \in Level /\ me.preds[l] \in me.toLock
    <3>1. me.top \in Level /\ me.toLock = InsertTargets(t, me.top)
      BY <1>t, <1>2 DEF LockInv, Own, Targets, At, ThreadState
    <3> QED
      BY <3>1, LevelsBelow DEF InsertTargets
  <2>2. \A l \in 0 .. me.top : ~ marked[me.preds[l]] /\ forward[me.preds[l]][l] = me.succs[l]
    BY <1>2 DEF CanInsert, StillLinked
  <2> QED
    BY <1>2, <1>7, <2>1, <2>2 DEF Unlocked, OnceOn, Joined
<1>9. PointersJoined'
  <2>1. ASSUME NEW p \in owned \union {HeadNode, n}, NEW l \in Level, NEW q,
               q = forward'[p][l], q # NoNode
        PROVE  Joined(q, l)'
    <3>1. CASE p # n
      <4>1. Joined(q, l)
        BY <1>5, <2>1, <3>1 DEF LockInv, PointersJoined
      <4> QED
        BY <1>6, <4>1, JoinedStays
    <3>2. CASE p = n
      <4>1. Joined(q, l)
        BY <1>5, <1>7, <2>1, <3>2
      <4> QED
        BY <1>6, <4>1, JoinedStays
    <3> QED
      BY <3>1, <3>2
  <2>2. \A p \in owned' \union {HeadNode} : p \in owned \union {HeadNode, n}
    BY <1>1
  <2> QED
    BY <2>1, <2>2 DEF PointersJoined
<1>10. ASSUME NEW u \in Thread \ {t}
       PROVE  Own(u)'
  <2>1. th[u].pc \in Creating => th[u].node \in owned
    BY DEF LockInv, Own, Inserting, Creating
  <2> QED
    BY <1>5, <1>6, <2>1, OthersKeep DEF LockInv
<1>11. Own(t)'
  <2>1. Met(th[t])'
    BY <1>4, <1>6, <1>7, JoinedStays, OnceOnStays DEF Met
  <2>2. Targets(t)' /\ Deleting(t)'
    BY <1>4 DEF Targets, At, Deleting
  <2>3. Guarded(t)'
    BY <1>2, <1>4, <1>5, <1>8 DEF Guarded
  <2>4. Inserting(t)'
    <3>1. n \in owned' /\ ~ marked'[n] /\ ~ linked'[n]
      BY <1>1, <1>5
    <3>2. ASSUME NEW l \in 0 .. me.top
          PROVE  /\ 0 <= l /\ forward'[me.preds[l]][l] = me.succs[l]
                 /\ forward'[n][l] = me.succs[l]
      BY <1>5, <1>8, Basics
    <3> QED
      BY <1>4, <3>1, <3>2 DEF Inserting
  <2> QED
    BY <2>1, <2>2, <2>3, <2>4 DEF Own
<1>12. ASSUME NEW v \in Thread, NEW u \in Thread,
              th'[v].pc \in Creating, th'[u].pc \in Creating, th'[v].node = th'[u].node
       PROVE  v = u
  <2>1. \A w \in Thread \ {t} : th'[w].pc \in Creating => th'[w].node # n
    <3>1. \A w \in Thread : th[w].pc \in Creating => th[w].node \in owned
      BY DEF LockInv, Own, Inserting, Creating
    <3> QED
      BY <1>4, <3>1
  <2> QED
    BY <1>4, <1>12, <2>1 DEF LockInv
<1>13. ASSUME NEW l \in Level
       PROVE  Chained(l)' /\ On(l)' = On(l)
  <2>1. ASSUME NEW m \in owned
        PROVE  (Joined(m, l)' <=> Joined(m, l)) /\ (Left(m, l)' <=> Left(m, l))
    <3>1. m # n /\ m \in owned'
      BY <1>1, <2>1
    <3>2. Joined(m, l)' <=> Joined(m, l)
      BY <1>2, <1>4, <1>5, <3>1 DEF Joined
    <3>3. Left(m, l)' <=> Left(m, l)
      BY <1>2, <1>4, <1>5, <3>1 DEF Left
    <3> QED
      BY <3>2, <3>3
  <2>2. ~ Joined(n, l)'
    BY <1>4, Basics DEF Joined
  <2>3. On(l)' = On(l)
    BY <1>1, <2>1, <2>2 DEF On
  <2> QED
    BY <1>5, <2>3, ChainKept DEF LockInv, On
<1> QED
  BY <1>9, <1>10, <1>11, <1>12, <1>13 DEF LockInv
\* A store into a locked predecessor that is on the level concerns nobody else.
LEMMA StoreOthers ==
  ASSUME IInv, IInv', LockInv, NEW t \in Thread, Others(t), Upwards(t), UNCHANGED <<marked, linked>>,
         NEW p \in Node, NEW l \in Level, mutex[p] = t, OnceOn(p, l), NEW m,
         forward' = [forward EXCEPT ![p][l] = m], NEW u \in Thread \ {t}
  PROVE  Own(u)'
<1>1. /\ \A q \in Node, k \in Level : q # p \/ k # l => forward'[q][k] = forward[q][k]
      /\ \A q \in Node : q # p => forward'[q] = forward[q]
  BY DEF IInv, Typed
<1>2. owned \union {HeadNode} \subseteq Node
  BY OwnedNode DEF IInv
<1>3. \A q \in owned \union {HeadNode} : mutex[q] = u => forward'[q] = forward[q]
  BY <1>1, <1>2
<1>4. ASSUME th[u].pc = "link", NEW k \in Level, th[u].level <= k
      PROVE  forward'[th[u].node][k] = forward[th[u].node][k]
  <2>1. th[u].node \in owned /\ th[u].node # HeadNode /\ th[u].node \in Node
    BY <1>2, <1>4, OwnedNode DEF IInv, LockInv, Own, Inserting
  <2>2. th[u].node = p => k # l
    BY <1>4, <2>1 DEF OnceOn, Joined
  <2> QED
    BY <1>1, <2>1, <2>2
<1> QED
  BY <1>3, <1>4, OthersKeep DEF LockInv

\* A node goes between p and the node that p points to.
LEMMA ChainLinked ==
  ASSUME NEW l \in Level, Chained(l), NEW p \in On(l) \union {HeadNode}, NEW n,
         n \notin On(l) \union {HeadNode, NoNode}, On(l)' = On(l) \union {n},
         \A m \in On(l) \union {n} : key'[m] = key[m] /\ key[m] \in Int,
         After(p, n), forward[p][l] # NoNode => key[n] < key[forward[p][l]],
         forward'[p][l] = n, forward'[n][l] = forward[p][l],
         \A q \in On(l) \union {HeadNode} : q # p => forward'[q][l] = forward[q][l]
  PROVE  Chained(l)'
<1> DEFINE s == forward[p][l]
<1>1. ASSUME NEW m \in On(l), After(p, m)
      PROVE  s # NoNode /\ s \in On(l) /\ key[n] < key[s] /\ key[s] <= key[m] /\ key[n] < key[m]
  BY <1>1 DEF Chained
<1>2. \A m \in On(l) : key[m] # key[n]
  <2> SUFFICES ASSUME NEW m \in On(l), key[m] = key[n] PROVE FALSE
    OBVIOUS
  <2> QED
    BY <1>1 DEF After
<1>3. ASSUME NEW q \in On(l) \union {HeadNode}, q # p, After(q, n)
      PROVE  p # HeadNode /\ After(q, p)
  <2>1. q # HeadNode => q \in On(l) /\ key[q] < key[n] /\ ~ After(p, q)
    BY <1>1, <1>3 DEF After
  <2> QED
    BY <1>3, <2>1 DEF After, Chained
<1>4. ASSUME NEW q \in On(l) \union {HeadNode, n}, NEW m \in On(l) \union {n}, After(q, m)
      PROVE  /\ forward'[q][l] # NoNode /\ forward'[q][l] \in On(l) \union {n}
             /\ key[forward'[q][l]] <= key[m]
  <2>1. CASE q = p
    BY <1>1, <1>4, <2>1
  <2>2. CASE q = n
    <3>1. m \in On(l) /\ After(p, m)
      BY <1>4, <2>2 DEF After
    <3> QED
      BY <1>1, <2>2, <3>1
  <2>3. CASE q \in On(l) \union {HeadNode} /\ q # p /\ m = n
    <3>1. p \in On(l) /\ After(q, p) /\ key[p] < key[n]
      BY <1>3, <1>4, <2>3 DEF After
    <3> QED
      BY <2>3, <3>1 DEF Chained
  <2>4. CASE q \in On(l) \union {HeadNode} /\ q # p /\ m # n
    BY <1>4, <2>4 DEF Chained
  <2> QED
    BY <2>1, <2>2, <2>3, <2>4
<1>5. ASSUME NEW q \in On(l) \union {HeadNode, n}, forward'[q][l] # NoNode
      PROVE  forward'[q][l] \in On(l) \union {n}
  BY <1>5 DEF Chained
<1>6. \A q \in On(l) \union {HeadNode, n}, m \in On(l) \union {n} : After(q, m)' <=> After(q, m)
  BY DEF After
<1> QED
  BY <1>2, <1>4, <1>5, <1>6 DEF Chained

\* The predecessor of n comes to point to its successor.
LEMMA ChainUnlinked ==
  ASSUME NEW l \in Level, Chained(l), NEW p \in On(l) \union {HeadNode}, NEW n \in On(l),
         p # n, n # HeadNode, n # NoNode, On(l)' = On(l) \ {n},
         \A m \in On(l) : key'[m] = key[m] /\ key[m] \in Int,
         forward[n][l] # NoNode => key[n] < key[forward[n][l]],
         \A q \in On(l) \union {HeadNode} : forward[q][l] = n => q = p,
         forward[p][l] = n, forward'[p][l] = forward[n][l],
         \A q \in On(l) \union {HeadNode} : q # p => forward'[q][l] = forward[q][l]
  PROVE  Chained(l)'
<1>1. \A q \in On(l) \union {HeadNode}, m \in On(l) : After(q, m)' <=> After(q, m)
  BY DEF After
<1>2. ASSUME NEW q \in (On(l) \ {n}) \union {HeadNode}, forward'[q][l] # NoNode
      PROVE  forward'[q][l] \in On(l) \ {n}
  BY <1>2 DEF Chained
<1>3. ASSUME NEW q \in (On(l) \ {n}) \union {HeadNode}, NEW m \in On(l) \ {n}, After(q, m)
      PROVE  forward'[q][l] # NoNode /\ key[forward'[q][l]] <= key[m]
  <2>1. CASE q # p
    BY <1>3, <2>1 DEF Chained
  <2>2. CASE q = p
    <3>1. key[n] <= key[m] /\ key[n] # key[m]
      BY <1>3, <2>2 DEF Chained
    <3>2. After(n, m)
      BY <3>1 DEF After
    <3> QED
      BY <2>2, <3>2 DEF Chained
  <2> QED
    BY <2>1, <2>2
<1>4. \A q, m \in On(l) : key[q] = key[m] => q = m
  BY DEF Chained
<1> QED
  BY <1>1, <1>2, <1>3, <1>4 DEF Chained
\* The new node joins the level between the predecessor that is locked and the
\* successor that it already points to.
LEMMA LinkLevelLock ==
  ASSUME IInv, IInv', LockInv, NEW t \in Thread, LinkLevel(t)
  PROVE  LockInv' /\ \A l \in Level :
           On(l)' = IF l = th[t].level THEN On(l) \union {th[t].node} ELSE On(l)
<1> DEFINE me == th[t]
           n  == th[t].node
           lv == th[t].level
           p  == th[t].preds[th[t].level]
<1>t. /\ Typed /\ th \in [Thread -> ThreadState] /\ th[t] \in ThreadState
      /\ lv \in Level /\ me.top \in Level /\ lv \in Int /\ me.top \in Int
      /\ p \in Node /\ lv <= me.top /\ me.top = top[n] /\ me.pc = "link"
  <2>1. Typed /\ th \in [Thread -> ThreadState] /\ LocalOK(th[t]) /\ me.pc = "link"
    BY DEF IInv, Typed, LocalsOK, LinkLevel
  <2> QED
    BY <2>1, LocalTypes, Basics DEF LocalOK
<1>1. /\ UNCHANGED <<key, top, marked, linked, owned, mutex>>
      /\ forward' = [forward EXCEPT ![p][lv] = n]
  BY DEF LinkLevel, content
<1>2. /\ \A u \in Thread \ {t} : th'[u] = th[u]
      /\ th'[t].node = n /\ th'[t].top = me.top /\ th'[t].preds = me.preds
      /\ th'[t].succs = me.succs /\ th'[t].request = me.request
      /\ \/ th'[t].pc = "link" /\ th'[t].level = lv + 1 /\ lv < me.top
         \/ th'[t].pc = "publish" /\ lv = me.top
  <2>1. CASE lv < me.top
    <3>1. th' = [th EXCEPT ![t] = [th[t] EXCEPT !.level = lv + 1]]
      BY <1>t, <2>1 DEF LinkLevel
    <3> QED
      BY <1>t, <2>1, <3>1 DEF ThreadState
  <2>2. CASE ~ (lv < me.top)
    <3>1. th' = [th EXCEPT ![t] = [th[t] EXCEPT !.pc = "publish"]]
      BY <1>t, <2>2 DEF LinkLevel, Goto
    <3> QED
      BY <1>t, <2>2, <3>1 DEF ThreadState
  <2> QED
    BY <2>1, <2>2
<1>3. Others(t) /\ Upwards(t)
  BY <1>t, <1>1, <1>2 DEF Others, Upwards
<1>4. /\ n \in owned /\ n \in Node /\ n # HeadNode /\ n # NoNode /\ ~ marked[n] /\ ~ linked[n]
      /\ mutex[p] = t /\ ~ marked[p]
      /\ forward[p][lv] = me.succs[lv] /\ forward[n][lv] = me.succs[lv]
  <2>1. Guarded(t) /\ Inserting(t) /\ lv \in 0 .. me.top
    BY <1>t, Basics DEF LockInv, Own
  <2> QED
    BY <1>t, <2>1, OwnedNode DEF Guarded, Inserting
<1>5. OnceOn(p, lv) /\ ~ Joined(n, lv) /\ Met(me)
  BY <1>t DEF LockInv, Own, Met, Joined
<1>6. /\ p \in On(lv) \union {HeadNode} /\ p # n /\ n \notin On(lv)
  BY <1>t, <1>4, <1>5, GuardedOn DEF On, OnceOn
<1>7. /\ \A q \in Node, l \in Level : q # p \/ l # lv => forward'[q][l] = forward[q][l]
      /\ forward'[p][lv] = n
  BY <1>t, <1>1 DEF Typed
<1>8. owned \union {HeadNode} \subseteq Node
  BY <1>t, OwnedNode
<1>9. \A u \in Thread \ {t} : ~ (th[u].pc = "link" /\ th[u].node = n)
  BY <1>t DEF LockInv, Creating
<1>10. ASSUME NEW m \in owned, NEW l \in Level
       PROVE  /\ Joined(m, l)' <=> Joined(m, l) \/ (m = n /\ l = lv)
              /\ Left(m, l)' <=> Left(m, l)
  <2>1. Left(m, l)' <=> Left(m, l)
    BY <1>t, <1>1, <1>2 DEF Left
  <2>2. CASE m # n
    <3>1. th[t].node # m /\ th'[t].node # m
      BY <1>2, <2>2
    <3>2. Joined(m, l)' <=> Joined(m, l)
      BY <1>1, <1>2, <3>1 DEF Joined
    <3> QED
      BY <2>1, <2>2, <3>2
  <2>3. CASE m = n
    <3>1. Joined(m, l) <=> l <= top[m] /\ l < lv
      BY <1>t, <1>4, <1>9, <2>3, Basics DEF Joined
    <3>2. Joined(m, l)' <=> l <= top[m] /\ l <= lv
      <4>1. \A u \in Thread \ {t} : ~ (th'[u].pc = "link" /\ th'[u].node = m)
        BY <1>2, <1>9, <2>3
      <4>2. th'[t].pc = "link" /\ th'[t].level <= l <=> lv < me.top /\ lv + 1 <= l
        BY <1>t, <1>2
      <4>3. l \in Int /\ m \in owned' /\ top'[m] = me.top /\ th'[t].node = m
        BY <1>t, <1>1, <1>2, <2>3, Basics
      <4> QED
        BY <1>t, <1>1, <2>3, <4>1, <4>2, <4>3 DEF Joined
    <3>3. l \in Int
      BY Basics
    <3> QED
      BY <1>t, <2>1, <2>3, <3>1, <3>2, <3>3
  <2> QED
    BY <2>1, <2>2, <2>3
<1>11. PointersJoined'
  <2>1. ASSUME NEW q \in owned \union {HeadNode}, NEW l \in Level, NEW m, m = forward'[q][l], m # NoNode
        PROVE  Joined(m, l)'
    <3>1. CASE q = p /\ l = lv
      BY <1>4, <1>7, <1>10, <2>1, <3>1
    <3>2. CASE ~ (q = p /\ l = lv)
      <4>1. m = forward[q][l]
        BY <1>7, <1>8, <2>1, <3>2
      <4>2. Joined(m, l)
        BY <2>1, <4>1 DEF LockInv, PointersJoined
      <4> QED
        BY <1>3, <4>2, JoinedStays
    <3> QED
      BY <3>1, <3>2
  <2> QED
    BY <1>1, <2>1 DEF PointersJoined
<1>12. \A u \in Thread \ {t} : Own(u)'
  BY <1>t, <1>1, <1>3, <1>4, <1>5, StoreOthers
<1>13. Own(t)'
  <2>1. Met(th[t])'
    BY <1>t, <1>2, <1>3, <1>5, JoinedStays, OnceOnStays DEF Met
  <2>2. Targets(t)' /\ Deleting(t)'
    BY <1>2 DEF Targets, At, Deleting
  <2>3. Guarded(t)'
    BY <1>t, <1>1, <1>2 DEF LockInv, Own, Guarded
  <2>4. Inserting(t)'
    <3>1. ASSUME NEW l \in 0 .. me.top
          PROVE  /\ l \in Level /\ l \in Int /\ me.preds[l] \in Node
                 /\ IF lv <= l THEN forward[me.preds[l]][l] = me.succs[l]
                                    /\ forward[n][l] = me.succs[l]
                    ELSE forward[me.preds[l]][l] = n
      <4>1. l \in Level /\ Inserting(t)
        BY <1>t, LevelsBelow DEF LockInv, Own
      <4> QED
        BY <1>t, <4>1 DEF Inserting, ThreadState
    <3>2. ASSUME NEW l \in 0 .. me.top
          PROVE  IF lv + 1 <= l THEN forward'[me.preds[l]][l] = me.succs[l]
                                     /\ forward'[n][l] = me.succs[l]
                 ELSE forward'[me.preds[l]][l] = n
      <4>1. CASE lv + 1 <= l
        <5>1. lv <= l /\ l # lv
          BY <1>t, <3>1, <4>1
        <5>2. forward'[me.preds[l]][l] = forward[me.preds[l]][l] /\ forward'[n][l] = forward[n][l]
          BY <1>4, <1>7, <3>1, <5>1, ZenonT(30)
        <5> QED
          BY <3>1, <4>1, <5>1, <5>2, Zenon
      <4>2. CASE l = lv
        <5>1. ~ (lv + 1 <= l)
          BY <1>t, <4>2
        <5>2. forward'[me.preds[l]][l] = n
          BY <1>7, <4>2, Zenon
        <5> QED
          BY <5>1, <5>2, Zenon
      <4>3. CASE l < lv
        <5>1. l # lv /\ ~ (lv <= l) /\ ~ (lv + 1 <= l)
          BY <1>t, <3>1, <4>3
        <5>2. forward'[me.preds[l]][l] = forward[me.preds[l]][l]
          BY <1>7, <3>1, <5>1, ZenonT(30)
        <5> QED
          BY <3>1, <5>1, <5>2, Zenon
      <4> QED
        BY <1>t, <3>1, <4>1, <4>2, <4>3
    <3>3. \A l \in 0 .. me.top : l <= me.top /\ l \in Int
      BY <1>t
    <3>4. th'[t].node \in owned' /\ ~ marked'[th'[t].node] /\ ~ linked'[th'[t].node]
      BY <1>1, <1>2, <1>4
    <3>5. CASE th'[t].pc = "link"
      BY <1>2, <3>2, <3>4, <3>5 DEF Inserting
    <3>6. CASE th'[t].pc = "publish"
      <4>1. \A l \in 0 .. me.top : ~ (lv + 1 <= l)
        BY <1>t, <1>2, <3>3, <3>6
      <4> QED
        BY <1>2, <3>2, <3>4, <3>6, <4>1 DEF Inserting
    <3> QED
      BY <1>2, <3>5, <3>6
  <2> QED
    BY <2>1, <2>2, <2>3, <2>4 DEF Own
<1>14. ASSUME NEW v \in Thread, NEW u \in Thread,
              th'[v].pc \in Creating, th'[u].pc \in Creating, th'[v].node = th'[u].node
       PROVE  v = u
  <2>1. \A w \in Thread : th'[w].node = th[w].node /\ (th'[w].pc \in Creating => th[w].pc \in Creating)
    BY <1>t, <1>2 DEF Creating
  <2> QED
    BY <1>14, <2>1 DEF LockInv
<1>15. ASSUME NEW l \in Level, l # lv
       PROVE  Chained(l)' /\ On(l)' = On(l)
  <2>1. On(l)' = On(l)
    BY <1>1, <1>10, <1>15 DEF On
  <2>2. \A q \in On(l) \union {HeadNode} : forward'[q][l] = forward[q][l]
    BY <1>7, <1>8, <1>15 DEF On
  <2> QED
    BY <1>1, <2>1, <2>2, ChainKept DEF LockInv
<1>16. ASSUME NEW l \in Level, l = lv
       PROVE  Chained(l)' /\ On(l)' = On(l) \union {n}
  <2>1. On(l)' = On(l) \union {n}
    <3>1. ~ Left(n, l)
      BY <1>4 DEF Left
    <3> QED
      BY <1>1, <1>4, <1>10, <1>16, <3>1 DEF On
  <2>2. \A m \in owned : key[m] \in Int /\ key'[m] = key[m]
    BY <1>t, <1>1, <1>8, SkipListAssumption DEF Typed
  <2>3. After(p, n)
    BY <1>t, <1>4 DEF IInv, SearchBracketsKey, Brackets, Precedes, After
  <2>4. forward[p][l] # NoNode => key[n] < key[forward[p][l]]
    BY <1>t, <1>4, <1>16 DEF IInv, Sorted
  <2>5. /\ forward'[p][l] = n /\ forward'[n][l] = forward[p][l]
        /\ \A q \in On(l) \union {HeadNode} : q # p => forward'[q][l] = forward[q][l]
    BY <1>t, <1>4, <1>6, <1>7, <1>8, <1>16 DEF On
  <2>6. \A m \in On(l) \union {n} : key'[m] = key[m] /\ key[m] \in Int
    BY <1>4, <2>2 DEF On
  <2>7. Chained(l) /\ n \notin On(l) \union {HeadNode, NoNode} /\ p \in On(l) \union {HeadNode}
    BY <1>4, <1>6, <1>16 DEF LockInv
  <2> HIDE DEF n, p
  <2> QED
    BY <2>1, <2>3, <2>4, <2>5, <2>6, <2>7, ChainLinked
<1> QED
  BY <1>11, <1>12, <1>13, <1>14, <1>15, <1>16 DEF LockInv
-----------------------------------------------------------------------------
(* Unlinking a node, level by level.                                        *)

\* The victim leaves the level: its only predecessor there is the locked one.
LEMMA UnlinkLevelLock ==
  ASSUME IInv, IInv', LockInv, NEW t \in Thread, UnlinkLevel(t)
  PROVE  LockInv' /\ \A l \in Level :
           On(l)' = IF l = th[t].level THEN On(l) \ {th[t].node} ELSE On(l)
<1> DEFINE me == th[t]
           n  == th[t].node
           lv == th[t].level
           p  == th[t].preds[th[t].level]
<1>t. /\ Typed /\ th \in [Thread -> ThreadState] /\ th[t] \in ThreadState
      /\ lv \in Level /\ me.top \in Level /\ lv \in Int /\ me.top \in Int
      /\ p \in Node /\ 0 <= lv /\ lv <= me.top /\ me.top = top[n] /\ me.pc = "unlink"
  <2>1. Typed /\ th \in [Thread -> ThreadState] /\ LocalOK(th[t]) /\ me.pc = "unlink"
    BY DEF IInv, Typed, LocalsOK, UnlinkLevel
  <2> QED
    BY <2>1, LocalTypes, Basics DEF LocalOK
<1>1. /\ UNCHANGED <<key, top, marked, linked, owned, mutex>>
      /\ forward' = [forward EXCEPT ![p][lv] = forward[n][lv]]
  BY DEF UnlinkLevel, content
<1>2. /\ \A u \in Thread \ {t} : th'[u] = th[u]
      /\ th'[t].node = n /\ th'[t].top = me.top /\ th'[t].preds = me.preds
      /\ th'[t].succs = me.succs /\ th'[t].request = me.request
      /\ \/ th'[t].pc = "unlink" /\ th'[t].level = lv - 1 /\ lv > 0
         \/ th'[t].pc = "uncount" /\ lv = 0
  <2>1. CASE lv > 0
    <3>1. th' = [th EXCEPT ![t] = [th[t] EXCEPT !.level = lv - 1]]
      BY <1>t, <2>1 DEF UnlinkLevel
    <3> QED
      BY <1>t, <2>1, <3>1 DEF ThreadState
  <2>2. CASE ~ (lv > 0)
    <3>1. th' = [th EXCEPT ![t] = [th[t] EXCEPT !.pc = "uncount"]]
      BY <1>t, <2>2 DEF UnlinkLevel, Goto
    <3> QED
      BY <1>t, <2>2, <3>1 DEF ThreadState
  <2> QED
    BY <2>1, <2>2
<1>3. Others(t) /\ Upwards(t)
  BY <1>t, <1>1, <1>2 DEF Others, Upwards
<1>4. /\ n \in owned /\ n \in Node /\ n # HeadNode /\ n # NoNode
      /\ marked[n] /\ linked[n] /\ mutex[n] = t
      /\ mutex[p] = t /\ ~ marked[p] /\ forward[p][lv] = n
  <2>1. Guarded(t) /\ Deleting(t) /\ lv \in 0 .. me.top /\ lv \in 0 .. lv
    BY <1>t DEF LockInv, Own
  <2>2. Brackets(me) /\ LocalOK(me)
    BY DEF IInv, SearchBracketsKey, LocalsOK
  <2>3. n \in owned
    BY <1>t, <2>2 DEF Brackets, LocalOK
  <2> QED
    BY <1>t, <2>1, <2>3, OwnedNode DEF Guarded, Deleting
<1>5. OnceOn(p, lv) /\ Met(me) /\ \A l \in Level : Chained(l)
  BY <1>t DEF LockInv, Own, Met
<1>6. /\ p \in On(lv) \union {HeadNode} /\ p # n /\ n \in On(lv)
  <2>1. p \in On(lv) \union {HeadNode}
    BY <1>t, <1>4, <1>5, GuardedOn
  <2> QED
    BY <1>t, <1>4, <1>5, <2>1 DEF Chained
<1>7. /\ \A q \in Node, l \in Level : q # p \/ l # lv => forward'[q][l] = forward[q][l]
      /\ forward'[p][lv] = forward[n][lv]
  BY <1>t, <1>1 DEF Typed
<1>8. owned \union {HeadNode} \subseteq Node
  BY <1>t, OwnedNode
<1>9. \A u \in Thread \ {t} : ~ (th[u].pc = "unlink" /\ th[u].node = n)
  BY <1>4 DEF LockInv, Own, Deleting
<1>10. ASSUME NEW m \in owned, NEW l \in Level
       PROVE  /\ Joined(m, l)' <=> Joined(m, l)
              /\ Left(m, l)' <=> Left(m, l) \/ (m = n /\ l = lv)
  <2>1. Joined(m, l)' <=> Joined(m, l)
    BY <1>t, <1>1, <1>2 DEF Joined
  <2>2. CASE m # n
    <3>1. th[t].node # m /\ th'[t].node # m
      BY <1>2, <2>2
    <3>2. Left(m, l)' <=> Left(m, l)
      BY <1>1, <1>2, <3>1 DEF Left
    <3> QED
      BY <2>1, <2>2, <3>2
  <2>3. CASE m = n
    <3>1. Left(m, l) <=> lv < l
      BY <1>t, <1>4, <1>9, <2>3, Basics DEF Left
    <3>2. Left(m, l)' <=> lv <= l
      <4>1. \A u \in Thread \ {t} : ~ (th'[u].pc = "unlink" /\ th'[u].node = m)
        BY <1>2, <1>9, <2>3
      <4>2. l \in Int /\ 0 <= l /\ marked'[m] /\ th'[t].node = m
        BY <1>1, <1>2, <1>4, <2>3, Basics
      <4>3. th'[t].pc = "unlink" /\ l <= th'[t].level <=> l < lv
        BY <1>t, <1>2, <4>2
      <4> QED
        BY <1>t, <4>1, <4>2, <4>3 DEF Left
    <3>3. l \in Int
      BY Basics
    <3> QED
      BY <1>t, <2>1, <2>3, <3>1, <3>2, <3>3
  <2> QED
    BY <2>2, <2>3
<1>11. PointersJoined'
  <2>1. ASSUME NEW q \in owned \union {HeadNode}, NEW l \in Level, NEW m, m = forward'[q][l], m # NoNode
        PROVE  Joined(m, l)'
    <3>1. \E r \in owned \union {HeadNode} : m = forward[r][l]
      BY <1>4, <1>7, <1>8, <2>1
    <3>2. Joined(m, l)
      BY <2>1, <3>1 DEF LockInv, PointersJoined
    <3> QED
      BY <1>3, <3>2, JoinedStays
  <2> QED
    BY <1>1, <2>1 DEF PointersJoined
<1>12. \A u \in Thread \ {t} : Own(u)'
  BY <1>t, <1>1, <1>3, <1>4, <1>5, StoreOthers
<1>13. Own(t)'
  <2>1. Met(th[t])'
    BY <1>t, <1>2, <1>3, <1>5, JoinedStays, OnceOnStays DEF Met
  <2>2. Targets(t)' /\ Inserting(t)'
    BY <1>2 DEF Targets, At, Inserting
  <2>3. Guarded(t)'
    BY <1>t, <1>1, <1>2 DEF LockInv, Own, Guarded
  <2>4. Deleting(t)'
    <3>1. CASE th'[t].pc = "unlink"
      <4>1. ASSUME NEW l \in 0 .. lv - 1
            PROVE  forward'[me.preds[l]][l] = n
        <5>1. l \in Level /\ l # lv /\ l \in 0 .. lv
          BY <1>t, SkipListAssumption DEF Level
        <5>2. forward[me.preds[l]][l] = n /\ me.preds[l] \in Node
          BY <1>t, <5>1 DEF LockInv, Own, Deleting, ThreadState
        <5> QED
          BY <1>7, <5>1, <5>2
      <4> QED
        BY <1>1, <1>2, <1>4, <3>1, <4>1 DEF Deleting
    <3>2. CASE th'[t].pc # "unlink"
      BY <3>2 DEF Deleting
    <3> QED
      BY <3>1, <3>2
  <2> QED
    BY <2>1, <2>2, <2>3, <2>4 DEF Own
<1>14. ASSUME NEW v \in Thread, NEW u \in Thread,
              th'[v].pc \in Creating, th'[u].pc \in Creating, th'[v].node = th'[u].node
       PROVE  v = u
  <2>1. v # t /\ u # t
    BY <1>2, <1>14 DEF Creating
  <2> QED
    BY <1>2, <1>14, <2>1 DEF LockInv
<1>15. ASSUME NEW l \in Level, l # lv
       PROVE  Chained(l)' /\ On(l)' = On(l)
  <2>1. On(l)' = On(l)
    BY <1>1, <1>10, <1>15 DEF On
  <2>2. \A q \in On(l) \union {HeadNode} : forward'[q][l] = forward[q][l]
    BY <1>7, <1>8, <1>15 DEF On
  <2> QED
    BY <1>1, <2>1, <2>2, ChainKept DEF LockInv
<1>16. ASSUME NEW l \in Level, l = lv
       PROVE  Chained(l)' /\ On(l)' = On(l) \ {n}
  <2>1. On(l)' = On(l) \ {n}
    BY <1>1, <1>10, <1>16 DEF On
  <2>2. \A m \in On(l) : key[m] \in Int /\ key'[m] = key[m]
    BY <1>t, <1>1, <1>8, SkipListAssumption DEF Typed, On
  <2>3. forward[n][l] # NoNode => key[n] < key[forward[n][l]]
    BY <1>t, <1>4, <1>16 DEF IInv, Sorted
  <2>4. \A q \in On(l) \union {HeadNode} : forward[q][l] = n => q = p
    BY <1>4, <1>5, <1>6, <1>16, PredecessorUnique
  <2>5. /\ forward[p][l] = n /\ forward'[p][l] = forward[n][l]
        /\ \A q \in On(l) \union {HeadNode} : q # p => forward'[q][l] = forward[q][l]
    BY <1>t, <1>4, <1>7, <1>8, <1>16 DEF On
  <2>6. /\ Chained(l) /\ p \in On(l) \union {HeadNode} /\ n \in On(l) /\ p # n
        /\ n # HeadNode /\ n # NoNode
    BY <1>4, <1>5, <1>6, <1>16
  <2> HIDE DEF n, p
  <2> QED
    BY <2>1, <2>2, <2>3, <2>4, <2>5, <2>6, ChainUnlinked
<1> QED
  BY <1>11, <1>12, <1>13, <1>14, <1>15, <1>16 DEF LockInv

-----------------------------------------------------------------------------
(* The invariant holds.                                                     *)

\* An empty list, with every call idle, has nothing on any level.
LEMMA EmptyLock ==
  ASSUME owned = {}, \A t \in Thread : th[t].pc = "idle",
         \A l \in Level : forward[HeadNode][l] = NoNode
  PROVE  LockInv
<1>1. \A t \in Thread : Own(t)
  BY DEF Own, Met, Targets, At, Guarded, Inserting, Deleting
<1>2. \A l \in Level : Chained(l)
  BY DEF Chained, On
<1>3. PointersJoined
  BY DEF PointersJoined
<1> QED
  BY <1>1, <1>2, <1>3 DEF LockInv, Creating

LEMMA ClearLock ==
  ASSUME IInv, NEW t \in Thread, Clear(t)
  PROVE  LockInv'
<1>1. owned' = {} /\ \A l \in Level : forward'[HeadNode][l] = NoNode
  BY SkipListAssumption DEF Clear, IInv, Typed
<1>2. \A u \in Thread : th'[u].pc = "idle"
  BY DEF Clear, IInv, Typed, Fresh
<1>3. \A u \in Thread : Own(u)'
  BY <1>2 DEF Own, Met, Targets, At, Guarded, Inserting, Deleting
<1>4. \A l \in Level : Chained(l)'
  BY <1>1 DEF Chained, On
<1>5. PointersJoined'
  BY <1>1 DEF PointersJoined
<1> QED
  BY <1>2, <1>3, <1>4, <1>5 DEF LockInv, Creating

LEMMA InitLock == Init => LockInv
<1> SUFFICES ASSUME Init PROVE LockInv
  OBVIOUS
<1>1. /\ owned = {} /\ \A t \in Thread : th[t].pc = "idle"
      /\ \A l \in Level : forward[HeadNode][l] = NoNode
  BY SkipListAssumption DEF Init, Fresh
<1> QED
  BY <1>1, EmptyLock

LEMMA NextLock == IInv /\ LockInv /\ [Next]_vars => LockInv'
<1> SUFFICES ASSUME IInv, LockInv, [Next]_vars
             PROVE  LockInv'
  OBVIOUS
<1>0. IInv'
  BY NextIInv
<1>1. CASE UNCHANGED vars \/ Finished
  <2>1. UNCHANGED vars
    BY <1>1, Zenon DEF Finished
  <2>2. UNCHANGED <<key, top, forward, marked, linked, mutex, owned, th>>
    BY <2>1 DEF vars
  <2>3. \A n, l : (Joined(n, l)' <=> Joined(n, l)) /\ (Left(n, l)' <=> Left(n, l))
    BY <2>2, Zenon DEF Joined, Left
  <2>4. PointersJoined'
    BY <2>2, <2>3, ZenonT(40) DEF LockInv, PointersJoined
  <2>5. ASSUME NEW t \in Thread
        PROVE  Own(t)'
    <3>1. Own(t)
      BY DEF LockInv
    <3>2. Met(th[t])'
      BY <2>2, <2>3, <3>1, ZenonT(40) DEF Own, Met, OnceOn
    <3>3. Targets(t)'
      BY <2>2, <3>1, ZenonT(40) DEF Own, Targets, At, InsertTargets, DeleteTargets,
                                    PredecessorTargets
    <3>4. Guarded(t)' /\ Inserting(t)' /\ Deleting(t)'
      BY <2>2, <3>1, ZenonT(40) DEF Own, Guarded, Inserting, Deleting
    <3> QED
      BY <3>2, <3>3, <3>4 DEF Own
  <2>6. ASSUME NEW l \in Level
        PROVE  Chained(l)'
    <3>1. Chained(l)
      BY DEF LockInv
    <3>2. On(l)' = On(l)
      BY <2>2, <2>3, ZenonT(40) DEF On
    <3> QED
      BY <2>2, <3>1, <3>2, ZenonT(40) DEF Chained, After
  <2>7. \A t, u \in Thread : th'[t].pc \in Creating /\ th'[u].pc \in Creating
                               /\ th'[t].node = th'[u].node => t = u
    BY <2>2, Zenon DEF LockInv
  <2> QED
    BY <2>4, <2>5, <2>6, <2>7, Zenon DEF LockInv, Creating
<1>2. ASSUME NEW t \in Thread, Call(t) \/ Clear(t) \/ Step(t)
      PROVE  LockInv'
  BY <1>0, <1>2, ClearLock, LocalLock, LockNextLock, RestLock, InsertLock, LinkLevelLock,
     PublishLock, MarkLock, UnlinkLevelLock DEF Step, SharedStep
<1> QED
  BY <1>1, <1>2 DEF Next
\* On every level the forward pointers chain, in ascending order and each key
\* once, exactly the nodes whose insertion has linked them there and whose
\* deletion has not unlinked them (Put, SkipList.hpp:43, and Delete, :122): what
\* the locks on the predecessors and the validation after taking them are for.
THEOREM LevelsChained == Spec => [](IInv /\ LockInv)
<1>1. Init => IInv /\ LockInv
  BY InitIInv, InitLock
<1>2. (IInv /\ LockInv) /\ [Next]_vars => (IInv /\ LockInv)'
  BY NextIInv, NextLock
<1> QED
  BY <1>1, <1>2, PTL DEF Spec

\* A store into a forward pointer goes to a node that is not marked.
LEMMA FrozenStep ==
  ASSUME IInv, LockInv, [Next]_vars
  PROVE  \A n \in owned \intersect owned' :
           marked[n] => marked'[n] /\ forward'[n] = forward[n] /\ value'[n] = value[n]
<1> SUFFICES ASSUME NEW n \in owned, n \in owned', marked[n]
             PROVE  marked'[n] /\ forward'[n] = forward[n] /\ value'[n] = value[n]
  OBVIOUS
<1>0. n \in Node /\ n # HeadNode /\ Typed
  BY OwnedNode DEF IInv
<1>1. CASE UNCHANGED vars \/ Finished
  BY <1>1 DEF Finished, vars
<1>2. ASSUME NEW t \in Thread, Call(t) \/ Clear(t) \/ LocalStep(t) \/ SharedStep(t)
      PROVE  marked'[n] /\ forward'[n] = forward[n] /\ value'[n] = value[n]
  <2>1. CASE Clear(t)
    BY <2>1 DEF Clear
  <2>2. CASE Insert(t)
    BY <1>0, <2>2 DEF Insert, Typed
  <2>3. CASE LinkLevel(t)
    <3>1. th[t].level \in 0 .. th[t].top /\ th[t].preds[th[t].level] # n
      <4>1. th[t].pc = "link" /\ th[t].level \in Level /\ th[t].top \in Level
        BY <1>0, <2>3, LocalTypes DEF LinkLevel
      <4>2. th[t].level \in 0 .. th[t].top
        BY <4>1, Basics DEF IInv, LocalsOK, LocalOK
      <4> QED
        BY <4>1, <4>2 DEF LockInv, Own, Guarded
    <3> QED
      BY <1>0, <2>3, <3>1 DEF LinkLevel, Typed, content
  <2>4. CASE UnlinkLevel(t)
    <3>1. th[t].level \in 0 .. th[t].top /\ th[t].preds[th[t].level] # n
      <4>1. th[t].pc = "unlink" /\ th[t].level \in Level /\ th[t].top \in Level
        BY <1>0, <2>4, LocalTypes DEF UnlinkLevel
      <4>2. th[t].level \in 0 .. th[t].top
        BY <4>1, Basics DEF IInv, LocalsOK, LocalOK
      <4> QED
        BY <4>1, <4>2 DEF LockInv, Own, Guarded
    <3> QED
      BY <1>0, <2>4, <3>1 DEF UnlinkLevel, Typed, content
  <2>5. CASE Mark(t)
    BY <1>0, <2>5 DEF Mark, Typed, content
  <2>6. CASE UpdateExisting(t)
    <3>1. th[t].node # n \/ ~ Readable(n)
      BY DEF Readable
    <3> QED
      BY <1>0, <2>6, <3>1 DEF UpdateExisting, Typed
  <2>7. CASE ~ (Clear(t) \/ Insert(t) \/ LinkLevel(t) \/ UnlinkLevel(t) \/ Mark(t)
                 \/ UpdateExisting(t))
    <3>1. UNCHANGED <<marked, forward, value>>
      BY <1>2, <2>7 DEF Call, LocalStep, SharedStep, LockNext, InsertRetry, Publish, Count,
                        Raise, DeleteRetry, Uncount, Lower, heap, content
    <3> QED
      BY <3>1
  <2> QED
    BY <2>1, <2>2, <2>3, <2>4, <2>5, <2>6, <2>7
<1> QED
  BY <1>1, <1>2 DEF Next, Step

\* Put and Delete store into a predecessor only while they hold its mutex and
\* have found it unmarked (CanInsert, SkipList.hpp:342; CanDelete, :364), and
\* marking takes that mutex: nothing is linked behind a removed node.  Put writes to
\* a node found unmarked under its mutex (:53), and only Insert clears a mark.
THEOREM MarkedStaysFrozen == Spec => MarkedFrozen
<1>1. (IInv /\ LockInv) /\ [Next]_vars =>
        [\A n \in owned \intersect owned' :
           marked[n] => marked'[n] /\ forward'[n] = forward[n] /\ value'[n] = value[n]]_vars
  BY FrozenStep
<1> QED
  BY <1>1, LevelsChained, PTL DEF Spec, MarkedFrozen

\* A live node is on each of its levels.
LEMMA LiveOn ==
  ASSUME LockInv, NEW n \in Live, NEW l, l <= top[n]
  PROVE  n \in On(l)
BY DEF LockInv, Own, Inserting, Creating, Live, On, Joined, Left

\* Two Puts of one key cannot both pass the validation (SkipList.hpp:72): the
\* second one's predecessor no longer points to the successor it has recorded.
THEOREM LiveKeysDiffer == Spec => []OneLiveNodePerKey
<1>1. ASSUME IInv, LockInv
      PROVE  OneLiveNodePerKey
  <2>1. \A n \in Live : 0 <= top[n]
    BY <1>1, OwnedNode, Basics DEF IInv, Typed, Live
  <2>2. \A n \in Live : n \in On(0)
    BY <1>1, <2>1, LiveOn
  <2> QED
    BY <1>1, <2>2, Basics DEF LockInv, Chained, OneLiveNodePerKey
<1> QED
  BY <1>1, LevelsChained, PTL

-----------------------------------------------------------------------------
(* What a traversal of the skip list meets.  For finitely many nodes, the   *)
(* walk of a level from the head (OnLevel) meets exactly the nodes that are *)
(* chained there: no live node is lost and no removed node is met again.    *)

\* A non-empty set of numbers has a least element.
LEMMA LeastNumber ==
  ASSUME NEW T \in SUBSET Nat, T # {}
  PROVE  \E i \in T : \A j \in T : i <= j
<1>1. PICK i \in T : \A j \in T : ~ (<<j, i>> \in OpToRel(<, Nat))
  BY WFMin, NatLessThanWellFounded, Zenon
<1>2. \A j \in T : j \in Nat /\ i \in Nat /\ ~ (j < i)
  BY <1>1 DEF OpToRel
<1> QED
  BY <1>2

\* What follows n on level l of the list; the walk stays at the end.
Follower(n, l) == IF n = NoNode THEN NoNode ELSE forward[n][l]

\* f gives the first N nodes of a walk from the head.
Walked(f, l, N) ==
  f = [i \in 0 .. N |-> IF i = 0 THEN HeadNode
                        ELSE IF f[i - 1] = NoNode THEN NoNode ELSE forward[f[i - 1]][l]]

\* A walk can be taken as far as one likes.
LEMMA WalkExists ==
  ASSUME NEW l, NEW N \in Nat
  PROVE  \E f : Walked(f, l, N)
<1> DEFINE T == {i \in Nat : ~ \E f : Walked(f, l, i)}
<1>1. SUFFICES ASSUME T # {} PROVE FALSE
  BY DEF Walked
<1>2. PICK i \in T : \A j \in T : i <= j
  BY <1>1, LeastNumber
<1>3. CASE i = 0
  <2> DEFINE f == [j \in 0 .. 0 |-> HeadNode]
  <2>1. Walked(f, l, 0)
    BY DEF Walked
  <2> QED
    BY <1>3, <2>1
<1>4. CASE i # 0
  <2>1. i - 1 \in Nat /\ i - 1 \notin T
    BY <1>2, <1>4
  <2>2. PICK f : Walked(f, l, i - 1)
    BY <2>1
  <2> DEFINE g == [j \in 0 .. i |-> IF j = i THEN IF f[i - 1] = NoNode THEN NoNode
                                                  ELSE forward[f[i - 1]][l]
                                    ELSE f[j]]
  <2>3. \A j \in 0 .. i - 1 : g[j] = f[j]
    BY <1>2
  <2>4. ASSUME NEW j \in 0 .. i
        PROVE  g[j] = IF j = 0 THEN HeadNode
                      ELSE IF g[j - 1] = NoNode THEN NoNode ELSE forward[g[j - 1]][l]
    <3>1. CASE j = i
      BY <1>2, <1>4, <2>1, <2>3, <3>1
    <3>2. CASE j # i
      <4>1. j \in 0 .. i - 1 /\ (j # 0 => j - 1 \in 0 .. i - 1)
        BY <1>2, <3>2
      <4>2. f[j] = IF j = 0 THEN HeadNode
                   ELSE IF f[j - 1] = NoNode THEN NoNode ELSE forward[f[j - 1]][l]
        BY <2>2, <4>1 DEF Walked
      <4> QED
        BY <2>3, <4>1, <4>2
    <3> QED
      BY <3>1, <3>2
  <2>5. Walked(g, l, i)
    BY <2>4 DEF Walked
  <2> QED
    BY <2>5
<1> QED
  BY <1>3, <1>4

\* OnLevel collects such a walk.
LEMMA OnLevelWalk ==
  ASSUME NEW l, IsFiniteSet(Node)
  PROVE  \E f : /\ f[0] = HeadNode
                /\ \A i \in 1 .. Cardinality(Node) : f[i] = Follower(f[i - 1], l)
                /\ OnLevel(l) = {f[i] : i \in 1 .. Cardinality(Node)} \ {NoNode}
<1> DEFINE N == Cardinality(Node)
           f == CHOOSE nth : Walked(nth, l, N)
<1>1. N \in Nat
  BY FS_CardinalityType
<1>2. Walked(f, l, N)
  BY <1>1, WalkExists
<1>3. OnLevel(l) = {f[i] : i \in 1 .. N} \ {NoNode}
  BY DEF OnLevel, Walked
<1>4. f[0] = HeadNode
  <2>1. 0 \in 0 .. N
    BY <1>1
  <2> HIDE DEF f
  <2> QED
    BY <1>2, <2>1 DEF Walked
<1>5. ASSUME NEW i \in 1 .. N
      PROVE  f[i] = Follower(f[i - 1], l)
  <2>1. i \in 0 .. N /\ i # 0
    BY <1>1
  <2> HIDE DEF f
  <2> QED
    BY <1>2, <2>1 DEF Walked, Follower
<1> QED
  BY <1>3, <1>4, <1>5

-----------------------------------------------------------------------------
(* A traversal meets what is chained.                                       *)

\* A walk meets chained nodes only.
LEMMA WalkOn ==
  ASSUME NEW l \in Level, Chained(l), NEW N \in Nat, NEW f, f[0] = HeadNode,
         \A i \in 1 .. N : f[i] = Follower(f[i - 1], l), NEW k \in 1 .. N, f[k] # NoNode
  PROVE  f[k] \in On(l)
<1> DEFINE T == {i \in 1 .. N : f[i] # NoNode /\ f[i] \notin On(l)}
<1>1. SUFFICES ASSUME T # {} PROVE FALSE
  OBVIOUS
<1>2. PICK i \in T : \A j \in T : i <= j
  <2>1. T \in SUBSET Nat
    OBVIOUS
  <2> QED
    BY <1>1, <2>1, LeastNumber
<1>3. f[i] = forward[f[i - 1]][l] /\ f[i - 1] # NoNode
  BY <1>2 DEF Follower
<1>4. f[i - 1] \in On(l) \union {HeadNode}
  BY <1>2, <1>3
<1> QED
  BY <1>2, <1>3, <1>4 DEF Chained

\* A walk that has not met n yet is still before it.
LEMMA WalkBefore ==
  ASSUME NEW l \in Level, Chained(l), NEW N \in Nat, NEW f, f[0] = HeadNode,
         \A i \in 1 .. N : f[i] = Follower(f[i - 1], l),
         HeadNode # NoNode, NoNode \notin On(l), \A m \in On(l) : key[m] \in Int,
         NEW n \in On(l), \A i \in 1 .. N : f[i] # n
  PROVE  \A i \in 0 .. N : f[i] \in On(l) \union {HeadNode} /\ After(f[i], n)
<1> DEFINE T == {i \in 0 .. N : ~ (f[i] \in On(l) \union {HeadNode} /\ After(f[i], n))}
<1>1. SUFFICES ASSUME T # {} PROVE FALSE
  OBVIOUS
<1>2. PICK i \in T : \A j \in T : i <= j
  <2>1. T \in SUBSET Nat
    OBVIOUS
  <2> QED
    BY <1>1, <2>1, LeastNumber
<1>3. i # 0
  BY <1>2 DEF After
<1>4. f[i - 1] \in On(l) \union {HeadNode} /\ After(f[i - 1], n)
  BY <1>2, <1>3
<1>5. f[i] = forward[f[i - 1]][l] /\ f[i] # n
  BY <1>2, <1>3, <1>4 DEF Follower
<1>6. f[i] \in On(l) /\ key[f[i]] <= key[n] /\ key[f[i]] # key[n]
  BY <1>4, <1>5 DEF Chained
<1> QED
  BY <1>2, <1>6 DEF After

\* A walk that stays on the level meets a new node with every step.
LEMMA WalkAscends ==
  ASSUME NEW l \in Level, NEW N \in Nat, NEW f, f[0] = HeadNode, HeadNode \notin On(l),
         \A i \in 1 .. N : f[i] = Follower(f[i - 1], l), \A m \in On(l) : key[m] \in Int,
         \A i \in 0 .. N : f[i] \in On(l) \union {HeadNode},
         \A i \in 0 .. N : f[i] # NoNode,
         \A i \in 1 .. N : f[i] \in On(l),
         \A m \in On(l), p \in On(l) : forward[m][l] = p => key[m] < key[p]
  PROVE  \A i, j \in 0 .. N : f[i] = f[j] => i = j
<1> DEFINE T == {i \in 1 .. N : \E j \in 1 .. i - 1 : key[f[i]] <= key[f[j]]}
<1>1. T = {}
  <2> SUFFICES ASSUME T # {} PROVE FALSE
    OBVIOUS
  <2>1. PICK i \in T : \A j \in T : i <= j
    <3>1. T \in SUBSET Nat
      OBVIOUS
    <3> QED
      BY <3>1, LeastNumber
  <2>2. PICK j \in 1 .. i - 1 : key[f[i]] <= key[f[j]]
    BY <2>1
  <2>3. i - 1 \in 1 .. N /\ i - 1 \notin T
    BY <2>1, <2>2
  <2>4. key[f[i - 1]] < key[f[i]] /\ key[f[i - 1]] \in Int /\ key[f[i]] \in Int /\ key[f[j]] \in Int
    BY <2>1, <2>2, <2>3 DEF Follower
  <2>5. j # i - 1 /\ j \in 1 .. (i - 1) - 1
    BY <2>1, <2>2, <2>4
  <2> QED
    BY <2>2, <2>3, <2>4, <2>5
<1>2. \A i \in 1 .. N : \A j \in 1 .. i - 1 : f[i] # f[j]
  BY <1>1
<1>3. \A i \in 1 .. N : f[i] # f[0]
  OBVIOUS
<1>4. \A i, j \in 0 .. N : i = 0 \/ j = 0 \/ i = j \/ i \in 1 .. j - 1 \/ j \in 1 .. i - 1
  OBVIOUS
<1> QED
  BY <1>2, <1>3, <1>4

\* From the head one meets the nodes that the level chains, and no others.
LEMMA MeetsChained ==
  ASSUME IInv, LockInv, IsFiniteSet(Node), NEW l \in Level
  PROVE  OnLevel(l) = On(l)
<1> DEFINE N == Cardinality(Node)
<1>1. N \in Nat /\ Chained(l) /\ On(l) \subseteq Node
  BY FS_CardinalityType, OwnedNode DEF IInv, LockInv, On
<1>2. PICK f : /\ f[0] = HeadNode
               /\ \A i \in 1 .. N : f[i] = Follower(f[i - 1], l)
               /\ OnLevel(l) = {f[i] : i \in 1 .. N} \ {NoNode}
  BY OnLevelWalk
<1>3. /\ HeadNode # NoNode /\ NoNode \notin On(l) /\ HeadNode \notin On(l) /\ HeadNode \in Node
      /\ \A m \in On(l) : key[m] \in Int
      /\ \A m \in On(l), p \in On(l) : forward[m][l] = p => key[m] < key[p]
  <2>1. NoNode \notin owned /\ HeadNode \notin owned /\ HeadNode # NoNode /\ HeadNode \in Node
    BY OwnedNode, Basics DEF IInv
  <2>2. \A m \in owned : key[m] \in Int
    BY SkipListAssumption DEF IInv, Typed
  <2>3. \A m, p \in owned : forward[m][l] = p => key[m] < key[p]
    BY <2>1 DEF IInv, Sorted
  <2> QED
    BY <2>1, <2>2, <2>3 DEF On
<1>4. OnLevel(l) \subseteq On(l)
  BY <1>1, <1>2, WalkOn
<1>5. ASSUME NEW n \in On(l)
      PROVE  n \in OnLevel(l)
  <2>1. SUFFICES ASSUME n \notin OnLevel(l) PROVE FALSE
    OBVIOUS
  <2>2. \A i \in 1 .. N : f[i] # n
    BY <1>2, <1>3, <2>1
  <2>3. \A i \in 0 .. N : f[i] \in On(l) \union {HeadNode}
    BY <1>1, <1>2, <1>3, <2>2, WalkBefore
  <2>4. \A i \in 0 .. N : f[i] # NoNode
    BY <1>3, <2>3
  <2>5. \A i \in 1 .. N : f[i] \in On(l)
    BY <1>1, <1>2, <2>4, WalkOn
  <2>6. \A i, j \in 0 .. N : f[i] = f[j] => i = j
    BY <1>1, <1>2, <1>3, <2>3, <2>4, <2>5, WalkAscends
  <2> DEFINE g == [i \in 0 .. N |-> f[i]]
  <2>7. g \in [0 .. N -> Node]
    BY <1>1, <1>3, <2>3
  <2>8. IsFiniteSet(0 .. N) /\ Cardinality(0 .. N) = N + 1
    BY <1>1, FS_Interval
  <2>9. \E i, j \in 0 .. N : i # j /\ g[i] = g[j]
    <3> HIDE DEF g
    <3> QED
      BY <1>1, <2>7, <2>8, FS_PigeonHole
  <2> QED
    BY <2>6, <2>9
<1> QED
  BY <1>4, <1>5
\* Put links a node bottom up before it publishes it and Delete marks it before
\* it unlinks it (SkipList.hpp:87, :154), each under the predecessors' locks, so a
\* node that is fully linked and not marked is met on each of its levels.
THEOREM LiveNodesReachable == IsFiniteSet(Node) => (Spec => []LiveReachable)
<1> SUFFICES ASSUME IsFiniteSet(Node)
             PROVE  Spec => []LiveReachable
  OBVIOUS
<1>1. ASSUME IInv, LockInv
      PROVE  LiveReachable
  <2>1. ASSUME NEW n \in Live, NEW l \in 0 .. top[n]
        PROVE  n \in OnLevel(l)
    <3>1. top[n] \in Level
      BY <1>1, OwnedNode DEF IInv, Typed, Live
    <3>2. l \in Level /\ l <= top[n]
      BY <3>1, LevelsBelow, Basics
    <3> QED
      BY <1>1, <3>2, LiveOn, MeetsChained
  <2> QED
    BY <2>1 DEF LiveReachable
<1> QED
  BY <1>1, LevelsChained, PTL

\* The unlinking loop of Delete (SkipList.hpp:155) leaves the victim on no level,
\* and no concurrent insertion brings it back: a later search does not meet it.
THEOREM RemovedNodesUnreachable == IsFiniteSet(Node) => (Spec => []RemovedUnreachable)
<1> SUFFICES ASSUME IsFiniteSet(Node)
             PROVE  Spec => []RemovedUnreachable
  OBVIOUS
<1>1. ASSUME IInv, LockInv
      PROVE  RemovedUnreachable
  <2>1. ASSUME NEW n \in owned, marked[n], Unlinking(n) = {}, NEW l \in Level
        PROVE  n \notin On(l)
    BY <2>1 DEF Unlinking, On, Left
  <2> QED
    BY <1>1, <2>1, MeetsChained DEF RemovedUnreachable
<1> QED
  BY <1>1, LevelsChained, PTL

\* Linking goes up and unlinking down (SkipList.hpp:87, :155), so the nodes of a
\* level are among those of the level below and a search that descends from a
\* node finds it there.
THEOREM LevelsStayNested == IsFiniteSet(Node) => (Spec => []LevelsNested)
<1> SUFFICES ASSUME IsFiniteSet(Node)
             PROVE  Spec => []LevelsNested
  OBVIOUS
<1>1. ASSUME IInv, LockInv
      PROVE  LevelsNested
  <2>1. ASSUME NEW l \in Level \ {0}, NEW n \in On(l)
        PROVE  n \in On(l - 1)
    <3>1. l - 1 \in Level /\ l - 1 <= l /\ l \in Int
      BY SkipListAssumption DEF Level
    <3>2. Joined(n, l - 1)
      BY <1>1, <2>1, <3>1, JoinedBelow DEF On
    <3>3. \A u \in Thread : th[u].level \in Int
      BY <1>1, LocalTypes, Basics DEF IInv
    <3>4. ~ Left(n, l - 1)
      BY <2>1, <3>1, <3>3 DEF On, Left
    <3> QED
      BY <2>1, <3>2, <3>4 DEF On
  <2>2. \A l \in Level \ {0} : l - 1 \in Level
    BY SkipListAssumption DEF Level
  <2> QED
    BY <1>1, <2>1, <2>2, MeetsChained DEF LevelsNested
<1> QED
  BY <1>1, LevelsChained, PTL

-----------------------------------------------------------------------------
(* Counting the live nodes.                                                 *)

ToCount   == {t \in Thread : th[t].pc = "count"}
ToUncount == {t \in Thread : th[t].pc \in {"unlink", "uncount"}}

\* The equation of SizeExact.
Counted == size = Cardinality(Live) - Cardinality(ToCount) + Cardinality(ToUncount)

\* The sets that are counted are finite.
LEMMA CountedFinite ==
  ASSUME IInv, IsFiniteSet(Node), IsFiniteSet(Thread)
  PROVE  /\ IsFiniteSet(Live) /\ Cardinality(Live) \in Nat
         /\ IsFiniteSet(ToCount) /\ Cardinality(ToCount) \in Nat
         /\ IsFiniteSet(ToUncount) /\ Cardinality(ToUncount) \in Nat
         /\ size \in Int
<1>1. Live \in SUBSET Node /\ ToCount \in SUBSET Thread /\ ToUncount \in SUBSET Thread
  BY OwnedNode DEF IInv, Live, ToCount, ToUncount
<1>2. IsFiniteSet(Live) /\ IsFiniteSet(ToCount) /\ IsFiniteSet(ToUncount)
  BY <1>1, FS_Subset
<1> QED
  BY <1>2, FS_CardinalityType DEF IInv, Typed

\* Each call that is about to count has published a node of its own.
LEMMA CountersLive ==
  ASSUME IInv, LockInv, IsFiniteSet(Node), IsFiniteSet(Thread)
  PROVE  Cardinality(ToCount) <= Cardinality(Live)
<1> DEFINE f == [t \in ToCount |-> th[t].node]
<1>1. \A t \in ToCount : t \in Thread /\ th[t].node \in Live /\ th[t].pc \in Creating
  BY DEF ToCount, LockInv, Own, Inserting, Live, Creating
<1>2. f \in Injection(ToCount, Live)
  BY <1>1 DEF Injection, IsInjective, LockInv
<1> QED
  BY <1>2, CountedFinite, FS_Injection

\* A thread that stays away from the counting sets, and a heap with the same live
\* nodes.
LEMMA CountedKept ==
  ASSUME Counted, NEW t \in Thread, \A u \in Thread \ {t} : th'[u] = th[u],
         th'[t].pc \in {"unlink", "uncount"} <=> th[t].pc \in {"unlink", "uncount"},
         th'[t].pc = "count" <=> th[t].pc = "count",
         Live' = Live, size' = size
  PROVE  Counted'
<1>1. ToCount' = ToCount /\ ToUncount' = ToUncount
  BY DEF ToCount, ToUncount
<1> QED
  BY <1>1 DEF Counted
\* Where the steps that link, mark and count happen.
Changing == Creating \union {"unlink", "uncount"}

\* The other steps neither begin nor end there.
LEMMA LocalPc ==
  ASSUME IInv, NEW t \in Thread, LocalStep(t)
  PROVE  th[t].pc \notin Changing /\ th'[t].pc \notin Changing
<1>t. Typed /\ th \in [Thread -> ThreadState] /\ th[t] \in ThreadState
  BY DEF IInv, Typed
<1> USE DEF Changing, Creating
<1>1. CASE ScanNothing(t) \/ DeleteMiss(t) \/ Read(t) \/ ReturnWalk(t)
  BY <1>t, <1>1, ZenonT(40) DEF ScanNothing, DeleteMiss, Read, ReturnWalk, Return, Fresh, At
<1>2. CASE Start(t) \/ Advance(t) \/ PrepareDelete(t) \/ Recompute(t) \/ StepNext(t) \/ Walk(t)
           \/ Collect(t)
  BY <1>t, <1>2 DEF Start, Advance, PrepareDelete, Recompute, StepNext, Walk, Collect, At, Goto,
                    ThreadState
<1>3. CASE PrepareInsert(t)
  <2>1. PICK h \in Level : th' = [th EXCEPT ![t].pc = "lock", ![t].top = h,
                                          ![t].toLock = InsertTargets(t, h)]
    BY <1>3 DEF PrepareInsert
  <2> QED
    BY <1>t, <1>3, <2>1 DEF PrepareInsert, At, ThreadState
<1>4. CASE Reread(t) \/ Peek(t)
  <2>1. CASE Return(t, FALSE, <<>>)
    BY <1>t, <1>4, <2>1 DEF Reread, Peek, Return, Fresh
  <2>2. CASE ~ Return(t, FALSE, <<>>)
    <3>1. /\ th[t].pc \in {"reread", "peek"}
          /\ \/ th'[t] = [th[t] EXCEPT !.pc = "peek", !.node = forward[th[t].pred][0]]
             \/ th'[t] = [th[t] EXCEPT !.pc = "read"]
      BY <1>t, <1>4, <2>2 DEF Reread, Peek, Goto
    <3> QED
      BY <1>t, <3>1 DEF ThreadState
  <2> QED
    BY <2>1, <2>2
<1>5. CASE Descend(t) \/ FinishFind(t)
  <2>1. /\ th[t].pc = "find" /\ ~ Before(Current(t), th[t].request.key)
        /\ th[t].request.name \in Keyed
    BY <1>5 DEF Descend, FinishFind, IInv, LocalsOK, LocalOK
  <2>2. Record(t) \in ThreadState /\ Record(t).pc = "find"
    BY <2>1, RecordKeeps
  <2>3. CASE Descend(t)
    BY <1>t, <2>1, <2>2, <2>3 DEF Descend, ThreadState
  <2>4. CASE FinishFind(t)
    <3>1. Continuation[th[t].request.name] \in {"decide", "reread", "next"}
      BY <2>1 DEF Continuation, Keyed
    <3>2. th'[t].pc = Continuation[th[t].request.name]
      BY <1>t, <2>2, <2>4 DEF FinishFind, ThreadState
    <3> QED
      BY <2>1, <3>1, <3>2
  <2> QED
    BY <1>5, <2>3, <2>4
<1> QED
  BY <1>1, <1>2, <1>3, <1>4, <1>5 DEF LocalStep

\* Steps that neither publish nor mark a node, nor count one.
LEMMA QuietCounted ==
  ASSUME IInv, Counted, NEW t \in Thread,
         \/ Call(t) \/ LocalStep(t) \/ LockNext(t) \/ UpdateExisting(t) \/ InsertRetry(t)
         \/ DeleteRetry(t) \/ Raise(t) \/ Lower(t)
  PROVE  Counted'
<1>t. Typed /\ th \in [Thread -> ThreadState] /\ th[t] \in ThreadState
  BY DEF IInv, Typed
<1>1. UNCHANGED <<owned, linked, marked, size>>
  BY DEF Call, LocalStep, LockNext, UpdateExisting, InsertRetry, DeleteRetry, Raise, Lower, heap, counts
<1>2. CASE LocalStep(t)
  <2>1. \A u \in Thread \ {t} : th'[u] = th[u]
    BY <1>t, <1>2, LocalOthers DEF Others
  <2> QED
    BY <1>1, <1>2, <2>1, LocalPc, CountedKept DEF Live, Changing, Creating
<1>3. CASE ~ LocalStep(t)
  <2>1. \A u \in Thread \ {t} : th'[u] = th[u]
    BY <1>t, <1>3 DEF Call, LockNext, UpdateExisting, InsertRetry, DeleteRetry, Raise, Lower,
                      Return, Retry
  <2>2. th'[t].pc \in {"idle", "start", "next", "lock"}
        /\ th[t].pc \in {"idle", "decide", "lock", "raise", "lower"}
    <3>1. CASE Call(t)
      BY <1>t, <3>1 DEF Call, Fresh
    <3>2. CASE LockNext(t)
      BY <3>2 DEF LockNext
    <3>3. CASE UpdateExisting(t) \/ InsertRetry(t) \/ DeleteRetry(t) \/ Raise(t) \/ Lower(t)
      <4>1. Retry(t) \/ Return(t, TRUE, <<>>) \/ Return(t, FALSE, <<>>)
        BY <3>3 DEF UpdateExisting, InsertRetry, DeleteRetry, Raise, Lower
      <4>2. CASE Retry(t)
        BY <1>t, <3>3, <4>2 DEF Retry, Fresh, UpdateExisting, InsertRetry, DeleteRetry, Raise, Lower, Locked, At
      <4>3. CASE ~ Retry(t)
        BY <1>t, <3>3, <4>1, <4>3 DEF Return, Fresh, UpdateExisting, InsertRetry, DeleteRetry, Raise, Lower, Locked, At
      <4> QED
        BY <4>2, <4>3
    <3> QED
      BY <1>3, <3>1, <3>2, <3>3
  <2> QED
    BY <1>1, <2>1, <2>2, CountedKept DEF Live
<1> QED
  BY <1>2, <1>3

\* A new node, or one that is being linked or unlinked, does not count.
LEMMA LinkCounted ==
  ASSUME IInv, LockInv, Counted, NEW t \in Thread, Insert(t) \/ LinkLevel(t)
  PROVE  Counted'
<1>t. Typed /\ th \in [Thread -> ThreadState] /\ th[t] \in ThreadState
  BY DEF IInv, Typed
<1>1. CASE Insert(t)
  <2>1. PICK n \in Node \ (owned \union {HeadNode}) :
          /\ marked' = [marked EXCEPT ![n] = FALSE] /\ linked' = [linked EXCEPT ![n] = FALSE]
          /\ owned' = owned \union {n}
          /\ th' = [th EXCEPT ![t].pc = "link", ![t].node = n, ![t].level = 0]
    BY <1>1 DEF Insert
  <2>2. Live' = Live
    <3>1. ~ linked'[n] /\ \A m \in owned : linked'[m] = linked[m] /\ marked'[m] = marked[m]
      BY <1>t, <2>1, OwnedNode DEF Typed
    <3> QED
      BY <2>1, <3>1 DEF Live
  <2>3. /\ \A u \in Thread \ {t} : th'[u] = th[u]
        /\ th'[t].pc = "link" /\ th[t].pc = "lock"
    BY <1>t, <1>1, <2>1 DEF Insert, Locked, ThreadState
  <2>4. size' = size
    BY <1>1 DEF Insert, counts
  <2> QED
    BY <2>2, <2>3, <2>4, CountedKept
<1>2. CASE LinkLevel(t)
  <2>1. /\ \A u \in Thread \ {t} : th'[u] = th[u]
        /\ th'[t].pc \in {"link", "publish"} /\ th[t].pc = "link"
    BY <1>t, <1>2 DEF LinkLevel, Goto, ThreadState
  <2>2. Live' = Live /\ size' = size
    BY <1>2 DEF LinkLevel, Live, counts
  <2> QED
    BY <2>1, <2>2, CountedKept
<1> QED
  BY <1>1, <1>2
\* A set with one thread more or less.
LEMMA OneMore ==
  ASSUME NEW S, IsFiniteSet(S), NEW x
  PROVE  /\ Cardinality(S) \in Nat
         /\ x \notin S => Cardinality(S \union {x}) = Cardinality(S) + 1
         /\ x \in S => Cardinality(S \ {x}) = Cardinality(S) - 1
BY FS_AddElement, FS_RemoveElement, FS_CardinalityType

\* Publishing and marking move a node and a thread at once, counting one thread
\* and size_.
LEMMA CountingCounted ==
  ASSUME IInv, LockInv, Counted, IsFiniteSet(Node), IsFiniteSet(Thread), NEW t \in Thread,
         Publish(t) \/ Count(t) \/ Mark(t) \/ UnlinkLevel(t) \/ Uncount(t)
  PROVE  Counted'
<1>t. Typed /\ th \in [Thread -> ThreadState] /\ th[t] \in ThreadState
  BY DEF IInv, Typed
<1>f. /\ IsFiniteSet(Live) /\ IsFiniteSet(ToCount) /\ IsFiniteSet(ToUncount) /\ size \in Int
  BY CountedFinite
<1>1. CASE Publish(t)
  <2>1. /\ th[t].pc = "publish" /\ th'[t].pc = "count" /\ \A u \in Thread \ {t} : th'[u] = th[u]
        /\ size' = size /\ UNCHANGED <<owned, marked>>
        /\ linked' = [linked EXCEPT ![th[t].node] = TRUE]
    BY <1>t, <1>1 DEF Publish, Goto, ThreadState, counts
  <2>2. th[t].node \in owned /\ ~ marked[th[t].node] /\ ~ linked[th[t].node] /\ th[t].node \in Node
    BY <1>t, <2>1, OwnedNode DEF LockInv, Own, Inserting
  <2>3. Live' = Live \union {th[t].node} /\ th[t].node \notin Live
    <3>1. linked'[th[t].node] /\ \A m \in owned : m # th[t].node => linked'[m] = linked[m]
      BY <1>t, <2>1, <2>2, OwnedNode DEF Typed
    <3> QED
      BY <2>1, <2>2, <3>1 DEF Live
  <2>4. ToCount' = ToCount \union {t} /\ t \notin ToCount /\ ToUncount' = ToUncount
    BY <2>1 DEF ToCount, ToUncount
  <2>5. Cardinality(Live') = Cardinality(Live) + 1 /\ Cardinality(Live) \in Nat
    BY <1>f, <2>3, OneMore
  <2>6. Cardinality(ToCount') = Cardinality(ToCount) + 1 /\ Cardinality(ToCount) \in Nat
    BY <1>f, <2>4, OneMore
  <2>7. Cardinality(ToUncount') = Cardinality(ToUncount) /\ Cardinality(ToUncount) \in Nat
    BY <1>f, <2>4, OneMore
  <2> QED
    BY <1>f, <2>1, <2>5, <2>6, <2>7 DEF Counted
<1>2. CASE Count(t)
  <2>1. /\ th[t].pc = "count" /\ th'[t].pc = "raise" /\ \A u \in Thread \ {t} : th'[u] = th[u]
        /\ size' = size + 1 /\ UNCHANGED <<owned, marked, linked>>
    BY <1>t, <1>2 DEF Count, Goto, ThreadState, heap
  <2>2. ToCount' = ToCount \ {t} /\ t \in ToCount /\ ToUncount' = ToUncount /\ Live' = Live
    BY <2>1 DEF ToCount, ToUncount, Live
  <2>3. Cardinality(ToCount') = Cardinality(ToCount) - 1 /\ Cardinality(ToCount) \in Nat
    BY <1>f, <2>2, OneMore
  <2>4. Cardinality(Live) \in Nat /\ Cardinality(ToUncount) \in Nat
    BY <1>f, OneMore
  <2> QED
    BY <1>f, <2>1, <2>2, <2>3, <2>4 DEF Counted
<1>3. CASE Mark(t)
  <2>1. /\ th[t].pc = "lock" /\ th'[t].pc = "unlink" /\ \A u \in Thread \ {t} : th'[u] = th[u]
        /\ size' = size /\ UNCHANGED <<owned, linked>>
        /\ marked' = [marked EXCEPT ![th[t].node] = TRUE]
        /\ linked[th[t].node] /\ ~ marked[th[t].node]
    BY <1>t, <1>3 DEF Mark, Deletable, At, ThreadState, counts
  <2>2. th[t].node \in owned /\ th[t].node \in Node
    <3>1. th[t].node # NoNode /\ th[t].request.name = "Delete"
      BY <1>3 DEF Mark, At, IInv, LocalsOK, LocalOK
    <3> QED
      BY <1>t, <2>1, <3>1, OwnedNode DEF IInv, SearchBracketsKey, Brackets
  <2>3. Live' = Live \ {th[t].node} /\ th[t].node \in Live
    <3>1. marked'[th[t].node] /\ \A m \in owned : m # th[t].node => marked'[m] = marked[m]
      BY <1>t, <2>1, <2>2, OwnedNode DEF Typed
    <3> QED
      BY <2>1, <2>2, <3>1 DEF Live
  <2>4. ToUncount' = ToUncount \union {t} /\ t \notin ToUncount /\ ToCount' = ToCount
    BY <2>1 DEF ToCount, ToUncount
  <2>5. Cardinality(Live') = Cardinality(Live) - 1 /\ Cardinality(Live) \in Nat
    BY <1>f, <2>3, OneMore
  <2>6. Cardinality(ToUncount') = Cardinality(ToUncount) + 1 /\ Cardinality(ToUncount) \in Nat
    BY <1>f, <2>4, OneMore
  <2>7. Cardinality(ToCount') = Cardinality(ToCount) /\ Cardinality(ToCount) \in Nat
    BY <1>f, <2>4, OneMore
  <2> QED
    BY <1>f, <2>1, <2>5, <2>6, <2>7 DEF Counted
<1>4. CASE UnlinkLevel(t)
  <2>1. /\ \A u \in Thread \ {t} : th'[u] = th[u]
        /\ th'[t].pc \in {"unlink", "uncount"} /\ th[t].pc = "unlink"
    BY <1>t, <1>4 DEF UnlinkLevel, Goto, ThreadState
  <2>2. Live' = Live /\ size' = size
    BY <1>4 DEF UnlinkLevel, Live, counts
  <2> QED
    BY <2>1, <2>2, CountedKept
<1>5. CASE Uncount(t)
  <2>1. /\ th[t].pc = "uncount" /\ th'[t].pc = "recompute" /\ \A u \in Thread \ {t} : th'[u] = th[u]
        /\ size' = size - 1 /\ UNCHANGED <<owned, marked, linked>>
    BY <1>t, <1>5 DEF Uncount, ThreadState, heap
  <2>2. ToUncount' = ToUncount \ {t} /\ t \in ToUncount /\ ToCount' = ToCount /\ Live' = Live
    BY <2>1 DEF ToCount, ToUncount, Live
  <2>3. Cardinality(ToUncount') = Cardinality(ToUncount) - 1 /\ Cardinality(ToUncount) \in Nat
    BY <1>f, <2>2, OneMore
  <2>4. Cardinality(Live) \in Nat /\ Cardinality(ToCount) \in Nat
    BY <1>f, OneMore
  <2> QED
    BY <1>f, <2>1, <2>2, <2>3, <2>4 DEF Counted
<1> QED
  BY <1>1, <1>2, <1>3, <1>4, <1>5

\* With every call idle and no node owned there is nothing to count.
LEMMA EmptyCounted ==
  ASSUME owned = {}, \A t \in Thread : th[t].pc = "idle", size = 0
  PROVE  Counted
<1>1. Live = {} /\ ToCount = {} /\ ToUncount = {}
  BY DEF Live, ToCount, ToUncount
<1> QED
  BY <1>1, FS_EmptySet DEF Counted

LEMMA NextCounted ==
  ASSUME IInv, LockInv, Counted, IsFiniteSet(Node), IsFiniteSet(Thread), [Next]_vars
  PROVE  Counted'
<1>1. CASE UNCHANGED vars \/ Finished
  BY <1>1 DEF Finished, vars, Counted, Live, ToCount, ToUncount
<1>2. ASSUME NEW t \in Thread, Clear(t)
      PROVE  Counted'
  <2>1. owned' = {} /\ size' = 0 /\ \A u \in Thread : th'[u].pc = "idle"
    BY <1>2 DEF Clear, IInv, Typed, Fresh
  <2>2. Live' = {} /\ ToCount' = {} /\ ToUncount' = {}
    BY <2>1 DEF Live, ToCount, ToUncount
  <2> QED
    BY <2>1, <2>2, FS_EmptySet DEF Counted
<1>3. ASSUME NEW t \in Thread, Call(t) \/ Step(t)
      PROVE  Counted'
  BY <1>3, QuietCounted, LinkCounted, CountingCounted DEF Step, SharedStep
<1> QED
  BY <1>1, <1>2, <1>3 DEF Next

\* size_.fetch_add follows fully_linked and size_.fetch_sub follows marked
\* (SkipList.hpp:92, :161), so size_ is exactly the live nodes, less the calls
\* that have published one and more the calls that have marked one and not
\* counted it yet; and it never wraps below zero.
THEOREM SizeIsExact == IsFiniteSet(Node) /\ IsFiniteSet(Thread) => (Spec => []SizeExact)
<1> SUFFICES ASSUME IsFiniteSet(Node), IsFiniteSet(Thread)
             PROVE  Spec => []SizeExact
  OBVIOUS
<1>1. Init => Counted
  BY EmptyCounted DEF Init, Fresh
<1>2. IInv /\ LockInv /\ Counted /\ [Next]_vars => Counted'
  BY NextCounted
<1>3. ASSUME IInv, LockInv, Counted
      PROVE  SizeExact
  BY <1>3, CountedFinite, CountersLive DEF SizeExact, Counted, ToCount, ToUncount
<1> QED
  BY <1>1, <1>2, <1>3, LevelsChained, PTL DEF Spec
-----------------------------------------------------------------------------
(* What Scan and Snapshot return.                                           *)

Ascending(out) == \A i \in 1 .. Len(out) - 1 : out[i][1] < out[i + 1][1]

\* The node that a walk stands on, and what it has collected on the way: the keys
\* before the node's own, which comes last once it has been collected.
Collecting(me) ==
  me.pc \in {"next", "walk", "collect"} /\ me.node # NoNode =>
    /\ me.node \in owned \union {HeadNode}
    /\ me.pc # "next" => me.node \in owned
    /\ me.out # <<>> =>
         /\ me.node # HeadNode
         /\ me.out[Len(me.out)][1] <= key[me.node]
         /\ me.pc # "next" => me.out[Len(me.out)][1] < key[me.node]

Output(me) ==
  /\ Ascending(me.out)
  /\ me.pc \notin {"idle", "next", "walk", "collect"} => me.out = <<>>
  /\ Collecting(me)

OutputInv == \A t \in Thread : Output(th[t])

\* An output that goes on with a larger key is still ascending.
LEMMA AscendingAppend ==
  ASSUME NEW out \in Seq(Key \X Value), Ascending(out), NEW k \in Key, NEW v \in Value,
         out # <<>> => out[Len(out)][1] < k
  PROVE  /\ Ascending(Append(out, <<k, v>>)) /\ Append(out, <<k, v>>) # <<>>
         /\ Append(out, <<k, v>>)[Len(Append(out, <<k, v>>))][1] = k
<1> DEFINE a == Append(out, <<k, v>>)
<1>1. /\ Len(a) = Len(out) + 1 /\ a[Len(a)] = <<k, v>> /\ Len(out) \in Nat
      /\ \A i \in 1 .. Len(out) : a[i] = out[i]
  OBVIOUS
<1>2. a # <<>>
  BY <1>1
<1>3. ASSUME NEW i \in 1 .. Len(a) - 1
      PROVE  a[i][1] < a[i + 1][1]
  <2>1. CASE i = Len(out)
    <3>1. out # <<>> /\ a[i] = out[Len(out)] /\ a[i + 1] = <<k, v>>
      BY <1>1, <2>1
    <3> QED
      BY <3>1
  <2>2. CASE i # Len(out)
    <3>1. i \in 1 .. Len(out) - 1 /\ a[i] = out[i] /\ a[i + 1] = out[i + 1]
      BY <1>1, <2>2
    <3> QED
      BY <3>1 DEF Ascending
  <2> QED
    BY <2>1, <2>2
<1> HIDE DEF a
<1> QED
  BY <1>1, <1>2, <1>3 DEF Ascending, a

\* No step of one thread but Clear touches what the walk of another relies on.
LEMMA OutputOthers ==
  ASSUME IInv, OutputInv, NEW t \in Thread, \A u \in Thread \ {t} : th'[u] = th[u],
         owned \subseteq owned', \A n \in owned \union {HeadNode} : key'[n] = key[n],
         Output(th[t])'
  PROVE  OutputInv'
BY DEF OutputInv, Output, Collecting

\* A call that has collected nothing.
LEMMA NothingCollected ==
  ASSUME NEW t \in Thread, th'[t].out = <<>>,
         th'[t].pc \in {"next", "walk", "collect"} =>
           th'[t].pc = "next" /\ th'[t].node \in owned' \union {HeadNode}
  PROVE  Output(th[t])'
BY DEF Output, Collecting, Ascending

\* What a return leaves in the locals, and what going on somewhere else leaves.
LEMMA ReturnOutput ==
  ASSUME IInv, NEW t \in Thread, NEW ok, NEW out, Return(t, ok, out), Ascending(out)
  PROVE  Output(th[t])'
<1>1. th'[t].pc = "idle" /\ th'[t].out = out
  BY DEF IInv, Typed, Return, Fresh
<1> QED
  BY <1>1 DEF Output, Collecting

LEMMA SharedOutput ==
  ASSUME IInv, OutputInv, NEW t \in Thread, SharedStep(t) \/ Call(t)
  PROVE  OutputInv'
<1>t. Typed /\ th \in [Thread -> ThreadState] /\ th[t] \in ThreadState
  BY DEF IInv, Typed
<1>1. \A u \in Thread \ {t} : th'[u] = th[u]
  BY <1>t DEF Call, SharedStep, LockNext, UpdateExisting, InsertRetry, Insert, LinkLevel, Publish,
              Count, Raise, DeleteRetry, Mark, UnlinkLevel, Uncount, Lower, Return, Retry, Goto
<1>2. owned \subseteq owned' /\ \A n \in owned \union {HeadNode} : key'[n] = key[n]
  <2>1. CASE Insert(t)
    BY <1>t, <2>1, OwnedNode DEF Insert, Typed
  <2>2. CASE ~ Insert(t)
    BY <2>2 DEF Call, SharedStep, LockNext, UpdateExisting, InsertRetry, LinkLevel, Publish,
                Count, Raise, DeleteRetry, Mark, UnlinkLevel, Uncount, Lower, heap, content
  <2> QED
    BY <2>1, <2>2
<1>3. Output(th[t])'
  <2>1. CASE Call(t)
    <3>1. PICK r \in Work[t][calls[t] + 1] : th' = [th EXCEPT ![t] =
              IF r.name = "Snapshot" THEN [Fresh("next", r) EXCEPT !.node = HeadNode]
                                     ELSE Fresh("start", r)]
      BY <2>1 DEF Call
    <3>2. th'[t].out = <<>> /\ (th'[t].pc = "next" => th'[t].node = HeadNode)
          /\ th'[t].pc \in {"next", "start"}
      BY <1>t, <3>1 DEF Fresh
    <3> QED
      BY <3>2, NothingCollected
  <2>2. CASE Retry(t)
    <3>1. th'[t].out = <<>> /\ th'[t].pc = "start"
      BY <1>t, <2>2 DEF Retry, Fresh
    <3> QED
      BY <3>1, NothingCollected
  <2>3. CASE Return(t, TRUE, <<>>) \/ Return(t, FALSE, <<>>)
    <3>1. Ascending(<<>>)
      BY DEF Ascending
    <3> QED
      BY <2>3, <3>1, ReturnOutput
  <2>4. CASE LockNext(t) \/ Insert(t) \/ LinkLevel(t) \/ Publish(t) \/ Count(t) \/ Mark(t)
             \/ UnlinkLevel(t) \/ Uncount(t)
    <3>1. th[t].pc \in {"lock", "link", "publish", "count", "unlink", "uncount"}
      BY <2>4 DEF LockNext, Insert, LinkLevel, Publish, Count, Mark, UnlinkLevel, Uncount, Locked
    <3>2. th[t].out = <<>>
      BY <3>1 DEF OutputInv, Output
    <3>3. th'[t].out = th[t].out
          /\ th'[t].pc \in {"lock", "link", "publish", "count", "raise", "unlink", "uncount", "recompute"}
      <4>1. CASE Insert(t)
        <5>1. PICK n : th' = [th EXCEPT ![t].pc = "link", ![t].node = n, ![t].level = 0]
          BY <4>1 DEF Insert
        <5> QED
          BY <1>t, <5>1 DEF ThreadState
      <4>2. CASE ~ Insert(t)
        BY <1>t, <2>4, <4>2 DEF LockNext, LinkLevel, Publish, Count, Mark, UnlinkLevel,
                                Uncount, Goto, ThreadState
      <4> QED
        BY <4>1, <4>2
    <3> QED
      BY <3>2, <3>3, NothingCollected
  <2> QED
    BY <2>1, <2>2, <2>3, <2>4 DEF SharedStep, UpdateExisting, InsertRetry, Raise, DeleteRetry, Lower
<1> QED
  BY <1>1, <1>2, <1>3, OutputOthers
LEMMA LocalOutput ==
  ASSUME IInv, OutputInv, NEW t \in Thread, LocalStep(t)
  PROVE  OutputInv'
<1> DEFINE me == th[t]
           n  == th[t].node
<1>t. /\ Typed /\ th \in [Thread -> ThreadState] /\ th[t] \in ThreadState /\ n \in NodeOrNull
      /\ Output(th[t]) /\ LocalOK(th[t]) /\ me.out \in Seq(Key \X Value)
  BY LocalTypes DEF IInv, Typed, OutputInv, LocalsOK
<1>0. Others(t) /\ UNCHANGED <<key, top, forward, marked, linked, owned>>
  BY <1>t, LocalOthers
<1>e. Ascending(<<>>)
  BY DEF Ascending
<1>1. CASE ScanNothing(t) \/ DeleteMiss(t) \/ ReturnWalk(t)
  BY <1>t, <1>e, <1>0, <1>1, ReturnOutput, OutputOthers
     DEF ScanNothing, DeleteMiss, ReturnWalk, Others, Output
<1>2. CASE Start(t) \/ Advance(t) \/ PrepareDelete(t) \/ Recompute(t)
  <2>1. /\ th'[t].out = me.out /\ th'[t].pc \in {"find", "lock", "recompute", "lower"}
        /\ th[t].pc \in {"start", "find", "decide", "recompute"}
    BY <1>t, <1>2 DEF Start, Advance, PrepareDelete, Recompute, At, Goto, ThreadState
  <2>2. Output(th[t])'
    BY <1>t, <2>1, NothingCollected DEF Output
  <2> QED
    BY <1>0, <2>2, OutputOthers DEF Others
<1>3. CASE PrepareInsert(t)
  <2>1. PICK h : th' = [th EXCEPT ![t].pc = "lock", ![t].top = h,
                                  ![t].toLock = InsertTargets(t, h)]
    BY <1>3 DEF PrepareInsert
  <2>2. th'[t].out = me.out /\ th'[t].pc = "lock" /\ th[t].pc = "decide"
    BY <1>t, <1>3, <2>1 DEF PrepareInsert, At, ThreadState
  <2>3. Output(th[t])'
    BY <1>t, <2>2, NothingCollected DEF Output
  <2> QED
    BY <1>0, <2>3, OutputOthers DEF Others
<1>4. CASE Descend(t) \/ FinishFind(t)
  <2>1. /\ me.pc = "find" /\ ~ Before(Current(t), me.request.key) /\ me.request.name \in Keyed
    BY <1>t, <1>4 DEF Descend, FinishFind, LocalOK
  <2>2. /\ Record(t) \in ThreadState /\ Record(t).pc = "find" /\ Record(t).pred = me.pred
        /\ Record(t).out = me.out
    BY <1>t, <2>1, RecordKeeps DEF Record, ThreadState
  <2>3. CASE Descend(t)
    <3>1. th'[t].pc = "find" /\ th'[t].out = me.out
      BY <1>t, <2>2, <2>3 DEF Descend, ThreadState
    <3>2. Output(th[t])'
      BY <1>t, <2>1, <3>1, NothingCollected DEF Output
    <3> QED
      BY <1>0, <3>2, OutputOthers DEF Others
  <2>4. CASE FinishFind(t)
    <3>1. /\ th'[t].pc = Continuation[me.request.name] /\ th'[t].out = me.out
          /\ me.request.name = "Scan" => th'[t].node = me.pred
      BY <1>t, <2>2, <2>4 DEF FinishFind, ThreadState
    <3>2. me.pred \in owned \union {HeadNode}
      BY <2>1 DEF IInv, SearchBracketsKey, Brackets, Precedes
    <3>3. th'[t].pc \in {"next", "walk", "collect"} => th'[t].pc = "next" /\ me.request.name = "Scan"
      BY <2>1, <3>1 DEF Continuation, Keyed
    <3>4. Output(th[t])'
      BY <1>t, <1>0, <2>1, <3>1, <3>2, <3>3, NothingCollected DEF Output
    <3> QED
      BY <1>0, <3>4, OutputOthers DEF Others
  <2> QED
    BY <1>4, <2>3, <2>4
<1>5. CASE Reread(t) \/ Peek(t)
  <2>1. CASE Return(t, FALSE, <<>>)
    BY <1>e, <1>0, <2>1, ReturnOutput, OutputOthers DEF Others
  <2>2. CASE ~ Return(t, FALSE, <<>>)
    <3>1. /\ me.pc \in {"reread", "peek"}
          /\ \/ th'[t] = [th[t] EXCEPT !.pc = "peek", !.node = forward[th[t].pred][0]]
             \/ th'[t] = [th[t] EXCEPT !.pc = "read"]
      BY <1>t, <1>5, <2>2 DEF Reread, Peek, Goto
    <3>2. th'[t].out = me.out /\ th'[t].pc \in {"peek", "read"}
      BY <1>t, <3>1 DEF ThreadState
    <3>3. Output(th[t])'
      BY <1>t, <3>1, <3>2, NothingCollected DEF Output
    <3> QED
      BY <1>0, <3>3, OutputOthers DEF Others
  <2> QED
    BY <2>1, <2>2
<1>6. CASE Read(t)
  <2>1. Ascending(<<<<key[n], value[n]>>>>)
    BY DEF Ascending
  <2> QED
    BY <1>e, <1>0, <1>6, <2>1, ReturnOutput, OutputOthers DEF Read, Others
<1>7. CASE StepNext(t)
  <2> DEFINE m == forward[n][0]
  <2>1. /\ me.pc = "next" /\ th'[t].pc = "walk" /\ th'[t].node = m /\ th'[t].out = me.out
    BY <1>t, <1>7 DEF StepNext, ThreadState
  <2>2. n # NoNode /\ n \in owned \union {HeadNode} /\ 0 \in Level
    BY <1>t, <2>1, Basics DEF LocalOK, Output, Collecting
  <2>3. m # NoNode => m \in owned /\ m # HeadNode /\ (n # HeadNode => key[n] < key[m])
    BY <1>t, <2>2, OwnedNode DEF IInv, Sorted
  <2>4. \A i \in owned : key[i] \in Int
    BY <1>t, OwnedNode, SkipListAssumption DEF Typed
  <2>5. me.out # <<>> => me.out[Len(me.out)][1] \in Int
    <3>1. me.out # <<>> => me.out[Len(me.out)] \in Key \X Value
      BY <1>t
    <3> QED
      BY <3>1, SkipListAssumption
  <2>6. me.out # <<>> /\ m # NoNode => me.out[Len(me.out)][1] < key[m]
    BY <1>t, <2>1, <2>2, <2>3, <2>4, <2>5 DEF Output, Collecting
  <2>7. Output(th[t])'
    BY <1>t, <1>0, <2>1, <2>3, <2>4, <2>5, <2>6 DEF Output, Collecting
  <2> QED
    BY <1>0, <2>7, OutputOthers DEF Others
<1>8. CASE Walk(t)
  <2>1. /\ me.pc = "walk" /\ th'[t].pc \in {"collect", "next"} /\ th'[t].node = n
        /\ th'[t].out = me.out
    BY <1>t, <1>8 DEF Walk, Goto, ThreadState
  <2>2. Output(th[t])'
    BY <1>t, <1>0, <2>1 DEF Output, Collecting
  <2> QED
    BY <1>0, <2>2, OutputOthers DEF Others
<1>9. CASE Collect(t)
  <2>1. /\ me.pc = "collect" /\ th'[t].pc = "next" /\ th'[t].node = n
        /\ th'[t].out = IF Readable(n) THEN Append(me.out, <<key[n], value[n]>>) ELSE me.out
    BY <1>t, <1>9 DEF Collect, ThreadState
  <2>2. n # NoNode /\ n \in owned \union {HeadNode} /\ n \in Node
    BY <1>t, <2>1, Basics DEF LocalOK, Output, Collecting
  <2>3. key[n] \in Key /\ value[n] \in Value /\ key[n] \in Int
    BY <1>t, <2>2, SkipListAssumption DEF Typed
  <2>4. /\ Ascending(me.out)
        /\ me.out # <<>> => n # HeadNode /\ me.out[Len(me.out)][1] < key[n]
    BY <1>t, <2>1, <2>2 DEF Output, Collecting
  <2>5. CASE Readable(n)
    <3> DEFINE a == Append(me.out, <<key[n], value[n]>>)
    <3>2. Ascending(a) /\ a # <<>> /\ a[Len(a)][1] = key[n]
      BY <1>t, <2>3, <2>4, AscendingAppend
    <3>3. n # HeadNode
      BY <1>t, <2>1, <2>2, OwnedNode DEF Output, Collecting
    <3>4. th'[t].out = a
      BY <2>1, <2>5
    <3>5. key'[n] = key[n] /\ key[n] <= key[n] /\ owned' = owned
      BY <1>0, <2>3
    <3> HIDE DEF a
    <3>1. Output(th[t])'
      BY <2>1, <2>2, <3>2, <3>3, <3>4, <3>5 DEF Output, Collecting
    <3> QED
      BY <1>0, <3>1, OutputOthers DEF Others
  <2>6. CASE ~ Readable(n)
    <3>1. Output(th[t])'
      BY <1>t, <1>0, <2>1, <2>2, <2>3, <2>4, <2>6 DEF Output, Collecting
    <3> QED
      BY <1>0, <3>1, OutputOthers DEF Others
  <2> QED
    BY <2>5, <2>6
<1> QED
  BY <1>1, <1>2, <1>3, <1>4, <1>5, <1>6, <1>7, <1>8, <1>9 DEF LocalStep
LEMMA NextOutput ==
  ASSUME IInv, OutputInv, [Next]_vars
  PROVE  OutputInv'
<1>1. CASE UNCHANGED vars \/ Finished
  BY <1>1 DEF Finished, vars, OutputInv, Output, Collecting
<1>2. ASSUME NEW t \in Thread, Clear(t)
      PROVE  OutputInv'
  <2>1. PICK r : th' = [th EXCEPT ![t] = Fresh("idle", r)]
    BY <1>2 DEF Clear
  <2>2. /\ \A u \in Thread \ {t} : th'[u] = th[u] /\ th[u].pc = "idle"
        /\ th'[t].pc = "idle" /\ th'[t].out = <<>>
    BY <1>2, <2>1 DEF Clear, Fresh, IInv, Typed
  <2>3. Output(th[t])'
    BY <2>2, NothingCollected
  <2> QED
    BY <2>2, <2>3 DEF OutputInv, Output, Collecting
<1>3. ASSUME NEW t \in Thread, Call(t) \/ Step(t)
      PROVE  OutputInv'
  BY <1>3, SharedOutput, LocalOutput DEF Step
<1> QED
  BY <1>1, <1>2, <1>3 DEF Next

\* Scan and Snapshot (SkipList.hpp:169, :203) walk without locks, possibly over
\* nodes that are removed under them: they still return each key once, in
\* ascending order, because every pointer of every node, removed or not, leads to
\* a larger key.
THEOREM OutputIsAscending == Spec => []OutputAscending
<1>1. Init => OutputInv
  BY DEF Init, Fresh, OutputInv, Output, Collecting, Ascending
<1>2. IInv /\ OutputInv /\ [Next]_vars => OutputInv'
  BY NextOutput
<1>3. OutputInv => OutputAscending
  BY DEF OutputInv, Output, Ascending, OutputAscending
<1> QED
  BY <1>1, <1>2, <1>3, InvariantHolds, PTL DEF Spec

=============================================================================

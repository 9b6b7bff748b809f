---------------------------- MODULE KVStoreProofs ----------------------------
(***************************************************************************)
(* For all keys, values, bounds and callers: TypeOK and OnlyRestartForgets *)
(* hold of the engine under every fault; so do UnflushedIsRemembered and,  *)
(* for finitely many callers, FlushedWhenAcknowledged, as long as nothing  *)
(* kills the process.                                                      *)
(***************************************************************************)
EXTENDS KVStoreSafety, FiniteSetTheorems, WellFoundedInduction, TLAPS

-----------------------------------------------------------------------------
(* Replaying a log.                                                         *)

\* A nonempty set of positions in a sequence has a latest one.
LEMMA LatestIn ==
  ASSUME NEW n \in Nat, NEW I, I \subseteq 1 .. n, I # {}
  PROVE  Latest(I) \in I /\ \A j \in I : j <= Latest(I)
<1> DEFINE Rest == {n - i : i \in I}
<1>1. \A i \in I : i \in Nat /\ n - i \in Nat
  OBVIOUS
<1>2. Rest \subseteq Nat /\ Rest # {}
  BY <1>1
<1>3. PICK m \in Rest : \A x \in Rest : ~ (<<x, m>> \in OpToRel(<, Nat))
  BY <1>2, WFMin, NatLessThanWellFounded, Zenon
<1>4. \A x \in Rest : ~ (x < m)
  BY <1>2, <1>3 DEF OpToRel
<1>5. PICK i \in I : m = n - i
  BY <1>3
<1>6. ASSUME NEW j \in I
      PROVE  j <= i
  <2>1. n - j \in Rest
    OBVIOUS
  <2>2. ~ (n - j < n - i)
    BY <1>4, <1>5, <2>1
  <2> QED
    BY <1>1, <2>2
<1> QED
  BY <1>6 DEF Latest

\* The positions of a key's records that are replayed.
Written(l, k) == {i \in Readable(l) : l[i].key = k}

\* What a key holds after the replay.
LEMMA ReplayOf ==
  ASSUME NEW base, NEW l, NEW k \in Key
  PROVE  Replay(base, l)[k] = IF Written(l, k) = {} THEN base[k]
                              ELSE l[Latest(Written(l, k))].value
BY DEF Replay, Applied, Written

\* The last record of a key is one of them.
LEMMA LastWritten ==
  ASSUME NEW l \in Seq(Entry), NEW k \in Key, Written(l, k) # {}
  PROVE  /\ Latest(Written(l, k)) \in Written(l, k)
         /\ Latest(Written(l, k)) \in 1 .. Len(l)
<1>1. Len(l) \in Nat /\ Written(l, k) \subseteq 1 .. Len(l)
  BY DEF Written, Readable
<1> QED
  BY <1>1, LatestIn

\* What is read back of a log is a map.
LEMMA ReplayType ==
  ASSUME NEW base \in Contents, NEW l \in Seq(Entry)
  PROVE  Replay(base, l) \in Contents
<1>1. ASSUME NEW k \in Key
      PROVE  Replay(base, l)[k] \in Value \union {Absent}
  <2>1. CASE Written(l, k) = {}
    BY <2>1, ReplayOf DEF Contents
  <2>2. CASE Written(l, k) # {}
    <3>1. l[Latest(Written(l, k))] \in Entry
      BY <2>2, LastWritten
    <3>2. \A e \in Entry : e.value \in Value \union {Absent}
      BY DEF Entry, Record, Torn
    <3> QED
      BY <2>2, <3>1, <3>2, ReplayOf
  <2> QED
    BY <2>1, <2>2
<1>2. Replay(base, l) = [k \in Key |-> Replay(base, l)[k]]
  BY DEF Replay, Applied
<1> QED
  BY <1>1, <1>2 DEF Contents

\* Appending a record leaves those before it in place.
LEMMA AppendKeeps ==
  ASSUME NEW l \in Seq(Entry), NEW r \in Record
  PROVE  \A i \in 1 .. Len(l) : i \in 1 .. Len(Append(l, r)) /\ Append(l, r)[i] = l[i]
OBVIOUS

\* A map after one more record.
After(f, r) == [k \in Key |-> IF k = r.key THEN r.value ELSE f[k]]

\* An appended record is replayed last, if nothing before it is torn.
LEMMA ReplayAppend ==
  ASSUME NEW base, NEW l \in Seq(Entry), NEW r \in Record,
         \A i \in 1 .. Len(l) : l[i] # Torn
  PROVE  Replay(base, Append(l, r)) = After(Replay(base, l), r)
<1> DEFINE m == Append(l, r)
<1>1. r # Torn /\ Len(l) \in Nat /\ r.key \in Key
  BY WALAssumption DEF Record, Torn
<1>2. Len(m) = Len(l) + 1 /\ m[Len(l) + 1] = r /\ \A i \in 1 .. Len(l) : m[i] = l[i]
  OBVIOUS
<1>3. Readable(l) = 1 .. Len(l) /\ Readable(m) = 1 .. Len(l) + 1
  BY <1>1, <1>2 DEF Readable
<1> HIDE DEF m
<1>4. ASSUME NEW k \in Key, k # r.key
      PROVE  Replay(base, m)[k] = Replay(base, l)[k]
  <2>1. Written(m, k) = Written(l, k)
    BY <1>1, <1>2, <1>3, <1>4 DEF Written
  <2>2. CASE Written(l, k) = {}
    BY <2>1, <2>2, ReplayOf
  <2>3. CASE Written(l, k) # {}
    BY <1>2, <2>1, <2>3, LastWritten, ReplayOf
  <2> QED
    BY <2>2, <2>3
<1>5. Replay(base, m)[r.key] = r.value
  <2> DEFINE W == Written(m, r.key)
  <2>1. Len(l) + 1 \in W /\ W \subseteq 1 .. Len(l) + 1
    BY <1>1, <1>2, <1>3 DEF Written
  <2>2. Latest(W) \in W /\ \A j \in W : j <= Latest(W)
    BY <1>1, <2>1, LatestIn
  <2>3. Latest(W) = Len(l) + 1
    BY <1>1, <2>1, <2>2
  <2> QED
    BY <1>1, <1>2, <2>1, <2>3, ReplayOf
<1>6. Replay(base, m) = [k \in Key |-> Replay(base, m)[k]]
  BY DEF Replay, Applied
<1> QED
  BY <1>1, <1>4, <1>5, <1>6 DEF m, After

\* A log may be replayed again over what it gave: this is why a crash between
\* the rename of the snapshot and the truncation of the log does no harm.
LEMMA ReplayTwice ==
  ASSUME NEW base, NEW l \in Seq(Entry)
  PROVE  Replay(Replay(base, l), l) = Replay(base, l)
<1>1. \A k \in Key : Replay(Replay(base, l), l)[k] = Replay(base, l)[k]
  BY ReplayOf
<1> QED
  BY <1>1 DEF Replay, Applied

-----------------------------------------------------------------------------
(* Types.                                                                   *)

LEMMA IdleType == Idle \in CallState /\ Empty \in Contents /\ Idle.pc = "idle"
BY DEF Idle, CallState, Entry, Contents, Empty

LEMMA LoadedType ==
  ASSUME TypeOK, snapshot # Short
  PROVE  Loaded \in Contents
BY IdleType DEF TypeOK, Loaded

\* A crash leaves a prefix of the log, perhaps with a torn record after it.
LEMMA PerhapsTornType ==
  ASSUME NEW l \in Seq(Entry), NEW unwritten, NEW m \in PerhapsTorn(l, unwritten)
  PROVE  m \in Seq(Entry)
<1>1. Torn \in Entry
  BY DEF Entry
<1> QED
  BY <1>1 DEF PerhapsTorn

LEMMA TypeInit == Init => TypeOK
<1> SUFFICES ASSUME Init PROVE TypeOK
  OBVIOUS
<1>1. log \in Seq(Entry) /\ synced \in 0 .. Len(log)
  BY DEF Init, WALInit
<1>2. th \in [Caller -> CallState] /\ index \in Contents
  BY IdleType DEF Init
<1> QED
  BY <1>1, <1>2 DEF Init, WALInit, TypeOK

\* A step of one call changes only its own locals.
LEMMA TypeCall ==
  ASSUME TypeOK, NEW t \in Caller,
         Write(t) \/ Snapshot(t) \/ Step(t)
  PROVE  TypeOK'
<1> USE DEF TypeOK
<1>t. th \in [Caller -> CallState] /\ log \in Seq(Entry) /\ Len(log) \in Nat
  OBVIOUS
<1>1. CASE Write(t)
  <2>1. PICK r \in Record : AppendRecord(r) /\ th' = [th EXCEPT ![t].pc = "mark", ![t].record = r]
    BY <1>1 DEF Write, WriteRecord
  <2>2. r \in Entry
    BY DEF Entry
  <2>3. log' \in Seq(Entry) /\ Len(log') = Len(log) + 1
    BY <1>t, <2>1, <2>2 DEF AppendRecord
  <2>4. th' \in [Caller -> CallState]
    BY <1>t, <2>1, <2>2 DEF CallState
  <2>5. synced' = synced
    BY <1>1 DEF Write, WriteRecord
  <2>6. synced' \in 0 .. Len(log')
    BY <1>t, <2>3, <2>5
  <2> QED
    BY <1>1, <2>3, <2>4, <2>6 DEF Write, WriteRecord
<1>2. CASE Mark(t)
  <2>1. th' \in [Caller -> CallState]
    BY <1>t, <1>2 DEF Mark, Goto, CallState
  <2>2. dirty' \in {dirty, TRUE} /\ synced' \in {synced, Len(log)} /\ log' = log
    BY <1>2 DEF Mark, MarkDirty
  <2>3. dirty' \in BOOLEAN
    BY <2>2
  <2>4. synced' \in 0 .. Len(log)
    BY <1>t, <2>2
  <2> QED
    BY <1>2, <2>1, <2>2, <2>3, <2>4 DEF Mark
<1>3. CASE Apply(t)
  <2>1. th[t].record.value \in Value \union {Absent}
    BY <1>t DEF CallState, Entry, Record, Torn
  <2>2. index' \in Contents
    BY <1>3, <2>1 DEF Apply, Contents
  <2>3. th' \in [Caller -> CallState]
    BY <1>t, <1>3, IdleType DEF Apply
  <2> QED
    BY <1>3, <2>2, <2>3 DEF Apply, walVars
<1>4. CASE Snapshot(t)
  <2>1. th' \in [Caller -> CallState]
    BY <1>t, <1>4 DEF Snapshot, CallState
  <2> QED
    BY <1>4, <2>1 DEF Snapshot, walVars
<1>5. CASE Rename(t)
  <2>1. th' \in [Caller -> CallState]
    BY <1>t, <1>5 DEF Rename, Goto, CallState
  <2>2. snapshot' \in Contents \union {NoFile, Short}
    <3>1. th[t].entries \in Contents
      BY <1>t DEF CallState
    <3> QED
      BY <1>5, <3>1 DEF Rename, SnapshotFiles
  <2> QED
    BY <1>5, <2>1, <2>2 DEF Rename, walVars
<1>6. CASE SnapshotFails(t)
  <2>1. th' \in [Caller -> CallState]
    BY <1>t, <1>6, IdleType DEF SnapshotFails
  <2> QED
    BY <1>6, <2>1 DEF SnapshotFails, walVars
<1>7. CASE Reset(t)
  <2>1. th' \in [Caller -> CallState]
    BY <1>t, <1>7, IdleType DEF Reset
  <2>2. log' = <<>> /\ synced' = 0 /\ dirty' = FALSE
    BY <1>7 DEF Reset, ResetLog
  <2>3. log' \in Seq(Entry) /\ synced' \in 0 .. Len(log') /\ dirty' \in BOOLEAN
    <3>1. <<>> \in Seq(Entry) /\ 0 \in 0 .. Len(<<>>)
      OBVIOUS
    <3> QED
      BY <2>2, <3>1
  <2> QED
    BY <1>7, <2>1, <2>3 DEF Reset
<1>8. CASE ResetFails(t)
  <2>1. th' \in [Caller -> CallState]
    BY <1>t, <1>8, IdleType DEF ResetFails
  <2> QED
    BY <1>8, <1>t, <2>1 DEF ResetFails
<1> QED
  BY <1>1, <1>2, <1>3, <1>4, <1>5, <1>6, <1>7, <1>8 DEF Step

\* The steps of the background thread and of the process.
LEMMA TypeProcess ==
  ASSUME TypeOK,
         \/ SyncLoop /\ UNCHANGED kvVars
         \/ \E timed \in BOOLEAN : Start(timed)
         \/ Shutdown \/ Exit \/ Kill \/ PowerLoss
  PROVE  TypeOK'
<1>t. th \in [Caller -> CallState] /\ log \in Seq(Entry) /\ Len(log) \in Nat
  BY DEF TypeOK
<1>1. CASE SyncLoop /\ UNCHANGED kvVars
  <2>1. CASE SyncerWake
    BY <1>1, <2>1 DEF SyncerWake, AfterWake, kvVars, TypeOK
  <2>2. CASE SyncerFlush
    BY <1>1, <1>t, <2>2 DEF SyncerFlush, kvVars, TypeOK
  <2> QED
    BY <1>1, <2>1, <2>2 DEF SyncLoop
<1>2. ASSUME NEW timed \in BOOLEAN, Start(timed)
      PROVE  TypeOK'
  <2>1. CASE process' = "up" /\ snapshot # Short /\ index' = Replay(Loaded, log) /\ OpenLog(timed)
    <3>1. index' \in Contents
      BY <1>t, <2>1, LoadedType, ReplayType
    <3> QED
      BY <1>2, <2>1, <3>1 DEF Start, OpenLog, TypeOK
  <2>2. CASE process' = "refused" /\ synced' = Len(log)
               /\ UNCHANGED <<log, interval, dirty, stop, syncer, index>>
    BY <1>2, <1>t, <2>2 DEF Start, TypeOK
  <2> QED
    BY <1>2, <2>1, <2>2 DEF Start
<1>3. CASE Shutdown
  BY <1>3 DEF Shutdown, TypeOK
<1>4. CASE Exit
  BY <1>4, <1>t, IdleType DEF Exit, TypeOK
<1>5. ASSUME Vanish, log' \in Seq(Entry), synced' \in 0 .. Len(log')
      PROVE  TypeOK'
  <2>1. th' \in [Caller -> CallState]
    BY <1>5, IdleType DEF Vanish
  <2> QED
    BY <1>5, <2>1, IdleType DEF Vanish, TypeOK
<1>6. CASE Kill
  <2>1. log' \in Seq(Entry) /\ Len(log) <= Len(log')
    BY <1>6, <1>t, PerhapsTornType DEF Kill, PerhapsTorn
  <2>2. synced' \in 0 .. Len(log')
    BY <1>6, <1>t, <2>1 DEF Kill, TypeOK
  <2> QED
    BY <1>5, <1>6, <2>1, <2>2 DEF Kill
<1>7. CASE PowerLoss
  <2>1. PICK n \in synced .. Len(log) :
          log' \in PerhapsTorn(SubSeq(log, 1, n), Appending \/ n < Len(log))
    BY <1>7 DEF PowerLoss
  <2>2. SubSeq(log, 1, n) \in Seq(Entry)
    BY <1>t, <2>1 DEF TypeOK
  <2>3. log' \in Seq(Entry)
    BY <2>1, <2>2, PerhapsTornType
  <2>4. synced' \in 0 .. Len(log')
    BY <1>7, <2>3 DEF PowerLoss
  <2> QED
    BY <1>5, <1>7, <2>3, <2>4 DEF PowerLoss
<1> QED
  BY <1>1, <1>2, <1>3, <1>4, <1>6, <1>7

\* Every variable keeps its type, whatever may fail (kvstore.cpp, WAL.cpp).
THEOREM StoreTypeCorrect == Spec => []TypeOK
<1>1. ASSUME TypeOK, [Next]_vars
      PROVE  TypeOK'
  <2>1. CASE UNCHANGED vars
    BY <1>1, <2>1 DEF vars, walVars, kvVars, TypeOK
  <2>2. CASE Next
    BY <1>1, <2>2, TypeCall, TypeProcess DEF Next
  <2> QED
    BY <1>1, <2>1, <2>2
<1> QED
  BY TypeInit, <1>1, PTL DEF Spec

-----------------------------------------------------------------------------
(* The background thread.                                                   *)

\* The inductive invariant: unless it was killed, a process leaves a log that
\* is on the disk.
FlushInv ==
  /\ TypeOK
  /\ UnflushedIsRemembered
  /\ process \in {"down", "refused"} => synced = Len(log)

\* A step of a call, for any number of callers.
LEMMA FlushCall ==
  ASSUME FlushInv, NEW t \in Caller, Write(t) \/ Snapshot(t) \/ Step(t)
  PROVE  FlushInv'
<1>t. /\ TypeOK /\ TypeOK' /\ UnflushedIsRemembered
      /\ th \in [Caller -> CallState] /\ log \in Seq(Entry) /\ Len(log) \in Nat
  BY TypeCall DEF FlushInv, TypeOK
<1>1. process = "up" /\ process' = process /\ interval' = interval /\ syncer' = syncer
  BY DEF Write, WriteRecord, Snapshot, Step, Mark, Apply, Rename, SnapshotFails, Reset, ResetFails,
         At, walVars
<1>2. ASSUME UnflushedIsRemembered'
      PROVE  FlushInv'
  BY <1>t, <1>1, <1>2 DEF FlushInv
<1>3. CASE Write(t)
  <2>1. th'[t].pc = "mark"
    BY <1>3, <1>t DEF Write, WriteRecord, CallState
  <2> QED
    BY <1>2, <2>1 DEF UnflushedIsRemembered
<1>4. CASE Mark(t)
  <2>1. CASE interval
    BY <1>1, <1>2, <1>4, <2>1 DEF Mark, MarkDirty, UnflushedIsRemembered
  <2>2. CASE ~ interval
    BY <1>1, <1>2, <2>2 DEF UnflushedIsRemembered
  <2> QED
    BY <2>1, <2>2
<1>5. CASE Reset(t)
  <2>1. log' = <<>> /\ synced' = 0
    BY <1>5 DEF Reset, ResetLog
  <2>2. ~ (synced' < Len(log'))
    BY <2>1
  <2> QED
    BY <1>2, <2>2 DEF UnflushedIsRemembered
<1>6. CASE Apply(t) \/ Snapshot(t) \/ Rename(t) \/ SnapshotFails(t) \/ ResetFails(t)
  <2>1. /\ th[t].pc # "mark" /\ dirty' = dirty /\ log' = log
        /\ synced' \in {synced, Len(log)}
        /\ \A u \in Caller \ {t} : th'[u] = th[u]
    BY <1>6, <1>t DEF Apply, Snapshot, Rename, SnapshotFails, ResetFails, At, Goto, walVars
  <2>2. synced' < Len(log') => synced < Len(log)
    BY <1>t, <2>1
  <2> QED
    BY <1>1, <1>2, <1>t, <2>1, <2>2 DEF UnflushedIsRemembered
<1> QED
  BY <1>3, <1>4, <1>5, <1>6 DEF Step

\* A step of the background thread or of a process that is not killed.
LEMMA FlushProcess ==
  ASSUME FlushInv, "kill" \notin Faults,
         \/ SyncLoop /\ UNCHANGED kvVars
         \/ \E timed \in BOOLEAN : Start(timed)
         \/ Shutdown \/ Exit \/ Kill \/ PowerLoss
  PROVE  FlushInv'
<1>t. /\ TypeOK /\ TypeOK' /\ UnflushedIsRemembered
      /\ log \in Seq(Entry) /\ Len(log) \in Nat
  BY TypeProcess DEF FlushInv, TypeOK
<1>1. CASE SyncerWake /\ UNCHANGED kvVars
  BY <1>t, <1>1
     DEF SyncerWake, AfterWake, kvVars, FlushInv, UnflushedIsRemembered, TypeOK
<1>2. ASSUME synced' = Len(log), log' = log
      PROVE  FlushInv'
  <2>1. ~ (synced' < Len(log'))
    BY <1>t, <1>2
  <2> QED
    BY <1>t, <1>2, <2>1 DEF FlushInv, UnflushedIsRemembered
<1>3. CASE SyncerFlush
  BY <1>2, <1>3 DEF SyncerFlush
<1>4. CASE \E timed \in BOOLEAN : Start(timed)
  <2>1. process \in {"down", "refused"} /\ log' = log /\ synced' \in {synced, Len(log)}
    BY <1>4 DEF Start, OpenLog
  <2> QED
    BY <1>2, <2>1 DEF FlushInv
<1>5. CASE Shutdown
  BY <1>t, <1>5 DEF Shutdown, FlushInv, UnflushedIsRemembered
<1>6. CASE Exit
  BY <1>2, <1>6 DEF Exit
<1>7. CASE Kill
  BY <1>7 DEF Kill
<1>8. CASE PowerLoss
  <2>1. process' = "down" /\ synced' = Len(log')
    BY <1>8 DEF PowerLoss, Vanish
  <2> QED
    BY <1>t, <2>1 DEF FlushInv, UnflushedIsRemembered
<1> QED
  BY <1>1, <1>3, <1>4, <1>5, <1>6, <1>7, <1>8 DEF SyncLoop

\* Unless the process is killed, a record that is not on the disk is never
\* forgotten by the thread that flushes, whatever the number of callers
\* (WAL.cpp MarkDirty, SyncLoop, StopSyncThread, Reset).
THEOREM UnflushedIsRememberedHolds ==
  "kill" \notin Faults => (Spec => []UnflushedIsRemembered)
<1> SUFFICES ASSUME "kill" \notin Faults PROVE Spec => []UnflushedIsRemembered
  OBVIOUS
<1>1. Init => FlushInv
  BY TypeInit DEF Init, WALInit, FlushInv, UnflushedIsRemembered
<1>2. ASSUME FlushInv, [Next]_vars
      PROVE  FlushInv'
  <2>1. CASE UNCHANGED vars
    BY <1>2, <2>1 DEF vars, walVars, kvVars, FlushInv, UnflushedIsRemembered, TypeOK
  <2>2. CASE Next
    BY <1>2, <2>2, FlushCall, FlushProcess DEF Next
  <2> QED
    BY <1>2, <2>1, <2>2
<1>3. FlushInv => UnflushedIsRemembered
  BY DEF FlushInv
<1> QED
  BY <1>1, <1>2, <1>3, PTL DEF Spec

\* A step that is not such a restart.
LEMMA RememberStep ==
  ASSUME TypeOK, UnflushedIsRemembered, Next,
         ~ (process # "up" /\ process' = "up" /\ log' = log)
  PROVE  UnflushedIsRemembered'
<1>t. Len(log) \in Nat
  BY DEF TypeOK
<1>1. CASE \E t \in Caller : Write(t) \/ Snapshot(t) \/ Step(t)
  <2>1. process = "up"
    BY <1>1 DEF Write, WriteRecord, Snapshot, Step, Mark, Apply, Rename, SnapshotFails,
                Reset, ResetFails, At
  <2>2. FlushInv
    BY <2>1 DEF FlushInv
  <2> QED
    BY <1>1, <2>2, FlushCall DEF FlushInv
<1>2. CASE SyncerWake /\ UNCHANGED kvVars
  BY <1>2 DEF SyncerWake, AfterWake, kvVars, UnflushedIsRemembered, TypeOK
<1>3. CASE synced' = Len(log) /\ log' = log
  BY <1>t, <1>3 DEF UnflushedIsRemembered
<1>4. CASE Shutdown
  BY <1>4 DEF Shutdown, UnflushedIsRemembered
<1>5. CASE process' \in {"down", "refused"}
  BY <1>5 DEF UnflushedIsRemembered
<1> QED
  BY <1>1, <1>2, <1>3, <1>4, <1>5
     DEF Next, SyncLoop, SyncerFlush, Start, OpenLog, Exit, Kill, PowerLoss, Vanish

\* Kills included, only a restart on a log it did not write makes the process
\* forget records that are not on the disk (WAL.cpp:311, MarkDirty, SyncLoop).
THEOREM OnlyRestartForgetsHolds == Spec => OnlyRestartForgets
<1>1. ASSUME TypeOK, [Next]_vars
      PROVE  [UnflushedIsRemembered /\ ~ UnflushedIsRemembered' =>
                process # "up" /\ process' = "up" /\ log' = log]_vars
  BY <1>1, RememberStep
<1> QED
  BY <1>1, StoreTypeCorrect, PTL DEF Spec, OnlyRestartForgets

-----------------------------------------------------------------------------
(* What was acknowledged.                                                   *)

Marking == {t \in Caller : th[t].pc = "mark"}

\* The inductive invariant: unless it was killed, a process leaves a log that
\* is on the disk, and the next one finds it there.
SyncInv ==
  /\ TypeOK
  /\ FlushedWhenAcknowledged
  /\ process \in {"down", "refused"} => synced = Len(log)

\* A thread that comes to mark its record is one more; the others are as many
\* as before.
LEMMA MarkingCount ==
  ASSUME TypeOK, TypeOK', IsFiniteSet(Caller), NEW t \in Caller,
         \A u \in Caller \ {t} : th'[u].pc = th[u].pc
  PROVE  /\ Cardinality(Marking) \in Nat /\ Cardinality(Marking') \in Nat
         /\ th[t].pc # "mark" /\ th'[t].pc # "mark" => Cardinality(Marking') = Cardinality(Marking)
         /\ th[t].pc # "mark" /\ th'[t].pc = "mark" =>
              Cardinality(Marking') = Cardinality(Marking) + 1
<1>1. Marking \in SUBSET Caller /\ Marking' \in SUBSET Caller
  BY DEF Marking
<1>2. IsFiniteSet(Marking) /\ IsFiniteSet(Marking')
  BY <1>1, FS_Subset
<1>3. CASE th[t].pc # "mark" /\ th'[t].pc # "mark"
  <2>1. Marking' = Marking
    BY <1>3 DEF Marking
  <2> QED
    BY <1>2, <1>3, <2>1, FS_CardinalityType
<1>4. CASE th[t].pc # "mark" /\ th'[t].pc = "mark"
  <2>1. Marking' = Marking \union {t} /\ t \notin Marking
    BY <1>4 DEF Marking
  <2> QED
    BY <1>2, <1>4, <2>1, FS_CardinalityType, FS_AddElement
<1> QED
  BY <1>2, <1>3, <1>4, FS_CardinalityType

\* A step of a call, for any number of callers.
LEMMA SyncCall ==
  ASSUME SyncInv, IsFiniteSet(Caller), NEW t \in Caller, Write(t) \/ Snapshot(t) \/ Step(t)
  PROVE  SyncInv'
<1>t. /\ TypeOK /\ TypeOK' /\ th \in [Caller -> CallState]
      /\ log \in Seq(Entry) /\ Len(log) \in Nat /\ synced \in Nat /\ synced <= Len(log)
  BY TypeCall DEF SyncInv, TypeOK
<1>1. process = "up" /\ process' = process /\ interval' = interval
  BY DEF Write, WriteRecord, Snapshot, Step, Mark, Apply, Rename, SnapshotFails, Reset, ResetFails,
         At, walVars
<1>2. \A u \in Caller \ {t} : th'[u].pc = th[u].pc
  BY <1>t DEF Write, WriteRecord, Snapshot, Step, Mark, Apply, Rename, SnapshotFails, Reset,
              ResetFails, Goto
<1>3. /\ Cardinality(Marking) \in Nat /\ Cardinality(Marking') \in Nat
      /\ th[t].pc # "mark" /\ th'[t].pc # "mark" => Cardinality(Marking') = Cardinality(Marking)
      /\ th[t].pc # "mark" /\ th'[t].pc = "mark" =>
              Cardinality(Marking') = Cardinality(Marking) + 1
  BY <1>t, <1>2, MarkingCount
<1>4. SUFFICES ASSUME ~ interval
               PROVE  Len(log') - synced' <= Cardinality(Marking')
  BY <1>t, <1>1 DEF SyncInv, FlushedWhenAcknowledged, Marking
<1>5. Len(log) - synced <= Cardinality(Marking)
  BY <1>1, <1>4 DEF SyncInv, FlushedWhenAcknowledged, Marking
<1>6. CASE Write(t)
  <2>1. th[t].pc # "mark" /\ th'[t].pc = "mark" /\ synced' = synced
    BY <1>6, <1>t DEF Write, WriteRecord, At, CallState
  <2>2. PICK r \in Record : log' = Append(log, r)
    BY <1>6 DEF Write, WriteRecord, AppendRecord
  <2>3. Len(log') = Len(log) + 1
    BY <1>t, <2>2 DEF Entry
  <2> QED
    BY <1>t, <1>3, <1>5, <2>1, <2>3
<1>7. CASE Mark(t)
  <2>1. synced' = Len(log) /\ log' = log
    BY <1>4, <1>7 DEF Mark, MarkDirty
  <2> QED
    BY <1>t, <1>3, <2>1
<1>8. CASE Reset(t)
  <2>1. Len(log') = 0 /\ synced' = 0
    BY <1>8 DEF Reset, ResetLog
  <2> QED
    BY <1>3, <2>1
<1>9. CASE Apply(t) \/ Snapshot(t) \/ Rename(t) \/ SnapshotFails(t) \/ ResetFails(t)
  <2>1. th[t].pc # "mark" /\ th'[t].pc # "mark" /\ log' = log /\ synced' \in {synced, Len(log)}
    BY <1>9, <1>t, IdleType
       DEF Apply, Snapshot, Rename, SnapshotFails, ResetFails, At, Goto, walVars, CallState
  <2> QED
    BY <1>t, <1>3, <1>5, <2>1
<1> QED
  BY <1>6, <1>7, <1>8, <1>9 DEF Step

\* A step of the background thread or of a process that is not killed.
LEMMA SyncProcess ==
  ASSUME SyncInv, IsFiniteSet(Caller), "kill" \notin Faults,
         \/ SyncLoop /\ UNCHANGED kvVars
         \/ \E timed \in BOOLEAN : Start(timed)
         \/ Shutdown \/ Exit \/ Kill \/ PowerLoss
  PROVE  SyncInv'
<1>t. TypeOK /\ TypeOK' /\ log \in Seq(Entry) /\ Len(log) \in Nat
  BY TypeProcess DEF SyncInv, TypeOK
<1>1. ASSUME synced' = Len(log')
      PROVE  SyncInv'
  <2>1. Cardinality(Marking') \in Nat
    <3>1. Marking' \in SUBSET Caller
      BY DEF Marking
    <3> QED
      BY <3>1, FS_Subset, FS_CardinalityType
  <2>2. Len(log') - synced' = 0
    BY <1>t, <1>1 DEF TypeOK
  <2> QED
    BY <1>t, <1>1, <2>1, <2>2 DEF SyncInv, FlushedWhenAcknowledged, Marking
<1>2. CASE SyncerWake /\ UNCHANGED kvVars
  BY <1>t, <1>2 DEF SyncerWake, kvVars, SyncInv, FlushedWhenAcknowledged
<1>3. CASE SyncerFlush
  BY <1>1, <1>3 DEF SyncerFlush
<1>4. CASE \E timed \in BOOLEAN : Start(timed)
  <2>1. process \in {"down", "refused"} /\ log' = log /\ synced' \in {synced, Len(log)}
    BY <1>4 DEF Start, OpenLog
  <2> QED
    BY <1>1, <2>1 DEF SyncInv
<1>5. CASE Shutdown
  BY <1>t, <1>5 DEF Shutdown, SyncInv, FlushedWhenAcknowledged
<1>6. CASE Exit
  BY <1>1, <1>6 DEF Exit
<1>7. CASE Kill
  BY <1>7 DEF Kill
<1>8. CASE PowerLoss
  BY <1>1, <1>8 DEF PowerLoss
<1> QED
  BY <1>2, <1>3, <1>4, <1>5, <1>6, <1>7, <1>8 DEF SyncLoop

\* Unless the process is killed, in the mode that flushes every write no more
\* records are missing on the disk than there are callers whose write has not
\* returned, whatever their number (WAL.cpp MarkDirty, Reset, kvstore.cpp Put).
THEOREM FlushedWhenAcknowledgedHolds ==
  IsFiniteSet(Caller) /\ "kill" \notin Faults => (Spec => []FlushedWhenAcknowledged)
<1> SUFFICES ASSUME IsFiniteSet(Caller), "kill" \notin Faults
             PROVE  Spec => []FlushedWhenAcknowledged
  OBVIOUS
<1>1. Init => SyncInv
  BY TypeInit DEF Init, WALInit, SyncInv, FlushedWhenAcknowledged
<1>2. ASSUME SyncInv, [Next]_vars
      PROVE  SyncInv'
  <2>1. CASE UNCHANGED vars
    BY <1>2, <2>1 DEF vars, walVars, kvVars, SyncInv, FlushedWhenAcknowledged, TypeOK
  <2>2. CASE Next
    BY <1>2, <2>2, SyncCall, SyncProcess DEF Next
  <2> QED
    BY <1>2, <2>1, <2>2
<1>3. SyncInv => FlushedWhenAcknowledged
  BY DEF SyncInv
<1> QED
  BY <1>1, <1>2, <1>3, PTL DEF Spec

=============================================================================

------------------------------ MODULE KVStore ------------------------------
(***************************************************************************)
(* The engine of src/kvstore.cpp: the index in memory, the log, the        *)
(* snapshot file, and what a restart makes of them.  The index is a map    *)
(* here; module SkipList models what is behind it.                         *)
(***************************************************************************)
EXTENDS WAL

CONSTANTS
  Caller,  \* the threads that call the store
  Faults,  \* which of "kill", "power", "torn", "full disk" may happen
  Checkpoints,  \* whether the callers ask for checkpoints
  NoFile, Short,   \* no snapshot file; one that ends too early
  MaxLog   \* bound: records in the log

Contents == [Key -> Value \union {Absent}]
Empty    == [k \in Key |-> Absent]

ASSUME KVStoreAssumption ==
  /\ NoFile \notin Contents /\ Short \notin Contents /\ NoFile # Short
  /\ Faults \subseteq {"kill", "power", "torn", "full disk"}
  /\ Checkpoints \in BOOLEAN /\ MaxLog \in Nat

VARIABLES
  index,     \* the skip list, as a map
  snapshot,  \* the snapshot file
  process,   \* "down", "up", "stopping", or "refused" by a failing recovery
  th         \* the call of each thread: where it is, the record it writes or
             \* the entries it took from the index

kvVars == <<index, snapshot, process, th>>
vars   == <<walVars, kvVars>>

Idle == [pc |-> "idle", record |-> Torn, entries |-> Empty]
At(t, pc) == process = "up" /\ th[t].pc = pc
Goto(t, pc) == th' = [th EXCEPT ![t].pc = pc]
Quiet == \A t \in Caller : th[t].pc = "idle"

Init ==
  /\ WALInit
  /\ index = Empty /\ snapshot = NoFile
  /\ process = "down"
  /\ th = [t \in Caller |-> Idle]

-----------------------------------------------------------------------------
(* Put and Delete: append, flush or mark dirty, then change the index.      *)

WriteRecord(t, r) ==
  /\ At(t, "idle") /\ Len(log) < MaxLog
  /\ AppendRecord(r) /\ th' = [th EXCEPT ![t].pc = "mark", ![t].record = r]
  /\ UNCHANGED <<synced, interval, dirty, stop, syncer, index, snapshot, process>>

Write(t) == \E r \in Record : WriteRecord(t, r)

Mark(t) ==
  /\ At(t, "mark")
  /\ MarkDirty
  /\ Goto(t, "apply")
  /\ UNCHANGED <<log, interval, stop, syncer, index, snapshot, process>>

Apply(t) ==
  /\ At(t, "apply")
  /\ index' = [index EXCEPT ![th[t].record.key] = th[t].record.value]
  /\ th' = [th EXCEPT ![t] = Idle]
  /\ UNCHANGED <<walVars, snapshot, process>>

-----------------------------------------------------------------------------
(* Checkpoint.                                                              *)

Snapshot(t) ==
  /\ At(t, "idle") /\ Checkpoints
  /\ th' = [th EXCEPT ![t].pc = "rename", ![t].entries = index]
  /\ UNCHANGED <<walVars, index, snapshot, process>>

\* Of what cannot be written, only what close() is left to write goes unnoticed.
SnapshotFiles(t) ==
  {th[t].entries} \union (IF "full disk" \in Faults THEN {Short} ELSE {})

\* Mutant: the result of rename() is not looked at.
RenameUnchecked(t) ==
  /\ At(t, "rename")
  /\ snapshot' \in SnapshotFiles(t) \union {snapshot}
  /\ Goto(t, "reset")
  /\ UNCHANGED <<walVars, index, process>>

\* The temporary file is written and takes the place of the snapshot.
Rename(t) ==
  /\ At(t, "rename")
  /\ snapshot' \in SnapshotFiles(t)
  /\ Goto(t, "reset")
  /\ UNCHANGED <<walVars, index, process>>

\* The temporary file cannot be opened, written or renamed.
SnapshotFails(t) ==
  /\ At(t, "rename")
  /\ th' = [th EXCEPT ![t] = Idle]
  /\ UNCHANGED <<walVars, index, snapshot, process>>

Reset(t) ==
  /\ At(t, "reset")
  /\ ResetLog
  /\ th' = [th EXCEPT ![t] = Idle]
  /\ UNCHANGED <<interval, stop, syncer, index, snapshot, process>>

\* The log, flushed or not, cannot be truncated.
ResetFails(t) ==
  /\ At(t, "reset")
  /\ synced' \in {synced, Len(log)}
  /\ th' = [th EXCEPT ![t] = Idle]
  /\ UNCHANGED <<log, interval, dirty, stop, syncer, index, snapshot, process>>

-----------------------------------------------------------------------------
(* The life of the process.                                                 *)

\* Mutant: recovery reads the log alone.
LoadedNothing == Empty

\* What LoadSnapshotFile leaves in the index.
Loaded == IF snapshot = NoFile THEN Empty ELSE snapshot

\* Recovery loads the snapshot and replays the log over it; it may throw.
Start(timed) ==
  /\ process \in {"down", "refused"}
  /\ \/ /\ snapshot # Short
        /\ process' = "up"
        /\ index' = Replay(Loaded, log)
        /\ OpenLog(timed)
     \/ /\ snapshot = Short \/ ReplayMayThrow(log)
        /\ process' = "refused" /\ synced' = Len(log)
        /\ UNCHANGED <<log, interval, dirty, stop, syncer, index>>
  /\ UNCHANGED <<snapshot, th>>

\* ~WAL: ask the background thread to end, wait for it, flush.
Shutdown ==
  /\ process = "up" /\ Quiet
  /\ process' = "stopping" /\ stop' = TRUE
  /\ UNCHANGED <<log, synced, interval, dirty, syncer, index, snapshot, th>>

Exit ==
  /\ process = "stopping" /\ syncer = "none"
  /\ process' = "down" /\ synced' = Len(log) /\ index' = Empty
  /\ UNCHANGED <<log, interval, dirty, stop, syncer, snapshot, th>>

Vanish ==
  /\ process \in {"up", "stopping"}
  /\ process' = "down" /\ index' = Empty
  /\ th' = [t \in Caller |-> Idle] /\ syncer' = "none"
  /\ UNCHANGED <<interval, dirty, stop, snapshot>>

\* The log with, perhaps, the first bytes of one more record.
PerhapsTorn(l, unwritten) ==
  {l} \union (IF "torn" \in Faults /\ unwritten /\ Len(l) < MaxLog
             THEN {Append(l, Torn)} ELSE {})

Appending == \E t \in Caller : At(t, "idle")

\* The process is killed, or an exception leaves Put or Delete and ends it, with
\* a flush when the stack is unwound.
Kill ==
  /\ "kill" \in Faults
  /\ log' \in PerhapsTorn(log, Appending)
  /\ synced' \in {synced, Len(log')}
  /\ Vanish

\* The machine loses power: of the log, some prefix with all that was flushed
\* stays.  Not modelled once there is a snapshot, which is never flushed.
PowerLoss ==
  /\ "power" \in Faults /\ snapshot = NoFile
  /\ \E n \in synced .. Len(log) :
       log' \in PerhapsTorn(SubSeq(log, 1, n), Appending \/ n < Len(log))
  /\ synced' = Len(log')
  /\ Vanish

-----------------------------------------------------------------------------
Step(t) ==
  \/ Mark(t) \/ Apply(t)
  \/ Rename(t) \/ SnapshotFails(t) \/ Reset(t) \/ ResetFails(t)

Next ==
  \/ \E t \in Caller : Write(t) \/ Snapshot(t) \/ Step(t)
  \/ SyncLoop /\ UNCHANGED kvVars
  \/ \E timed \in BOOLEAN : Start(timed)
  \/ Shutdown \/ Exit \/ Kill \/ PowerLoss

Spec == Init /\ [][Next]_vars

\* Threads in the middle of something are scheduled; the background thread's
\* wait ends after the interval; a destructor that was begun goes on.
FairSpec ==
  /\ Spec
  /\ \A t \in Caller : WF_vars(Step(t))
  /\ WF_vars(SyncLoop /\ UNCHANGED kvVars) /\ WF_vars(Exit)

=============================================================================

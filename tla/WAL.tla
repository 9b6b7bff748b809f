-------------------------------- MODULE WAL --------------------------------
(***************************************************************************)
(* The write-ahead log of src/WAL.cpp: the file, the part of it that has   *)
(* reached the disk, and the background thread that flushes it.            *)
(*                                                                         *)
(* append_mutex_ covers one append, one flush of the background thread or  *)
(* one reset, so each of these is a single step.                           *)
(***************************************************************************)
EXTENDS Integers, Sequences, FiniteSets

CONSTANTS
  Key, Value,
  Absent,   \* what a key that is not there holds
  NoKey     \* the key of an incomplete record

ASSUME WALAssumption == NoKey \notin Key /\ Absent \notin Value

\* RecordType kPut and kDelete; a record of which only some bytes were written.
Record == [key : Key, value : Value \union {Absent}]
Torn   == [key |-> NoKey, value |-> Absent]

VARIABLES
  log,       \* the records in the file, in order
  synced,    \* how many of them are on the disk for sure
  interval,  \* sync_interval_ms_ > 0
  dirty,     \* dirty_
  stop,      \* stop_sync_
  syncer     \* the background thread: "none", "wait", or about to flush and
             \* then to wait again ("sync") or to end ("last")

walVars == <<log, synced, interval, dirty, stop, syncer>>

WALInit ==
  /\ log = <<>> /\ synced = 0
  /\ interval = FALSE /\ dirty = FALSE /\ stop = FALSE /\ syncer = "none"

-----------------------------------------------------------------------------
(* Reading the log back.                                                    *)

\* The records before the first incomplete one.
Readable(l) == {i \in 1 .. Len(l) : \A j \in 1 .. i : l[j] # Torn}

Latest(I) == CHOOSE i \in I : \A j \in I : j <= i

\* What base becomes when the chosen records of l are applied in order.
Applied(base, l, chosen) ==
  [k \in Key |->
     LET I == {i \in chosen : l[i].key = k} IN
     IF I = {} THEN base[k] ELSE l[Latest(I)].value]

Replay(base, l) == Applied(base, l, Readable(l))

\* Bytes after an incomplete record are read as its missing bytes: the replay
\* stops there, or finds a bad magic, type or checksum and throws.
ReplayMayThrow(l) == \E i \in 1 .. Len(l) - 1 : l[i] = Torn

-----------------------------------------------------------------------------
(* Operations.                                                              *)

AppendRecord(r) == log' = Append(log, r)

\* Mutants: the flush is left to the background thread in every mode; nothing
\* is marked, as if the thread always flushed.
MarkOnly  == dirty' = TRUE /\ UNCHANGED synced
FlushOnly == synced' = (IF interval THEN synced ELSE Len(log)) /\ UNCHANGED dirty
MarkDirty ==
  IF interval THEN dirty' = TRUE /\ UNCHANGED synced
              ELSE synced' = Len(log) /\ UNCHANGED dirty

\* Mutant: what was flushed before still counts.
ResetFileOnly == log' = <<>> /\ dirty' = FALSE /\ UNCHANGED synced
ResetLog == log' = <<>> /\ synced' = 0 /\ dirty' = FALSE

\* Mutants: the thread that is told to stop leaves its last flush, or its stop,
\* undone.
LeaveAtOnce == IF stop THEN "none" ELSE IF dirty THEN "sync" ELSE "wait"
NeverLeave  == IF dirty THEN "sync" ELSE "wait"

\* The background thread wakes up: what it does after it has taken dirty_ and
\* looked at stop_sync_.
AfterWake ==
  CASE dirty /\ stop   -> "last"
    [] dirty /\ ~ stop -> "sync"
    [] ~ dirty /\ stop -> "none"
    [] OTHER           -> "wait"

SyncerWake ==
  /\ syncer = "wait"
  /\ dirty' = FALSE
  /\ syncer' = AfterWake
  /\ UNCHANGED <<log, synced, interval, stop>>

SyncerFlush ==
  /\ syncer \in {"sync", "last"}
  /\ synced' = Len(log)
  /\ syncer' = IF syncer = "last" THEN "none" ELSE "wait"
  /\ UNCHANGED <<log, interval, dirty, stop>>

SyncLoop == SyncerWake \/ SyncerFlush

\* The constructor, on whatever file is there.
OpenLog(timed) ==
  /\ interval' = timed
  /\ syncer' = IF timed THEN "wait" ELSE "none"
  /\ dirty' = FALSE /\ stop' = FALSE
  /\ UNCHANGED <<log, synced>>

=============================================================================

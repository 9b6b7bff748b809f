---------------------------- MODULE KVStoreSafety ----------------------------
(* What must hold of the engine and its log.                                *)
EXTENDS KVStore

Entry == Record \union {Torn}
CallState == [pc : {"idle", "mark", "apply", "rename", "reset"},
              record : Entry, entries : Contents]

\* Every variable has its type.
TypeOK ==
  /\ log \in Seq(Entry)
  /\ synced \in 0 .. Len(log)
  /\ interval \in BOOLEAN /\ dirty \in BOOLEAN /\ stop \in BOOLEAN
  /\ syncer \in {"none", "wait", "sync", "last"}
  /\ index \in Contents /\ snapshot \in Contents \union {NoFile, Short}
  /\ process \in {"down", "up", "stopping", "refused"}
  /\ th \in [Caller -> CallState]

-----------------------------------------------------------------------------
Whole == \A i \in 1 .. Len(log) : log[i] # Torn

\* Records in the log that the index does not have yet.
InFlight(t) == th[t].pc \in {"mark", "apply"}

\* With one caller, at every instant, the half-done checkpoints included, a
\* restart would find what the index holds and the write in progress, as long
\* as no record is torn (kvstore.cpp Put, Delete, Checkpoint and recovery).
IndexMatchesDisk ==
  process \in {"up", "stopping"} /\ Whole =>
    Replay(Loaded, log) =
      [k \in Key |-> IF \E t \in Caller : InFlight(t) /\ th[t].record.key = k
                     THEN th[CHOOSE t \in Caller : InFlight(t)].record.value
                     ELSE index[k]]

\* In the mode that flushes every write, only writes that have not returned can
\* be lost with the power (WAL.cpp MarkDirty).
FlushedWhenAcknowledged ==
  process = "up" /\ ~ interval =>
    Len(log) - synced <= Cardinality({t \in Caller : th[t].pc = "mark"})

\* In the other mode, what is not flushed yet is never forgotten: the flag is
\* set, or will be, or the thread that took it is about to flush (WAL.cpp
\* MarkDirty and SyncLoop, which clears dirty_ before it flushes).
UnflushedIsRemembered ==
  process \in {"up", "stopping"} /\ interval /\ synced < Len(log) =>
    \/ dirty \/ syncer \in {"sync", "last"}
    \/ \E t \in Caller : th[t].pc = "mark"

\* Kills included: records that are neither flushed nor remembered come from the
\* log that a restart found, where they count as clean, and from nothing else; so
\* once the first write has marked the log, all of them are flushed with it
\* (WAL.cpp:311 dirty_(false), MarkDirty and SyncLoop).
OnlyRestartForgets ==
  [][UnflushedIsRemembered /\ ~ UnflushedIsRemembered' =>
       process # "up" /\ process' = "up" /\ log' = log]_vars

\* Every record reaches the disk while the process lives, even if nothing else
\* is written (WAL.cpp SyncLoop).
RecordsReachDisk ==
  \A n \in 1 .. MaxLog :
    (process = "up" /\ synced < n /\ n <= Len(log)) ~>
      (synced >= n \/ Len(log) < n \/ process = "down")

\* A destructor that waits for the background thread returns (WAL.cpp
\* StopSyncThread and SyncLoop).
ShutdownEnds == process = "stopping" ~> process = "down"

-----------------------------------------------------------------------------
Restarts == process \in {"down", "refused"} /\ process' # process

\* docs/request_flow.md:83 "incomplete tail records are skipped": a restart
\* succeeds and applies every complete record.
RestartSkipsTornTail ==
  [][Restarts =>
       /\ process' = "up"
       /\ index' = Applied(Loaded, log, {i \in 1 .. Len(log) : log[i] # Torn})]_vars

\* docs/protocol_reference.md:234 "after a successful snapshot the log is
\* truncated": a log is only truncated when the snapshot has its contents.
TruncatesOnlyAfterSnapshot ==
  [][log # <<>> /\ log' = <<>> /\ process = "up" => Loaded = index]_vars

=============================================================================

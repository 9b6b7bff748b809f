-------------------------- MODULE KVStoreRefinement --------------------------
(* The engine with one caller implements DurableStore.                      *)
EXTENDS KVStoreSafety

CONSTANT c1
ASSUME OneCaller == Caller = {c1}

\* Without a snapshot the power may fail: any longer prefix of the log than the
\* flushed one may be what is left.  With one, what is in the file counts.
FirstKept == IF snapshot = NoFile THEN synced ELSE Len(log)

Kept == [i \in 1 .. Len(log) - FirstKept + 1 |->
           Replay(Loaded, SubSeq(log, 1, FirstKept + i - 1))]

Running == process \in {"up", "stopping"}

Abstract == INSTANCE DurableStore WITH
  kept    <- Kept,
  visible <- index,
  writing <- IF InFlight(c1) THEN {<<th[c1].record.key, th[c1].record.value>>} ELSE {},
  running <- Running,
  damaged <- ~ Whole

\* Every behaviour of the engine is one of the durable store: acknowledged
\* writes survive kills, power failures lose only unflushed suffixes, and a
\* checkpoint changes nothing (kvstore.cpp, WAL.cpp).
RefinesDurableStore == Abstract!Spec

=============================================================================

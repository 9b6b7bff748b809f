---------------------------- MODULE DurableStore ----------------------------
(***************************************************************************)
(* What the engine promises about restarts to its one caller.  A write is  *)
(* kept when the process is killed, and lost with the power only together  *)
(* with every write after it, unless it has been flushed.                  *)
(*                                                                         *)
(* The promise has a gap.  A crash may leave an incomplete record in the   *)
(* log.  The writes made after the next restart are then not kept at all,  *)
(* or keep the store from starting, until a checkpoint has succeeded.      *)
(***************************************************************************)
EXTENDS Integers, Sequences

CONSTANTS Key, Value, Absent

VARIABLES
  kept,     \* what a restart may find: from what is surely on the disk, the
            \* first, to what has been written, the last
  visible,  \* what Get and Scan show
  writing,  \* the write in progress
  running,
  damaged   \* there is an incomplete record in the log

vars == <<kept, visible, writing, running, damaged>>

Empty == [k \in Key |-> Absent]
None  == {}
Last  == kept[Len(kept)]

Suffixes(s) == {SubSeq(s, n, Len(s)) : n \in 1 .. Len(s)}

Init ==
  /\ kept = <<Empty>> /\ visible = Empty /\ writing = None
  /\ running = FALSE /\ damaged = FALSE

Write ==
  /\ running /\ writing = None
  /\ \E k \in Key, v \in Value \union {Absent} :
       /\ writing' = {<<k, v>>}
       /\ kept' \in Suffixes(Append(kept, IF damaged THEN Last ELSE [Last EXCEPT ![k] = v]))
  /\ UNCHANGED <<visible, running, damaged>>

Acknowledge ==
  /\ \E w \in writing : visible' = [visible EXCEPT ![w[1]] = w[2]]
  /\ writing' = None
  /\ UNCHANGED <<kept, running, damaged>>

Flush ==
  /\ kept' \in Suffixes(kept)
  /\ UNCHANGED <<visible, writing, running, damaged>>

\* A checkpoint of a damaged log: at first a restart may still apply the old
\* records over the new snapshot.
BeginRepair ==
  /\ running /\ damaged /\ writing = None
  /\ \E m \in [Key -> Value \union {Absent}] :
       /\ \A k \in Key : m[k] \in {visible[k], Last[k]}
       /\ kept' = <<m>>
  /\ UNCHANGED <<visible, writing, running, damaged>>

Repair ==
  /\ running /\ damaged /\ writing = None
  /\ kept' = <<visible>> /\ damaged' = FALSE
  /\ UNCHANGED <<visible, writing, running>>

Stop ==
  /\ running' = FALSE /\ visible' = Empty /\ writing' = None

Kill ==
  /\ running /\ Stop
  /\ damaged' \in {damaged, TRUE}
  /\ kept' \in Suffixes(kept) \union Suffixes(Append(kept, Last))

PowerLoss ==
  /\ running /\ Stop
  /\ damaged' \in BOOLEAN
  /\ \E n \in 1 .. Len(kept) : kept' = <<kept[n]>>

Shutdown ==
  /\ running /\ writing = None /\ Stop
  /\ kept' = <<Last>>
  /\ UNCHANGED damaged

Restart ==
  /\ ~ running
  /\ \/ running' = TRUE /\ visible' = Last
     \/ damaged /\ UNCHANGED <<visible, running>>
  /\ kept' \in {kept, <<Last>>}
  /\ UNCHANGED <<writing, damaged>>

Next ==
  \/ Write \/ Acknowledge \/ Flush \/ BeginRepair \/ Repair
  \/ Kill \/ PowerLoss \/ Shutdown \/ Restart

Spec == Init /\ [][Next]_vars

=============================================================================

----------------------- MODULE KVStoreRefinementProofs -----------------------
(***************************************************************************)
(* For all keys, values and bounds: with one caller, and as long as a full *)
(* disk cannot shorten a snapshot, the files always hold what the index    *)
(* holds, and the engine implements DurableStore.                          *)
(***************************************************************************)
EXTENDS KVStoreRefinement, KVStoreProofs, SequenceTheorems

-----------------------------------------------------------------------------
(* The index and the files.                                                 *)

\* What a restart is to find while the only caller is in a call.
WithWrite ==
  [k \in Key |-> IF InFlight(c1) /\ th[c1].record.key = k THEN th[c1].record.value
                ELSE index[k]]

\* The inductive invariant: what a checkpoint carries from step to step.
IInv ==
  /\ TypeOK
  /\ process \in {"up", "stopping"} /\ Whole => Replay(Loaded, log) = WithWrite
  /\ snapshot # Short
  /\ process # "up" => th[c1].pc = "idle"
  /\ th[c1].pc = "rename" => th[c1].entries = index
  /\ th[c1].pc = "reset" => snapshot = index

\* With one caller the property is the conjunct of the invariant.
LEMMA OneInFlight ==
  ASSUME IInv
  PROVE  IndexMatchesDisk
<1>1. ASSUME NEW k \in Key
      PROVE  (IF \E t \in Caller : InFlight(t) /\ th[t].record.key = k
              THEN th[CHOOSE t \in Caller : InFlight(t)].record.value ELSE index[k])
              = WithWrite[k]
  <2>1. CASE InFlight(c1)
    <3>1. (CHOOSE t \in Caller : InFlight(t)) = c1
      BY OneCaller, <2>1
    <3> QED
      BY OneCaller, <2>1, <3>1 DEF WithWrite
  <2>2. CASE ~ InFlight(c1)
    BY OneCaller, <2>2 DEF WithWrite
  <2> QED
    BY <2>1, <2>2
<1> QED
  BY <1>1 DEF IInv, IndexMatchesDisk, WithWrite

\* Between calls a restart is to find the index.
LEMMA NoWrite ==
  ASSUME TypeOK, ~ InFlight(c1)
  PROVE  WithWrite = index
BY DEF TypeOK, Contents, WithWrite

\* As long as the files stay, so does what a restart finds.
LEMMA SameFiles ==
  ASSUME UNCHANGED log, Loaded' = Loaded
  PROVE  Replay(Loaded, log)' = Replay(Loaded, log) /\ (Whole' <=> Whole)
BY DEF Replay, Applied, Readable, Whole

\* An empty log changes nothing.
LEMMA ReplayNothing ==
  ASSUME NEW base \in Contents
  PROVE  Replay(base, <<>>) = base
<1>1. \A k \in Key : Written(<<>>, k) = {}
  BY DEF Written, Readable
<1>2. \A k \in Key : Replay(base, <<>>)[k] = base[k]
  BY <1>1, ReplayOf
<1>3. Replay(base, <<>>) = [k \in Key |-> Replay(base, <<>>)[k]]
  BY DEF Replay, Applied
<1> QED
  BY <1>2, <1>3 DEF Contents

LEMMA IInvInit ==
  ASSUME Init
  PROVE  IInv
<1>1. th[c1].pc = "idle" /\ snapshot # Short
  BY OneCaller, IdleType, KVStoreAssumption DEF Init
<1> QED
  BY <1>1, TypeInit DEF Init, IInv

\* A step of the caller.
LEMMA IInvCall ==
  ASSUME "full disk" \notin Faults, IInv, Write(c1) \/ Snapshot(c1) \/ Step(c1)
  PROVE  IInv'
<1>t. TypeOK /\ TypeOK'
  BY OneCaller, TypeCall DEF IInv
<1>u. /\ th \in [Caller -> CallState] /\ c1 \in Caller /\ log \in Seq(Entry)
      /\ Loaded \in Contents
  BY OneCaller, <1>t, LoadedType DEF TypeOK, IInv
<1>1. CASE Write(c1)
  <2>0. PICK r \in Record : WriteRecord(c1, r)
    BY <1>1 DEF Write
  <2>1. log' = Append(log, r) /\ th' = [th EXCEPT ![c1].pc = "mark", ![c1].record = r]
    BY <2>0 DEF WriteRecord, AppendRecord
  <2>2. /\ process = "up" /\ th[c1].pc = "idle"
        /\ th'[c1].pc = "mark" /\ th'[c1].record = r
        /\ UNCHANGED <<index, snapshot, process>>
    BY <1>u, <2>0, <2>1 DEF WriteRecord, At, CallState
  <2>3. ASSUME Whole'
        PROVE  Replay(Loaded, log)' = WithWrite'
    <3>0. \A i \in 1 .. Len(log) : i \in 1 .. Len(log') /\ log'[i] = log[i]
      BY <1>u, <2>1, AppendKeeps
    <3>1. Whole
      <4>1. ASSUME NEW i \in 1 .. Len(log)
            PROVE  log[i] # Torn
        <5>1. i \in 1 .. Len(log') /\ log'[i] = log[i]
          BY <3>0
        <5> QED
          BY <2>3, <5>1 DEF Whole
      <4> QED
        BY <4>1 DEF Whole
    <3>2. Replay(Loaded, log) = index
      BY <1>t, <2>2, <3>1, NoWrite DEF IInv, InFlight
    <3>3. Loaded' = Loaded
      BY <2>2 DEF Loaded
    <3>4. Replay(Loaded, log') = After(index, r)
      <4>1. \A i \in 1 .. Len(log) : log[i] # Torn
        BY <3>1 DEF Whole
      <4> QED
        BY <1>u, <2>1, <3>2, <4>1, ReplayAppend
    <3>5. WithWrite' = After(index, r)
      BY <2>2 DEF WithWrite, InFlight, After
    <3>6. Replay(Loaded, log)' = Replay(Loaded, log')
      BY <3>3 DEF Replay, Applied, Readable
    <3> QED
      BY <3>4, <3>5, <3>6
  <2> QED
    BY <1>t, <2>2, <2>3 DEF IInv
<1>2. CASE Mark(c1)
  <2>1. /\ th[c1].pc = "mark" /\ th'[c1].pc = "apply" /\ process = "up"
        /\ th'[c1].record = th[c1].record /\ UNCHANGED <<log, index, snapshot, process>>
    BY <1>2, <1>u DEF Mark, At, Goto, CallState
  <2>2. WithWrite' = WithWrite /\ Loaded' = Loaded
    BY <2>1 DEF WithWrite, InFlight, Loaded
  <2> QED
    BY <1>t, <2>1, <2>2, SameFiles DEF IInv
<1>3. CASE Apply(c1)
  <2>1. /\ th[c1].pc = "apply" /\ th'[c1] = Idle /\ process = "up"
        /\ index' = [index EXCEPT ![th[c1].record.key] = th[c1].record.value]
        /\ UNCHANGED <<log, snapshot, process>>
    BY <1>3, <1>u DEF Apply, At, walVars
  <2>2. WithWrite = index'
    BY <1>t, <2>1 DEF WithWrite, InFlight, TypeOK, Contents
  <2>3. WithWrite' = index' /\ Loaded' = Loaded
    BY <1>t, <2>1, IdleType DEF WithWrite, InFlight, TypeOK, Contents, Loaded
  <2> QED
    BY <1>t, <2>1, <2>2, <2>3, IdleType, SameFiles DEF IInv
<1>4. CASE Snapshot(c1)
  <2>1. /\ th[c1].pc = "idle" /\ th'[c1].pc = "rename" /\ th'[c1].entries = index
        /\ process = "up" /\ UNCHANGED <<log, index, snapshot, process>>
    BY <1>4, <1>u DEF Snapshot, At, CallState, walVars
  <2>2. WithWrite' = WithWrite /\ Loaded' = Loaded
    BY <2>1 DEF WithWrite, InFlight, Loaded
  <2> QED
    BY <1>t, <2>1, <2>2, SameFiles DEF IInv
<1>5. CASE Rename(c1)
  <2>1. /\ th[c1].pc = "rename" /\ th'[c1].pc = "reset" /\ process = "up"
        /\ snapshot' = index /\ UNCHANGED <<log, index, process>>
    BY <1>5, <1>u, "full disk" \notin Faults
       DEF Rename, SnapshotFiles, At, Goto, CallState, walVars, IInv
  <2>2. snapshot' # Short /\ snapshot' # NoFile /\ Loaded' = index
    BY <1>t, <2>1, KVStoreAssumption DEF TypeOK, Loaded
  <2>3. WithWrite' = index
    BY <1>t, <2>1 DEF WithWrite, InFlight, TypeOK, Contents
  <2>4. ASSUME Whole
        PROVE  Replay(index, log) = index
    <3>1. Replay(Loaded, log) = index
      BY <1>t, <2>1, <2>4, NoWrite DEF IInv, InFlight
    <3> QED
      BY <1>u, <3>1, ReplayTwice
  <2> QED
    <3>1. Replay(Loaded, log)' = Replay(index, log) /\ (Whole' <=> Whole)
      BY <2>1, <2>2 DEF Replay, Applied, Readable, Whole
    <3> QED
      BY <1>t, <2>1, <2>2, <2>3, <2>4, <3>1 DEF IInv
<1>6. CASE Reset(c1)
  <2>1. /\ th[c1].pc = "reset" /\ th'[c1] = Idle /\ process = "up" /\ log' = <<>>
        /\ snapshot = index /\ UNCHANGED <<index, snapshot, process>>
    BY <1>6, <1>u DEF Reset, ResetLog, At, IInv
  <2>2. Loaded' = index /\ WithWrite' = index
    BY <1>t, <2>1, IdleType, KVStoreAssumption
       DEF TypeOK, Loaded, WithWrite, InFlight, Contents
  <2>3. Replay(index, <<>>) = index
    BY <1>t, ReplayNothing DEF TypeOK
  <2>4. Replay(Loaded, log)' = Replay(index, <<>>)
    BY <2>1, <2>2 DEF Replay, Applied, Readable
  <2> QED
    BY <1>t, <2>1, <2>2, <2>3, <2>4, IdleType DEF IInv
<1>7. CASE SnapshotFails(c1) \/ ResetFails(c1)
  <2>1. /\ th[c1].pc \in {"rename", "reset"} /\ th'[c1] = Idle /\ process = "up"
        /\ UNCHANGED <<log, index, snapshot, process>>
    BY <1>7, <1>u DEF SnapshotFails, ResetFails, At, walVars
  <2>2. WithWrite' = WithWrite /\ Loaded' = Loaded
    BY <2>1, IdleType DEF WithWrite, InFlight, Loaded
  <2> QED
    BY <1>t, <2>1, <2>2, IdleType, SameFiles DEF IInv
<1> QED
  BY <1>1, <1>2, <1>3, <1>4, <1>5, <1>6, <1>7 DEF Step

\* A step of the background thread or of the process.
LEMMA IInvProcess ==
  ASSUME IInv,
         \/ SyncLoop /\ UNCHANGED kvVars
         \/ \E timed \in BOOLEAN : Start(timed)
         \/ Shutdown \/ Exit \/ Kill \/ PowerLoss
  PROVE  IInv'
<1>t. TypeOK /\ TypeOK'
  BY TypeProcess DEF IInv
<1>1. ASSUME UNCHANGED <<log, index, snapshot, th>>,
             process' \in {"up", "stopping"} => process \in {"up", "stopping"},
             process' # "up" => th[c1].pc = "idle"
      PROVE  IInv'
  <2>1. WithWrite' = WithWrite /\ Loaded' = Loaded
    BY <1>1 DEF WithWrite, InFlight, Loaded
  <2> QED
    BY <1>t, <1>1, <2>1, SameFiles DEF IInv
<1>2. ASSUME process' = "down", snapshot' = snapshot, th'[c1].pc = "idle"
      PROVE  IInv'
  BY <1>t, <1>2 DEF IInv
<1>3. CASE SyncLoop /\ UNCHANGED kvVars
  BY <1>1, <1>3 DEF SyncLoop, SyncerWake, SyncerFlush, kvVars, IInv
<1>4. ASSUME NEW timed \in BOOLEAN, Start(timed)
      PROVE  IInv'
  <2>1. process # "up" /\ th[c1].pc = "idle" /\ UNCHANGED <<snapshot, th, log>>
    BY <1>4 DEF Start, OpenLog, IInv
  <2>2. CASE process' = "up" /\ index' = Replay(Loaded, log)
    <3>1. Loaded' = Loaded /\ ~ InFlight(c1)'
      BY <2>1 DEF Loaded, InFlight
    <3>2. WithWrite' = index'
      BY <1>t, <3>1 DEF WithWrite, TypeOK, Contents
    <3> QED
      BY <1>t, <2>1, <2>2, <3>1, <3>2 DEF IInv, Replay, Applied, Readable
  <2>3. CASE process' = "refused" /\ index' = index
    BY <1>1, <2>1, <2>3
  <2> QED
    BY <1>4, <2>2, <2>3 DEF Start
<1>5. CASE Shutdown
  BY OneCaller, <1>1, <1>5 DEF Shutdown, Quiet
<1>6. CASE Exit
  BY <1>2, <1>6 DEF Exit, IInv
<1>7. CASE Kill \/ PowerLoss
  <2>1. Vanish
    BY <1>7 DEF Kill, PowerLoss
  <2>2. th'[c1].pc = "idle"
    BY OneCaller, <2>1, IdleType DEF Vanish
  <2> QED
    BY <1>2, <2>1, <2>2 DEF Vanish
<1> QED
  BY <1>3, <1>4, <1>5, <1>6, <1>7

\* Every step preserves the invariant.
LEMMA IInvStep ==
  ASSUME "full disk" \notin Faults, IInv, [Next]_vars
  PROVE  IInv'
<1>1. CASE UNCHANGED vars
  <2>1. WithWrite' = WithWrite /\ Loaded' = Loaded /\ TypeOK'
    BY <1>1 DEF vars, walVars, kvVars, WithWrite, InFlight, Loaded, IInv, TypeOK
  <2> QED
    BY <1>1, <2>1, SameFiles DEF vars, walVars, kvVars, IInv
<1>2. CASE Next
  BY <1>2, OneCaller, IInvCall, IInvProcess DEF Next
<1> QED
  BY <1>1, <1>2

\* With one caller and a disk that is not full, the files always hold what the
\* index holds: no kill, power failure or failing checkpoint, at any point,
\* loses an acknowledged write (kvstore.cpp Put, Delete, Checkpoint).
THEOREM IndexMatchesDiskHolds ==
  "full disk" \notin Faults => (Spec => []IndexMatchesDisk)
<1> SUFFICES ASSUME "full disk" \notin Faults PROVE Spec => []IndexMatchesDisk
  OBVIOUS
<1> QED
  BY IInvInit, IInvStep, OneInFlight, PTL DEF Spec

-----------------------------------------------------------------------------
(* What the files may still give after a power failure, as a sequence.      *)

\* What is read back of each prefix of a log from the f-th on.
Prefixes(base, l, f) ==
  [i \in 1 .. Len(l) - f + 1 |-> Replay(base, SubSeq(l, 1, f + i - 1))]

\* The last of them is what is read back of the whole log.
LEMMA PrefixesType ==
  ASSUME NEW base \in Contents, NEW l \in Seq(Entry), NEW f \in 0 .. Len(l)
  PROVE  /\ Prefixes(base, l, f) \in Seq(Contents)
         /\ Len(Prefixes(base, l, f)) = Len(l) - f + 1
         /\ \A i \in 1 .. Len(l) - f + 1 :
              Prefixes(base, l, f)[i] = Replay(base, SubSeq(l, 1, f + i - 1))
         /\ Prefixes(base, l, f)[Len(l) - f + 1] = Replay(base, l)
<1> DEFINE n == Len(l) - f + 1
<1>1. Len(l) \in Nat /\ n \in Nat /\ n >= 1 /\ f \in Nat
  OBVIOUS
<1>2. ASSUME NEW i \in 1 .. n
      PROVE  Replay(base, SubSeq(l, 1, f + i - 1)) \in Contents
  <2>1. SubSeq(l, 1, f + i - 1) \in Seq(Entry)
    BY <1>1
  <2> QED
    BY <2>1, ReplayType
<1>3. Prefixes(base, l, f) \in [1 .. n -> Contents]
  BY <1>2 DEF Prefixes
<1>4. Prefixes(base, l, f) \in Seq(Contents)
  BY <1>1, <1>3
<1>5. Len(Prefixes(base, l, f)) = n
  BY <1>1, <1>3, <1>4
<1>6. SubSeq(l, 1, Len(l)) = l
  BY SubSeqFull
<1>7. \A i \in 1 .. n : Prefixes(base, l, f)[i] = Replay(base, SubSeq(l, 1, f + i - 1))
  BY DEF Prefixes
<1>8. n \in 1 .. n /\ f + n - 1 = Len(l)
  BY <1>1
<1> QED
  BY <1>4, <1>5, <1>6, <1>7, <1>8

\* Flushing more of the log leaves a suffix.
LEMMA LaterPrefixes ==
  ASSUME NEW base \in Contents, NEW l \in Seq(Entry), NEW f \in 0 .. Len(l), NEW g \in f .. Len(l)
  PROVE  Prefixes(base, l, g) \in Abstract!Suffixes(Prefixes(base, l, f))
<1> DEFINE s == Prefixes(base, l, f)
           u == Prefixes(base, l, g)
           n == g - f + 1
<1>1. Len(l) \in Nat /\ f \in Nat /\ g \in Nat /\ g \in 0 .. Len(l) /\ n \in Nat
  OBVIOUS
<1>2. s \in Seq(Contents) /\ Len(s) = Len(l) - f + 1 /\ n \in 1 .. Len(s)
  BY <1>1, PrefixesType
<1>3. u \in Seq(Contents) /\ Len(u) = Len(l) - g + 1
  BY <1>1, PrefixesType
<1>4. SubSeq(s, n, Len(s)) \in Seq(Contents) /\ Len(SubSeq(s, n, Len(s))) = Len(l) - g + 1
  BY <1>1, <1>2, SubSeqProperties
<1>5. ASSUME NEW i \in 1 .. Len(u)
      PROVE  u[i] = SubSeq(s, n, Len(s))[i]
  <2>1. i \in 1 .. Len(l) - g + 1 /\ n + i - 1 \in 1 .. Len(l) - f + 1 /\ f + (n + i - 1) - 1 = g + i - 1
    BY <1>1, <1>3
  <2>2. SubSeq(s, n, Len(s))[i] = s[n + i - 1]
    BY <1>1, <1>2, <2>1, SubSeqProperties
  <2>3. s[n + i - 1] = Replay(base, SubSeq(l, 1, f + (n + i - 1) - 1))
    BY <2>1, PrefixesType
  <2>4. u[i] = Replay(base, SubSeq(l, 1, g + i - 1))
    BY <1>1, <2>1, PrefixesType
  <2> QED
    BY <2>1, <2>2, <2>3, <2>4
<1>6. u = SubSeq(s, n, Len(s))
  BY <1>3, <1>4, <1>5, SeqEqual
<1> QED
  BY <1>2, <1>6 DEF Abstract!Suffixes

\* A longer log has the same prefixes.
LEMMA AppendSubSeq ==
  ASSUME NEW l \in Seq(Entry), NEW r \in Entry, NEW n \in 0 .. Len(l)
  PROVE  SubSeq(Append(l, r), 1, n) = SubSeq(l, 1, n)
<1>1. Len(l) \in Nat /\ Len(Append(l, r)) = Len(l) + 1
  OBVIOUS
<1>2. \A i \in 1 .. n : l[i] = Append(l, r)[i] /\ l[i] \in Entry
  BY <1>1
<1>3. /\ SubSeq(l, 1, n) \in Seq(Entry)
      /\ Len(SubSeq(l, 1, n)) = n
      /\ \A i \in 1 .. n : SubSeq(l, 1, n)[i] = l[i]
  BY <1>1, <1>2
<1>4. /\ SubSeq(Append(l, r), 1, n) \in Seq(Entry)
      /\ Len(SubSeq(Append(l, r), 1, n)) = n
      /\ \A i \in 1 .. n : SubSeq(Append(l, r), 1, n)[i] = Append(l, r)[i]
  BY <1>1, <1>2
<1> QED
  BY <1>1, <1>2, <1>3, <1>4, SeqEqual

\* One more record adds what is read back of the longer log.
LEMMA PrefixesAppend ==
  ASSUME NEW base \in Contents, NEW l \in Seq(Entry), NEW f \in 0 .. Len(l), NEW r \in Entry
  PROVE  Prefixes(base, Append(l, r), f)
           = Append(Prefixes(base, l, f), Replay(base, Append(l, r)))
<1> DEFINE m == Append(l, r)
           s == Prefixes(base, l, f)
           u == Prefixes(base, m, f)
           n == Len(l) - f + 1
<1>1. /\ Len(l) \in Nat /\ f \in Nat /\ n \in Nat /\ n >= 1
      /\ m \in Seq(Entry) /\ Len(m) = Len(l) + 1 /\ f \in 0 .. Len(m)
  OBVIOUS
<1>2. Replay(base, m) \in Contents
  BY <1>1, ReplayType
<1>3. s \in Seq(Contents) /\ Len(s) = n
  BY PrefixesType
<1>4. u \in Seq(Contents) /\ Len(u) = n + 1 /\ u[n + 1] = Replay(base, m)
  <2>1. Len(m) - f + 1 = n + 1
    BY <1>1
  <2> QED
    BY <1>1, <2>1, PrefixesType
<1>5. ASSUME NEW i \in 1 .. n
      PROVE  u[i] = s[i]
  <2>1. i \in 1 .. Len(m) - f + 1 /\ f + i - 1 \in 0 .. Len(l)
    BY <1>1
  <2>2. SubSeq(m, 1, f + i - 1) = SubSeq(l, 1, f + i - 1)
    BY <1>1, <2>1, AppendSubSeq
  <2>3. s[i] = Replay(base, SubSeq(l, 1, f + i - 1))
    BY PrefixesType
  <2>4. u[i] = Replay(base, SubSeq(m, 1, f + i - 1))
    <3> HIDE DEF m
    <3> QED
      BY <1>1, <2>1, PrefixesType
  <2> QED
    BY <2>2, <2>3, <2>4
<1> HIDE DEF m, s, u, n
<1>6. /\ Append(s, Replay(base, m)) \in Seq(Contents)
      /\ Len(Append(s, Replay(base, m))) = n + 1
      /\ \A i \in 1 .. n : Append(s, Replay(base, m))[i] = s[i]
      /\ Append(s, Replay(base, m))[n + 1] = Replay(base, m)
  BY <1>1, <1>2, <1>3
<1>7. \A i \in 1 .. n + 1 : u[i] = Append(s, Replay(base, m))[i]
  BY <1>1, <1>4, <1>5, <1>6
<1>8. u = Append(s, Replay(base, m))
  BY <1>4, <1>6, <1>7, SeqEqual
<1> QED
  BY <1>8 DEF m, s, u

-----------------------------------------------------------------------------
(* The steps of the durable store.                                          *)

\* What the mapping gives, now and after a step.
LEMMA KeptNow ==
  ASSUME TypeOK, snapshot # Short
  PROVE  /\ Loaded \in Contents /\ log \in Seq(Entry) /\ FirstKept \in 0 .. Len(log)
         /\ Kept = Prefixes(Loaded, log, FirstKept)
         /\ Abstract!Last = Replay(Loaded, log)
<1>1. Loaded \in Contents /\ log \in Seq(Entry) /\ FirstKept \in 0 .. Len(log)
  BY LoadedType DEF TypeOK, FirstKept
<1>2. Kept = Prefixes(Loaded, log, FirstKept)
  BY DEF Kept, Prefixes
<1>3. Kept[Len(Kept)] = Replay(Loaded, log)
  BY <1>1, <1>2, PrefixesType
<1> QED
  BY <1>1, <1>2, <1>3 DEF Abstract!Last

LEMMA KeptNext ==
  ASSUME TypeOK', (snapshot # Short)'
  PROVE  /\ Loaded' \in Contents /\ log' \in Seq(Entry) /\ FirstKept' \in 0 .. Len(log')
         /\ Kept' = Prefixes(Loaded', log', FirstKept')
<1>1. Loaded' \in Contents /\ log' \in Seq(Entry)
  BY IdleType DEF TypeOK, Loaded
<1>2. FirstKept' \in 0 .. Len(log')
  BY DEF TypeOK, FirstKept
<1>3. Kept' = Prefixes(Loaded', log', FirstKept')
  BY DEF Kept, Prefixes, Replay, Applied, Readable
<1> QED
  BY <1>1, <1>2, <1>3

\* What a file that stays may still give is a suffix of what it may give now.
LEMMA SameLog ==
  ASSUME IInv, IInv', log' = log, Loaded' = Loaded, FirstKept' \in FirstKept .. Len(log)
  PROVE  Kept' \in Abstract!Suffixes(Kept)
<1>1. Kept = Prefixes(Loaded, log, FirstKept) /\ Kept' = Prefixes(Loaded, log, FirstKept')
  BY KeptNow, KeptNext DEF IInv
<1> QED
  BY <1>1, KeptNow, LaterPrefixes DEF IInv

\* A flushed, or an unchanged, log.
LEMMA FlushStep ==
  ASSUME IInv, IInv', log' = log, Loaded' = Loaded, FirstKept' \in FirstKept .. Len(log),
         index' = index, InFlight(c1)' <=> InFlight(c1), th'[c1].record = th[c1].record,
         Running' <=> Running
  PROVE  Abstract!Flush
<1>1. Kept' \in Abstract!Suffixes(Kept)
  BY SameLog
<1>2. Whole' <=> Whole
  BY DEF Whole
<1> QED
  BY <1>1, <1>2 DEF Abstract!Flush, Running

\* Nothing that is appended after a torn record is ever replayed, and neither
\* is the torn record.
LEMMA ReplayTorn ==
  ASSUME NEW base, NEW l \in Seq(Entry), NEW r \in Entry,
         r = Torn \/ \E i \in 1 .. Len(l) : l[i] = Torn
  PROVE  Replay(base, Append(l, r)) = Replay(base, l)
<1> DEFINE m == Append(l, r)
<1>1. Len(l) \in Nat /\ Len(m) = Len(l) + 1 /\ m[Len(l) + 1] = r /\ \A i \in 1 .. Len(l) : m[i] = l[i]
  OBVIOUS
<1> HIDE DEF m
<1>2. Readable(m) = Readable(l)
  <2>1. Len(l) + 1 \notin Readable(m)
    BY <1>1 DEF Readable
  <2>2. \A i \in 1 .. Len(l) : i \in Readable(m) <=> i \in Readable(l)
    BY <1>1 DEF Readable
  <2> QED
    BY <1>1, <2>1, <2>2 DEF Readable
<1>3. ASSUME NEW k \in Key
      PROVE  Replay(base, m)[k] = Replay(base, l)[k]
  <2>1. Written(m, k) = Written(l, k)
    BY <1>1, <1>2 DEF Written, Readable
  <2>2. CASE Written(l, k) = {}
    BY <2>1, <2>2, ReplayOf
  <2>3. CASE Written(l, k) # {}
    BY <1>1, <2>1, <2>3, LastWritten, ReplayOf
  <2> QED
    BY <2>2, <2>3
<1> QED
  BY <1>3 DEF m, Replay, Applied

\* A longer log: what it may give ends a sequence that goes on from before.
LEMMA LongerLog ==
  ASSUME IInv, IInv', NEW r \in Entry, log' = Append(log, r), Loaded' = Loaded,
         FirstKept' \in FirstKept .. Len(log')
  PROVE  Kept' \in Abstract!Suffixes(Append(Kept, Replay(Loaded, Append(log, r))))
<1>1. /\ Loaded \in Contents /\ log \in Seq(Entry) /\ FirstKept \in 0 .. Len(log)
      /\ Kept = Prefixes(Loaded, log, FirstKept)
  BY KeptNow DEF IInv
<1>2. Kept' = Prefixes(Loaded, log', FirstKept') /\ log' \in Seq(Entry)
  BY KeptNext DEF IInv
<1>3. Prefixes(Loaded, log', FirstKept) = Append(Kept, Replay(Loaded, Append(log, r)))
  BY <1>1, PrefixesAppend
<1>4. FirstKept \in 0 .. Len(log')
  BY <1>1
<1> QED
  BY <1>1, <1>2, <1>3, <1>4, LaterPrefixes

\* The record of a Put or a Delete is appended.
LEMMA WriteStep ==
  ASSUME IInv, IInv', Write(c1)
  PROVE  Abstract!Write
<1>0. PICK r \in Record : WriteRecord(c1, r)
  BY DEF Write
<1>1. /\ process = "up" /\ th[c1].pc = "idle" /\ log' = Append(log, r)
      /\ th'[c1].pc = "mark" /\ th'[c1].record = r
      /\ UNCHANGED <<synced, index, snapshot, process>>
  BY <1>0, OneCaller DEF WriteRecord, At, AppendRecord, IInv, TypeOK, CallState
<1>2. /\ log \in Seq(Entry) /\ Len(log) \in Nat /\ Loaded \in Contents
      /\ r \in Entry /\ r # Torn /\ r.key \in Key /\ r.value \in Value \union {Absent}
  BY WALAssumption, KeptNow DEF IInv, Entry, Record, Torn
<1>3. Loaded' = Loaded /\ FirstKept' \in FirstKept .. Len(log')
  BY <1>1, <1>2 DEF Loaded, FirstKept, IInv, TypeOK
<1>4. Kept' \in Abstract!Suffixes(Append(Kept, Replay(Loaded, Append(log, r))))
  BY <1>1, <1>2, <1>3, LongerLog
<1>5. Replay(Loaded, Append(log, r)) = (IF ~ Whole THEN Abstract!Last ELSE [Abstract!Last EXCEPT ![r.key] = r.value])
  <2>1. Abstract!Last = Replay(Loaded, log)
    BY KeptNow DEF IInv
  <2>2. CASE ~ Whole
    BY <1>2, <2>1, <2>2, ReplayTorn DEF Whole
  <2>3. CASE Whole
    <3>1. Replay(Loaded, Append(log, r)) = After(Replay(Loaded, log), r)
      BY <1>2, <2>3, ReplayAppend DEF Whole
    <3>2. Replay(Loaded, log) \in Contents
      BY <1>2, ReplayType
    <3>3. After(Replay(Loaded, log), r) = [Replay(Loaded, log) EXCEPT ![r.key] = r.value]
      BY <3>2 DEF After, Contents
    <3> QED
      BY <2>1, <2>3, <3>1, <3>3
  <2> QED
    BY <2>2, <2>3
<1>6. Whole' <=> Whole
  <2>1. Len(log') = Len(log) + 1 /\ log'[Len(log) + 1] = r /\ \A i \in 1 .. Len(log) : log'[i] = log[i]
    BY <1>1, <1>2
  <2> QED
    BY <1>2, <2>1 DEF Whole
<1>7. ~ InFlight(c1) /\ InFlight(c1)' /\ Running /\ Running'
  BY <1>1 DEF InFlight, Running
<1> QED
  BY <1>1, <1>2, <1>4, <1>5, <1>6, <1>7 DEF Abstract!Write, Abstract!None

\* A file that is all on the disk gives one thing only, the last.
LEMMA OnePrefix ==
  ASSUME NEW base \in Contents, NEW l \in Seq(Entry)
  PROVE  Prefixes(base, l, Len(l)) = <<Replay(base, l)>>
<1>1. Len(l) \in 0 .. Len(l) /\ Len(l) - Len(l) + 1 = 1
  OBVIOUS
<1>2. /\ Prefixes(base, l, Len(l)) \in Seq(Contents)
      /\ Len(Prefixes(base, l, Len(l))) = 1
      /\ Prefixes(base, l, Len(l))[1] = Replay(base, l)
  BY <1>1, PrefixesType, ZenonT(40)
<1> QED
  BY <1>2

LEMMA LastOnly ==
  ASSUME TypeOK, snapshot # Short
  PROVE  <<Replay(Loaded, log)>> \in Abstract!Suffixes(Kept)
<1>1. /\ Loaded \in Contents /\ log \in Seq(Entry) /\ FirstKept \in 0 .. Len(log)
      /\ Kept = Prefixes(Loaded, log, FirstKept) /\ Len(log) \in FirstKept .. Len(log)
  BY KeptNow
<1> QED
  BY <1>1, OnePrefix, LaterPrefixes

DiskNeverFull == "full disk" \notin Faults

\* The other steps of the caller.
LEMMA CallStep ==
  ASSUME DiskNeverFull, IInv, IInv', Snapshot(c1) \/ Step(c1)
  PROVE  Abstract!Next
<1>s. TypeOK /\ snapshot # Short
  BY DEF IInv
<1>t. /\ th \in [Caller -> CallState] /\ c1 \in Caller
      /\ log \in Seq(Entry) /\ Len(log) \in Nat
      /\ Loaded \in Contents /\ index \in Contents
  BY <1>s, OneCaller, LoadedType DEF TypeOK
<1>f. synced \in Nat /\ synced <= Len(log) /\ FirstKept \in 0 .. Len(log)
  BY <1>s DEF TypeOK, FirstKept
<1>1. CASE Mark(c1)
  <2>1. /\ th[c1].pc = "mark" /\ th'[c1].pc = "apply" /\ th'[c1].record = th[c1].record
        /\ synced' \in {synced, Len(log)} /\ UNCHANGED <<log, index, snapshot, process>>
    BY <1>1, <1>t DEF Mark, MarkDirty, At, Goto, CallState
  <2>2. Loaded' = Loaded /\ FirstKept' \in FirstKept .. Len(log)
    BY <1>t, <1>f, <2>1 DEF Loaded, FirstKept
  <2>3. InFlight(c1) /\ InFlight(c1)' /\ (Running' <=> Running)
    BY <2>1 DEF InFlight, Running
  <2> QED
    BY <2>1, <2>2, <2>3, FlushStep DEF Abstract!Next
<1>2. CASE Apply(c1)
  <2>1. /\ th[c1].pc = "apply" /\ th'[c1] = Idle /\ process = "up"
        /\ index' = [index EXCEPT ![th[c1].record.key] = th[c1].record.value]
        /\ UNCHANGED <<log, synced, snapshot, process>>
    BY <1>2, <1>t DEF Apply, At, walVars
  <2>2. Kept' = Kept /\ (Whole' <=> Whole) /\ Running' = Running
    BY <2>1 DEF Kept, FirstKept, Loaded, Replay, Applied, Readable, Whole, Running, walVars
  <2>3. InFlight(c1) /\ ~ InFlight(c1)'
    BY <2>1, IdleType DEF InFlight
  <2> QED
    BY <2>1, <2>2, <2>3 DEF Abstract!Next, Abstract!Acknowledge, Abstract!None
<1>3. CASE Snapshot(c1) \/ SnapshotFails(c1) \/ ResetFails(c1)
  <2>1. /\ th[c1].pc \in {"idle", "rename", "reset"} /\ th'[c1].pc \in {"idle", "rename"}
        /\ synced' \in {synced, Len(log)} /\ UNCHANGED <<log, index, snapshot, process>>
    BY <1>3, <1>t, IdleType
       DEF Snapshot, SnapshotFails, ResetFails, At, walVars, CallState
  <2>2. Loaded' = Loaded /\ FirstKept' \in FirstKept .. Len(log)
    BY <1>t, <1>f, <2>1 DEF Loaded, FirstKept
  <2>3. Kept' \in Abstract!Suffixes(Kept)
    BY <2>1, <2>2, SameLog
  <2>4. ~ InFlight(c1) /\ ~ InFlight(c1)' /\ (Whole' <=> Whole) /\ Running' = Running
    BY <2>1 DEF InFlight, Whole, Running
  <2> QED
    BY <2>1, <2>3, <2>4 DEF Abstract!Next, Abstract!Flush
<1>4. CASE Rename(c1)
  <2>1. /\ th[c1].pc = "rename" /\ th'[c1].pc = "reset" /\ process = "up"
        /\ snapshot' = index /\ UNCHANGED <<log, synced, index, process>>
    BY <1>4, <1>t DEF DiskNeverFull, Rename, SnapshotFiles, At, Goto, CallState, walVars, IInv
  <2>2. Loaded' = index /\ FirstKept' = Len(log)
    BY <1>t, <2>1, KVStoreAssumption DEF Loaded, FirstKept
  <2>3. /\ ~ InFlight(c1) /\ ~ InFlight(c1)' /\ (Whole' <=> Whole)
        /\ Running /\ Running'
    BY <2>1 DEF InFlight, Whole, Running
  <2>4. Kept' = <<Replay(index, log)>>
    <3>1. Kept' = Prefixes(index, log, Len(log))
      BY <2>1, <2>2, KeptNext DEF IInv
    <3> QED
      BY <1>t, <3>1, OnePrefix
  <2>5. CASE Whole
    <3>1. Replay(index, log) = Replay(Loaded, log)
      BY <1>t, <2>1, <2>3, <2>5, NoWrite, ReplayTwice, <1>s DEF IInv
    <3>2. Kept' \in Abstract!Suffixes(Kept)
      BY <1>s, <2>4, <3>1, LastOnly
    <3> QED
      BY <2>1, <2>3, <3>2 DEF Abstract!Next, Abstract!Flush
  <2>6. CASE ~ Whole
    <3> DEFINE m == Replay(index, log)
    <3>1. m \in [Key -> Value \union {Absent}]
      BY <1>t, ReplayType DEF Contents
    <3>2. \A k \in Key : m[k] \in {index[k], Abstract!Last[k]}
      <4>1. Abstract!Last = Replay(Loaded, log)
        BY <1>s, KeptNow
      <4> QED
        BY <4>1, ReplayOf
    <3> HIDE DEF m
    <3>3. Abstract!BeginRepair
      BY <2>1, <2>3, <2>4, <2>6, <3>1, <3>2 DEF m, Abstract!BeginRepair, Abstract!None
    <3> QED
      BY <3>3 DEF Abstract!Next
  <2> QED
    BY <2>5, <2>6
<1>5. CASE Reset(c1)
  <2>1. /\ th[c1].pc = "reset" /\ th'[c1] = Idle /\ process = "up" /\ log' = <<>>
        /\ synced' = 0 /\ snapshot = index /\ UNCHANGED <<index, snapshot, process>>
    BY <1>5, <1>t DEF Reset, ResetLog, At, IInv
  <2>2. Loaded = index /\ Loaded' = index /\ FirstKept' = 0 /\ Len(log') = 0
    BY <1>t, <2>1, KVStoreAssumption DEF Loaded, FirstKept
  <2>3. ~ InFlight(c1) /\ ~ InFlight(c1)' /\ Running /\ Running' /\ Whole'
    BY <2>1, <2>2, IdleType DEF InFlight, Running, Whole
  <2>4. Kept' = <<index>>
    <3>1. Kept' = Prefixes(index, <<>>, 0)
      BY <2>1, <2>2, KeptNext DEF IInv
    <3>3. Prefixes(index, <<>>, 0) = <<Replay(index, <<>>)>>
      BY <1>t, <2>1, <2>2, OnePrefix DEF IInv, TypeOK
    <3> QED
      BY <1>t, <3>1, <3>3, ReplayNothing
  <2>5. CASE Whole
    <3>1. index = Replay(Loaded, log)
      BY <1>t, <2>1, <2>3, <2>5, <1>s, NoWrite DEF IInv
    <3>2. Kept' \in Abstract!Suffixes(Kept)
      BY <1>s, <2>4, <3>1, LastOnly
    <3> QED
      BY <2>1, <2>3, <2>5, <3>2 DEF Abstract!Next, Abstract!Flush
  <2>6. CASE ~ Whole
    BY <2>1, <2>3, <2>4, <2>6 DEF Abstract!Next, Abstract!Repair, Abstract!None
  <2> QED
    BY <2>5, <2>6
<1> QED
  BY <1>1, <1>2, <1>3, <1>4, <1>5 DEF Step

\* A crash ends the process and the call.
LEMMA VanishStep ==
  ASSUME Vanish
  PROVE  /\ Running /\ ~ Running' /\ index' = Empty /\ ~ InFlight(c1)' /\ snapshot' = snapshot
         /\ Loaded' = Loaded
BY OneCaller, IdleType DEF Vanish, Running, InFlight, Loaded

LEMMA KillStep ==
  ASSUME IInv, IInv', Kill
  PROVE  Abstract!Kill
<1>t. /\ log \in Seq(Entry) /\ Len(log) \in Nat /\ Loaded \in Contents
      /\ synced \in Nat /\ synced <= Len(log) /\ Torn \in Entry
  BY LoadedType DEF IInv, TypeOK, Entry
<1>1. /\ Vanish /\ log' \in {log, Append(log, Torn)} /\ synced' \in {synced, Len(log')}
  BY DEF Kill, PerhapsTorn
<1>2. /\ Running /\ ~ Running' /\ index' = Empty /\ ~ InFlight(c1)' /\ snapshot' = snapshot
      /\ Loaded' = Loaded
  BY <1>1, VanishStep
<1>3. Abstract!Last = Replay(Loaded, log)
  BY KeptNow DEF IInv
<1>4. Abstract!Stop
  BY <1>2 DEF Abstract!Stop, Abstract!Empty, Abstract!None, Empty
<1>5. CASE log' = log
  <2>1. FirstKept' \in FirstKept .. Len(log)
    BY <1>t, <1>1, <1>2, <1>5 DEF FirstKept
  <2>2. Kept' \in Abstract!Suffixes(Kept)
    BY <1>2, <1>5, <2>1, SameLog
  <2>3. (~ Whole') = (~ Whole)
    BY <1>5 DEF Whole
  <2>4. (~ Whole') \in {~ Whole, TRUE}
    BY <2>3, Zenon
  <2> QED
    BY <1>2, <1>4, <2>2, <2>4, Zenon DEF Abstract!Kill
<1>6. CASE log' = Append(log, Torn)
  <2>1. Len(log') = Len(log) + 1 /\ log'[Len(log) + 1] = Torn
    BY <1>t, <1>6
  <2>2. FirstKept' \in FirstKept .. Len(log')
    BY <1>t, <1>1, <1>2, <2>1 DEF FirstKept
  <2>3. Kept' \in Abstract!Suffixes(Append(Kept, Abstract!Last))
    BY <1>t, <1>2, <1>3, <1>6, <2>2, LongerLog, ReplayTorn
  <2>4. ~ Whole'
    BY <1>t, <2>1 DEF Whole
  <2>5. (~ Whole') \in {~ Whole, TRUE}
    BY <2>4, Zenon
  <2> QED
    BY <1>2, <1>4, <2>3, <2>5, Zenon DEF Abstract!Kill
<1> QED
  BY <1>1, <1>5, <1>6

LEMMA PowerLossStep ==
  ASSUME IInv, IInv', PowerLoss
  PROVE  Abstract!PowerLoss
<1>t. /\ log \in Seq(Entry) /\ Len(log) \in Nat /\ Loaded \in Contents
      /\ synced \in Nat /\ synced <= Len(log) /\ Torn \in Entry
  BY LoadedType DEF IInv, TypeOK, Entry
<1>1. PICK n \in synced .. Len(log) :
        log' \in PerhapsTorn(SubSeq(log, 1, n), Appending \/ n < Len(log))
  BY DEF PowerLoss
<1>2. Vanish /\ synced' = Len(log') /\ snapshot = NoFile
  BY DEF PowerLoss
<1>3. /\ Running /\ ~ Running' /\ index' = Empty /\ ~ InFlight(c1)' /\ snapshot' = snapshot
      /\ Loaded' = Loaded
  BY <1>2, VanishStep
<1>4. Kept' = <<Replay(Loaded, log')>>
  <2>1. FirstKept' = Len(log') /\ log' \in Seq(Entry)
    BY <1>2, <1>3 DEF FirstKept, IInv, TypeOK
  <2>2. Kept' = Prefixes(Loaded, log', Len(log'))
    BY <1>3, <2>1, KeptNext DEF IInv
  <2> QED
    BY <1>t, <2>1, <2>2, OnePrefix
<1>5. Replay(Loaded, log') = Replay(Loaded, SubSeq(log, 1, n))
  <2>1. SubSeq(log, 1, n) \in Seq(Entry)
    BY <1>t
  <2>2. log' \in {SubSeq(log, 1, n), Append(SubSeq(log, 1, n), Torn)}
    BY <1>1 DEF PerhapsTorn
  <2> QED
    BY <1>t, <2>1, <2>2, ReplayTorn
<1>6. n - synced + 1 \in 1 .. Len(Kept) /\ Kept[n - synced + 1] = Replay(Loaded, SubSeq(log, 1, n))
  <2>1. FirstKept = synced
    BY <1>2 DEF FirstKept
  <2>2. Kept = Prefixes(Loaded, log, synced) /\ synced \in 0 .. Len(log)
    BY <1>t, <2>1, KeptNow DEF IInv
  <2>3. n - synced + 1 \in 1 .. Len(log) - synced + 1 /\ synced + (n - synced + 1) - 1 = n
    BY <1>t
  <2>4. Len(Kept) = Len(log) - synced + 1
    BY <1>t, <2>2, PrefixesType
  <2>5. Kept[n - synced + 1] = Replay(Loaded, SubSeq(log, 1, synced + (n - synced + 1) - 1))
    BY <1>t, <2>2, <2>3, PrefixesType
  <2> QED
    BY <2>3, <2>4, <2>5
<1>7. Kept' = <<Kept[n - synced + 1]>>
  BY <1>4, <1>5, <1>6
<1> QED
  BY <1>3, <1>6, <1>7
     DEF Abstract!PowerLoss, Abstract!Stop, Abstract!Empty, Abstract!None, Empty, Whole

\* A recovery that succeeds or throws.
LEMMA StartStep ==
  ASSUME IInv, IInv', NEW timed \in BOOLEAN, Start(timed)
  PROVE  Abstract!Restart
<1>t. /\ log \in Seq(Entry) /\ Len(log) \in Nat /\ Loaded \in Contents
      /\ synced \in Nat /\ synced <= Len(log)
      /\ TypeOK /\ snapshot # Short
  BY LoadedType DEF IInv, TypeOK
<1>1. Abstract!Last = Replay(Loaded, log)
  BY KeptNow DEF IInv
<1>2. ~ Running /\ snapshot' = snapshot /\ th' = th /\ log' = log /\ synced' \in {synced, Len(log)}
  BY DEF Start, Running, OpenLog
<1>3. Loaded' = Loaded /\ (Whole' <=> Whole) /\ (InFlight(c1)' <=> InFlight(c1))
  BY <1>2 DEF Loaded, Whole, InFlight
<1>4. Kept' \in {Kept, <<Abstract!Last>>}
  <2>1. FirstKept' \in {FirstKept, Len(log)}
    BY <1>2 DEF FirstKept
  <2>2. Kept' = Prefixes(Loaded, log, FirstKept') /\ Kept = Prefixes(Loaded, log, FirstKept)
    BY <1>2, <1>3, KeptNow, KeptNext DEF IInv
  <2> QED
    BY <1>t, <1>1, <2>1, <2>2, OnePrefix
<1>5. CASE process' = "up" /\ index' = Replay(Loaded, log)
  <2>1. Running'
    BY <1>5 DEF Running
  <2> QED
    BY <1>1, <1>2, <1>3, <1>4, <1>5, <2>1 DEF Abstract!Restart
<1>6. CASE process' = "refused" /\ index' = index /\ (snapshot = Short \/ ReplayMayThrow(log))
  <2>1. ~ Running' /\ ~ Whole
    BY <1>t, <1>6 DEF Running, Whole, ReplayMayThrow
  <2>2. Running' = Running
    BY <1>2, <1>6 DEF Running
  <2> QED
    BY <1>2, <1>3, <1>4, <1>6, <2>1, <2>2 DEF Abstract!Restart
<1> QED
  BY <1>5, <1>6 DEF Start

LEMMA ExitStep ==
  ASSUME IInv, IInv', Exit
  PROVE  Abstract!Shutdown
<1>t. log \in Seq(Entry) /\ Loaded \in Contents
  BY LoadedType DEF IInv, TypeOK
<1>1. /\ Running /\ ~ Running' /\ index' = Empty /\ synced' = Len(log)
      /\ UNCHANGED <<log, snapshot, th>>
  BY DEF Exit, Running
<1>2. ~ InFlight(c1) /\ ~ InFlight(c1)' /\ Loaded' = Loaded /\ (Whole' <=> Whole)
  BY <1>1 DEF IInv, Exit, InFlight, Loaded, Whole
<1>3. Kept' = <<Abstract!Last>>
  <2>1. FirstKept' = Len(log)
    BY <1>1 DEF FirstKept
  <2>2. Kept' = Prefixes(Loaded, log, Len(log)) /\ Abstract!Last = Replay(Loaded, log)
    BY <1>1, <1>2, <2>1, KeptNow, KeptNext DEF IInv
  <2> QED
    BY <1>t, <2>2, OnePrefix
<1> QED
  BY <1>1, <1>2, <1>3
     DEF Abstract!Shutdown, Abstract!Stop, Abstract!Empty, Abstract!None, Empty

\* The steps of the background thread and the beginning of a shutdown.
LEMMA SyncerStep ==
  ASSUME IInv, IInv', (SyncLoop /\ UNCHANGED kvVars) \/ Shutdown
  PROVE  Abstract!Flush
<1>1. log' = log /\ synced' \in {synced, Len(log)} /\ UNCHANGED <<index, snapshot, th>>
  BY DEF SyncLoop, SyncerWake, SyncerFlush, kvVars, Shutdown
<1>2. Running' <=> Running
  BY DEF SyncLoop, SyncerWake, SyncerFlush, kvVars, Shutdown, Running
<1>3. FirstKept' \in FirstKept .. Len(log)
  BY <1>1 DEF FirstKept, IInv, TypeOK
<1>4. Loaded' = Loaded /\ (InFlight(c1)' <=> InFlight(c1))
  BY <1>1 DEF Loaded, InFlight
<1> QED
  BY <1>1, <1>2, <1>3, <1>4, FlushStep

\* Initially nothing is kept.
LEMMA StartsEmpty == Init => Abstract!Init
<1> SUFFICES ASSUME Init PROVE Abstract!Init
  OBVIOUS
<1>1. /\ log = <<>> /\ index = Empty /\ snapshot = NoFile /\ synced = 0 /\ th[c1].pc = "idle"
      /\ process = "down" /\ IInv
  BY OneCaller, IdleType, IInvInit DEF Init, WALInit
<1>2. Loaded = Empty /\ FirstKept = 0 /\ Whole /\ ~ InFlight(c1) /\ ~ Running
  BY <1>1 DEF Loaded, FirstKept, Whole, InFlight, Running
<1>3. Kept = <<Empty>>
  <2>1. <<>> \in Seq(Entry) /\ Len(<<>>) = 0
    OBVIOUS
  <2>2. Kept = Prefixes(Empty, <<>>, 0)
    BY <1>1, <1>2, KeptNow DEF IInv
  <2> QED
    BY <2>1, <2>2, IdleType, OnePrefix, ReplayNothing
<1> QED
  BY <1>1, <1>2, <1>3 DEF Abstract!Init, Abstract!Empty, Abstract!None, Empty

\* As long as a full disk cannot shorten a snapshot, every step of the engine
\* is one of the durable store, or none: acknowledged writes survive kills,
\* power failures lose only unflushed suffixes, checkpoints change nothing and
\* an incomplete record does no more harm than the promise says (kvstore.cpp
\* Put, Delete, Checkpoint, Recover, WAL.cpp).
THEOREM RefinesDurableStoreHolds == "full disk" \notin Faults => (Spec => RefinesDurableStore)
<1> SUFFICES ASSUME DiskNeverFull PROVE Spec => RefinesDurableStore
  BY DEF DiskNeverFull
<1>1. Init => IInv
  BY IInvInit
<1>2. ASSUME IInv, [Next]_vars
      PROVE  IInv'
  BY <1>2, IInvStep DEF DiskNeverFull
<1>3. ASSUME IInv, IInv', [Next]_vars
      PROVE  [Abstract!Next]_(Abstract!vars)
  <2>1. CASE UNCHANGED vars
    BY <2>1 DEF vars, walVars, kvVars, Abstract!vars, Kept, FirstKept, Loaded, Replay, Applied,
                Readable, Whole, InFlight, Running
  <2>2. CASE \E t \in Caller : Write(t) \/ Snapshot(t) \/ Step(t)
    BY <1>3, <2>2, OneCaller, WriteStep, CallStep DEF Abstract!Next
  <2>3. CASE (SyncLoop /\ UNCHANGED kvVars) \/ Shutdown
    BY <1>3, <2>3, SyncerStep DEF Abstract!Next
  <2>4. CASE (\E timed \in BOOLEAN : Start(timed)) \/ Exit \/ Kill \/ PowerLoss
    BY <1>3, <2>4, StartStep, ExitStep, KillStep, PowerLossStep DEF Abstract!Next
  <2> QED
    BY <1>3, <2>1, <2>2, <2>3, <2>4 DEF Next
<1> QED
  BY <1>1, <1>2, <1>3, StartsEmpty, PTL DEF Spec, RefinesDurableStore, Abstract!Spec

=============================================================================

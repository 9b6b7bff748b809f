-------------------------- MODULE CompareBenchmark --------------------------
(***************************************************************************)
(* src/compare_benchmark_main.cpp: the same calls, made by a growing       *)
(* number of threads, of the engine without and with its log, of a map     *)
(* under a mutex (MapStore), and of that map behind a log of the engine's  *)
(* kind (WalBackedStore).                                                  *)
(*                                                                         *)
(* All four are KVStore's variables here: index is the skip list or the    *)
(* map, whose calls are atomic, the first by RefinesMap and the second by  *)
(* its mutex, and return, the first by CallsReturnForSeeds: this program   *)
(* deletes only keys that it has preloaded.  Put and Delete of the stores  *)
(* with a log are KVStore's.                                               *)
(***************************************************************************)
EXTENDS KVStoreSafety, SequencesExt

CONSTANTS
  main,        \* the main thread; the others are numbers from zero
  Workloads,   \* the workloads looked at
  Operations,  \* operations_per_thread
  MaxThreads,  \* max_threads
  Preload      \* preload_keys

Seed(i)     == <<"seed", i>>
Keys        == {Seed(i) : i \in 0 .. Preload} \union ({"key"} \X (0 .. MaxThreads * Operations))
Values      == {"seed", "value", "update"} \X (0 .. Operations + Preload)
Threads     == {main} \union (0 .. MaxThreads - 1)

ASSUME CompareBenchmarkAssumption ==
  /\ Operations \in Nat \ {0} /\ MaxThreads \in Nat \ {0} /\ Preload \in Nat
  /\ main \notin 0 .. MaxThreads - 1
  /\ Key = Keys /\ Value = Values /\ Caller = Threads

VARIABLES
  workload,  \* workload_mode
  turn,      \* which run it is
  done,      \* how many calls of its program each thread has made
  sizes      \* final_size of the runs that are over

benchVars == <<workload, turn, done, sizes>>
allVars   == <<vars, benchVars>>

-----------------------------------------------------------------------------
(* Runs and programs.                                                       *)

Stores == <<"kvstore_no_wal", "kvstore_with_wal", "std_map_mutex", "std_map_mutex_wal">>

\* 1, 2, 4 and so on, and max_threads.
ThreadCounts == {n \in 1 .. MaxThreads : n = MaxThreads \/ \E i \in 0 .. n : n = 2 ^ i}

Runs     == 4 * Cardinality(ThreadCounts)
Count(n) == LET power == 2 ^ ((n - 1) \div 4)
            IN IF power \in ThreadCounts THEN power ELSE MaxThreads
Store(n) == Stores[((n - 1) % 4) + 1]
HasLog   == Store(turn) # "std_map_mutex"
Logs     == Store(turn) \in {"kvstore_with_wal", "std_map_mutex_wal"}

\* What operation % 10 or % 20 selects; neighbours that are equal are taken once.
Cases == [mixed      |-> <<"put", "get", "delete", "update">>,
          read       |-> <<"put", "get">>,
          read_all   |-> <<"put", "delete", "scan", "get">>,
          write      |-> <<"put", "get", "delete">>]

ASSUME WorkloadAssumption == Workloads \subseteq DOMAIN Cases

\* Mutants: the thread, or both indices, are left out of the key.
KeyOfOperation(thread, operation) == <<"key", operation>>
OneKey(thread, operation)         == <<"key", 0>>
WriteKey(thread, operation) == <<"key", thread * Operations + operation>>

ReadKey(thread, operation) ==
  Seed(IF Preload = 0 THEN 0 ELSE (thread * Operations + operation) % Preload)

\* A call: what it writes, and nothing for Get and Scan, whose results are not
\* looked at.
Put(k, v) == <<[key |-> k, value |-> v]>>
Delete(k) == <<[key |-> k, value |-> Absent]>>
Look      == <<Torn>>

Calls(thread, operation) ==
  LET case == Cases[workload][(operation % Len(Cases[workload])) + 1]
      k    == WriteKey(thread, operation)
  IN CASE case = "put"    -> Put(k, <<"value", operation>>)
       [] case = "delete" -> Delete(ReadKey(thread, operation))
       [] case = "update" -> Put(k, <<"update", operation>>) \o Look
       [] OTHER           -> Look

Program(t) ==
  IF t = main THEN [i \in 1 .. Preload |-> [key |-> Seed(i - 1), value |-> <<"seed", i - 1>>]]
  ELSE FlattenSeq([i \in 1 .. Operations |-> Calls(t, i - 1)])

Through(t) == done[t] = Len(Program(t)) /\ th[t].pc = "idle"

\* PreloadStore comes first, then the threads that are started.
Active(t) ==
  /\ process = "up" /\ turn \notin DOMAIN sizes /\ ~ Through(t)
  /\ t = main \/ (Through(main) /\ t < Count(turn))

-----------------------------------------------------------------------------
BenchInit ==
  /\ Init
  /\ workload \in Workloads
  /\ turn = 1 /\ done = [t \in Threads |-> 0] /\ sizes = <<>>

\* Mutant: the log file of an earlier run is not removed.
LogAsItIs  == log
LogRemoved == <<>>

\* The store is made, on a log file that was removed.
Construct ==
  /\ process = "down" /\ turn <= Runs
  /\ process' = "up"
  /\ log' = LogRemoved /\ synced' = 0
  /\ index' = Replay(Empty, log')
  /\ interval' = Logs /\ syncer' = IF Logs THEN "wait" ELSE "none"
  /\ dirty' = FALSE /\ stop' = FALSE
  /\ done' = [t \in Threads |-> 0]
  /\ UNCHANGED <<snapshot, th, workload, turn, sizes>>

Pending(t) == Program(t)[done[t] + 1]
Returns(t) == done' = [done EXCEPT ![t] = @ + 1] /\ UNCHANGED <<workload, turn, sizes>>

\* Get, Scan.
LookUp(t) ==
  /\ Active(t) /\ th[t].pc = "idle" /\ Pending(t) = Torn
  /\ Returns(t) /\ UNCHANGED vars

\* Put and Delete without a log.
Change(t) ==
  /\ Active(t) /\ Pending(t) # Torn /\ ~ Logs
  /\ index' = [index EXCEPT ![Pending(t).key] = Pending(t).value]
  /\ Returns(t) /\ UNCHANGED <<walVars, snapshot, process, th>>

\* Put and Delete with a log.
Log(t) ==
  /\ Active(t) /\ th[t].pc = "idle" /\ Pending(t) # Torn /\ Logs
  /\ WriteRecord(t, Pending(t))
  /\ UNCHANGED benchVars
MarkLogged(t) == Mark(t) /\ UNCHANGED benchVars
ApplyLogged(t) == Apply(t) /\ Returns(t)

Call(t) == LookUp(t) \/ Change(t) \/ Log(t) \/ MarkLogged(t) \/ ApplyLogged(t)

\* KVStoreSize, MapStoreSize, WalBackedStoreSize.
Size == Cardinality({k \in Key : index[k] # Absent})

\* The threads are joined and the size is taken; the log file is removed while
\* the log still has it open.
Measure ==
  /\ process = "up" /\ turn \notin DOMAIN sizes
  /\ Through(main) /\ \A t \in 0 .. Count(turn) - 1 : Through(t)
  /\ sizes' = Append(sizes, Size)
  /\ UNCHANGED <<vars, workload, turn, done>>

\* The store is destroyed, its log with it.
Destroy ==
  /\ turn \in DOMAIN sizes
  /\ \/ HasLog /\ Shutdown /\ UNCHANGED turn
     \/ HasLog /\ Exit /\ turn' = turn + 1
     \/ /\ ~ HasLog /\ process = "up" /\ process' = "down" /\ turn' = turn + 1
        /\ UNCHANGED <<walVars, index, snapshot, th>>
  /\ UNCHANGED <<workload, done, sizes>>

SyncLogs == SyncLoop /\ UNCHANGED <<kvVars, benchVars>>

Ended == process = "down" /\ turn > Runs

BenchNext ==
  \/ Construct \/ Measure \/ Destroy \/ SyncLogs
  \/ \E t \in Threads : Call(t)
  \/ Ended /\ UNCHANGED allVars

\* Threads that have something to do are scheduled, and a call of the index returns:
\* one of the map since who holds its mutex gives it back, one of the skip list since
\* only seeds are deleted (CallsReturnForSeeds, checked by the run SkipListProgress).
BenchSpec ==
  /\ BenchInit /\ [][BenchNext]_allVars
  /\ WF_allVars(Construct \/ Measure \/ Destroy) /\ WF_allVars(SyncLogs)
  /\ \A t \in Threads : WF_allVars(Call(t))

-----------------------------------------------------------------------------
\* The calls of some threads that write: the thread, the place in its program.
RecordOf(w) == Program(w[1])[w[2]]
Writes(threads) ==
  UNION {LET program == Program(t)
         IN {t} \X {i \in 1 .. Len(program) : program[i] # Torn} : t \in threads}

\* Every variable has its type; the log holds no more than the calls of this run.
BenchTypeOK ==
  /\ TypeOK
  /\ workload \in DOMAIN Cases /\ turn \in 1 .. Runs + 1
  /\ done \in [Threads -> Nat] /\ \A t \in Threads : done[t] <= Len(Program(t))
  /\ sizes \in Seq(Nat) /\ Len(sizes) \in {turn - 1, turn}
  /\ Len(log) <= Cardinality(Writes(Threads))

\* The size is that of the calls' intent, each Put another key and each seed gone
\* that any thread deletes, for every store and however the threads interleave
\* (RunBenchmark; the report compares the stores by it).
SizesAgree ==
  \A n \in DOMAIN sizes :
    LET writes  == Writes(0 .. Count(n) - 1)
        puts    == {w \in writes : RecordOf(w).value # Absent}
        deleted == {RecordOf(w).key : w \in writes \ puts}
    IN sizes[n] = Cardinality(puts) + Cardinality({i \in 0 .. Preload - 1 : Seed(i) \notin deleted})

\* Although several threads write, the log of a store restores each key on which no
\* call is in progress: calls on one key either are one thread's or commute
\* (WalBackedStore, KVStore::Put and Delete; compare_benchmark_main.cpp:97).
LogRestoresStore ==
  process = "up" /\ Logs =>
    \A k \in Key : (\A t \in Threads : ~ (InFlight(t) /\ th[t].record.key = k)) =>
      Replay(Empty, log)[k] = index[k]

\* The benchmark ends: threads are joined, destructors return.
BenchmarkEnds == <>Ended

=============================================================================

# kv-store-skiplist: specifications, model checks and proofs

TLA+ specifications of the key-value store in `src/`: a concurrent skip list, a
write-ahead log with a flushing thread, checkpoints, crash recovery, a
single-threaded epoll server in front of them, its clients, and the benchmarks.

Line numbers below are those of `src/` at the modelled commit;
`PROJECT.json` maps every definition to the lines it stands for.

## 1. The system

| Component | State | Operations | Talks to |
|---|---|---|---|
| `SkipList` (`include/kvstore/SkipList.hpp`) | nodes (`key`, `value`, `forward`, `marked`, `fully_linked`, a mutex each), `owned_nodes_`, `current_level_`, `size_` | `Put`, `Get`, `Delete`, `Scan`, `Snapshot`, `Clear`, and the observers `Size`, `Empty`, `CurrentLevel` | shared memory between threads |
| `WAL` (`WAL.cpp`) | the file and its descriptor, `dirty_`, `stop_sync_`, the background thread | `AppendPut`, `AppendDelete`, `Replay`, `Sync`, `Reset`, `SyncLoop` | file system; `append_mutex_`, `sync_mutex_` |
| `KVStore` (`kvstore.cpp`) | the index, the log, the snapshot file | `Put`, `Get`, `Delete`, `Scan`, `Checkpoint`, recovery, destruction | calls `SkipList` and `WAL` |
| `RequestCodec` (`Protocol.cpp`) | the undecoded bytes of a connection | `Append`, `ExtractRequests` | called by the server |
| `CommandProcessor` (`Protocol.cpp`) | none | `Execute` | calls `KVStore` |
| `ReactorServer` (`Server.cpp`) | connections (socket, codec, write buffer, interest, `close_after_write`), the stop flag | event loop: accept, read, execute, write, close | epoll, sockets, `CommandProcessor` |
| `server_main` | none | options, start, stop | `ReactorServer` |
| client REPL (`client_main.cpp`) | line buffer, raw buffer | send a request or raw bytes, read one line | socket |
| network benchmark (`benchmark_main.cpp`) | a socket and a line buffer per client thread | phases of pipelined requests with expected answers | socket |
| comparison benchmark (`compare_benchmark_main.cpp`) | `MapStore`, `WalBackedStore` | the same calls of four stores, by more and more threads; `MapStore` is a `std::map` under one `std::mutex` | `WAL`, `KVStore` |

What is hard, and what makes each part correct:

* **SkipList.** Searches take no lock; a Put or Delete locks its neighbours in
  address order and validates what it found. Links change one level at a time,
  and removed nodes stay reachable for readers that stand on them. Correct means:
  the list is sorted on every level, no insertion is lost, no removed node is
  left behind, a key has one live node, `size_` is exact, calls behave as calls
  of a map, and calls return.
* **WAL and KVStore.** A write is appended, flushed or marked dirty, and applied,
  in separate steps, while a thread of its own flushes. A checkpoint replaces the
  snapshot and then truncates the log. The process may die between any two of
  these, in the middle of a record too. Correct means: snapshot and log together
  always restore the index, a flush that was promised is never forgotten, what a
  crash may lose is bounded, and shutdown ends.
* **Server, codec, client.** Frames arrive in pieces and several at a time;
  sockets accept fewer bytes than offered; connections end at any moment;
  `QUIT`, errors and disconnections race with unsent answers. Correct means: the
  answers a client gets are those of its requests in order, whatever the cuts,
  every answer is sent or its connection closed, and no connection affects another.
* **All programs together.** A client reads lines, not answers; the server may be
  killed between the log, the index, the answer and its delivery, and may be
  started again with or without a log. Correct means: a user finds what was
  confirmed, a line is shown for the request it answers as long as that can be
  known, and nobody waits forever.
* **Comparison benchmark.** Threads log and apply in separate steps, and one log
  has several writers. Correct means: all stores end with the size the calls
  imply, the log restores its store, and threads and destructors end.

`PROJECT.json` lists each hazard at its line with the properties that watch it,
and the reason where none does yet.

## 2. Modules

| Module | What it is |
|---|---|
| `SkipList` | the algorithm, one step per load or store of a shared atomic |
| `SkipListSafety` | its type invariant, heap invariants, action and progress properties |
| `ConcurrentMap` | abstract: what Put, Get, Delete, Scan, Snapshot, Clear promise concurrent callers |
| `SkipListRefinement` | `SkipList` with a history variable; the refinement mapping to `ConcurrentMap` |
| `MCSkipList`, `MCSkipListMap`, `MCSkipListProgress` | the workloads TLC runs |
| `SkipListProofs` | theorems: types, order, what a search brackets; what the locks keep, and the chain that each level is; what a walk from the head meets, `size_`, the output of a Scan |
| `SkipListRefinementProofs` | theorem: the skip list implements `ConcurrentMap` |
| `WAL` | the log file, the flushing thread, replay |
| `KVStore` | EXTENDS `WAL`: the engine's calls, checkpoint, recovery, crashes, shutdown |
| `KVStoreSafety` | its invariants and liveness properties |
| `DurableStore` | abstract: what survives a restart |
| `KVStoreRefinement` | the refinement mapping to `DurableStore` |
| `KVStoreProofs` | theorems: types, what is flushed and who forgets |
| `KVStoreRefinementProofs` | theorems: index and files agree; the engine implements `DurableStore` |
| `RequestCodec` | the codec on a stream that is read in pieces of any size |
| `RequestCodecSafety` | what a connection may rely on |
| `MCRequestCodec` | the streams TLC reads |
| `RequestCodecProofs` | theorems: what comes out of a stream |
| `Server` | the event loop between sockets and clients that pipeline |
| `ServerSafety` | its invariants and liveness property |
| `MCServer` | the clients TLC runs |
| `ServerProofs` | theorems about the event loop and its streams |
| `CommandProcessor` | the commands: which calls of `DurableStore` they make, what they answer |
| `Sessions` | EXTENDS `CommandProcessor`: terminals, benchmark clients, connections, the server's thread, starts and stops |
| `SessionsSafety` | what users may rely on, with a history of what each has been told |
| `MCSessions` | the users TLC runs |
| `SessionsProofs` | theorems: what is on its way, and what users and the benchmark are told |
| `CompareBenchmark` | EXTENDS `KVStoreSafety`: the four stores, the workloads, the runs; its properties |
| `MCCompareBenchmark` | its constants for TLC |
| `CompareBenchmarkProofs` | theorems about the four stores and the log with several writers |

### 2.1 SkipList

A thread runs one call at a time; `th[t]` holds its program counter and the
locals of the C++ function. The search (`Start`, `Advance`, `Descend`,
`FinishFind`) is shared by all operations as `FindNode`, `FindNodeNoLock` and
the head of `Scan` are the same loop.

| Code | Actions |
|---|---|
| `FindNode` 294-321 | `Start`, `Advance`, `Descend`, `FinishFind` |
| `Put` 50-62 | `UpdateExisting` (one step: the node's mutex is held throughout) |
| `Put` 64-95 | `PrepareInsert`, `LockNext`*, `InsertRetry` or `Insert`, `LinkLevel`*, `Publish`, `Count`, `Raise` |
| `Delete` 128-165 | `DeleteMiss` or `PrepareDelete`, `LockNext`*, `DeleteRetry` or `Mark`, `UnlinkLevel`*, `Uncount`, `Recompute`*, `Lower` |
| `Get` 98-120 | `Reread` (the second load, 335), `Peek`, `Read` |
| `Scan`, `Snapshot` 169-222 | `ScanNothing`, `StepNext`, `Walk`, `Collect`, `ReturnWalk` |
| `Clear` 233-246 | `Clear`, only while no call is in progress (`lifecycle_mutex_`) |

Nodes are addresses, numbers that `LockNodes` sorts by; the head has one in the
middle so that nodes lie before and after it. `RandomLevel` may return any
level. Validation (`CanInsert`, `Deletable`) is one step: while a predecessor is
locked and unmarked and points at the node, nobody else can change that pointer
or mark that node, so reading the conditions one by one has the same outcomes.
A freed address is reused only after `Clear`, as in the code, which keeps
unlinked nodes until then. `Clear`'s own steps are one, since it runs alone.

Atomics are sequentially consistent in the model. The code pairs `release`
stores with `acquire` loads; `size_` is relaxed and only counts.

### 2.2 WAL and KVStore

The log is a sequence of records of which the first `synced` are surely on the
disk. A record is a key and a value (`Absent` for a deletion), or `Torn`, one of
which only some bytes were written. Appends, the background flush and a reset
hold `append_mutex_`, so each is a step.

| Code | Actions |
|---|---|
| `KVStore::Put`, `Delete` 157-175 | `Write` (append), `Mark` (`MarkDirty`), `Apply` (index) |
| `KVStore::Checkpoint` 183-192 | `Snapshot`, `Rename` or `SnapshotFails`, `Reset` or `ResetFails` |
| `Impl::Impl` 126-142 | `Start`: load the snapshot, replay the log, or throw |
| `WAL::SyncLoop` 395-425 | `SyncerWake` (take `dirty_`), `SyncerFlush` |
| `WAL::~WAL` 319-323, `StopSyncThread` | `Shutdown`, the loop's last round, `Exit` |
| the world | `Kill`, `PowerLoss` |

The two critical sections at the top of `SyncLoop` (400-413) are one step: the
first only waits, and what the second reads is what counts.

Fault model. `Faults` selects: `"kill"`, the process dies at any point and the
files stay as they are; `"torn"`, a crash may leave a part of a record at the end
of the log; `"power"`, everything that was not flushed may be lost from some
record on; `"full disk"`, a snapshot may be cut short without an error
(`close()`, kvstore.cpp:68). An incomplete record ends the replay; if bytes
follow it, the replay may also throw (`ReplayMayThrow`), as they are then read
as the incomplete record's missing bytes: the outcome depends on lengths, which
the model leaves open.

The index is a map in `KVStore`: with the one caller the server is, the skip
list's calls are sequential, and `RefinesMap` says that they then are those of a map.

### 2.3 Server

The loop is one thread; `pc` says whether it waits, goes through a batch of
events, accepts, or reads or writes for one connection. A batch is what was ready
when `epoll_wait` returned: `events` may be out of date when a handler runs.

| Code | Actions |
|---|---|
| `Run` 128-153 | `Wait`, `BeginAccept`, `EndBatch`, `Stop` |
| `AcceptConnections` 224-258 | `Accept`*, `EndAccept` |
| `HandleConnectionEvent` 260-283 | `HangUp`, `BeginRead`, `BeginWrite`, `Resume` (the EPOLLOUT part) |
| `ReadFromConnection` 285-331 | `Read`* (with `ExtractRequests` and `Execute`), `ReadEnds`, `NoMoreInput` |
| `WriteToConnection` 333-362 | `Write`*, `Blocked`, `WriteFails`, `WrittenOut`, `CloseWritten` |
| `benchmark_main.cpp` 260-286, 373-378 | `Connect`, `Send`, `Receive`, `Finish`; `GiveUp` for a client that ends early |

A request travels as two pieces, so a read may end inside it; an answer is its
request's number and travels whole, so that a partial write takes some answers.
Sockets hold `RecvSize` pieces and `SendSize` answers; the client's writes block,
the server's return `EAGAIN`. A request is a command, `QUIT` (with or without
arguments, as line 318 looks at the first word only) or malformed; the exception
for a malformed one comes as soon as its first piece has been read, and the
requests decoded from the same chunk before it are lost with it, as in the code.
`Read` executes what it decodes in one step: the loop is one thread and nobody
else sees the engine. `executed` records the order.

A client that leaves closes its whole socket. The events of its connection may
then include `EPOLLRDHUP`, its unread requests may be read or lost, and what is
written goes nowhere or fails. A socket that the server closes with unread input
is reset, which may cost the client answers it has not read (`Delivered`).
`Stop` is the end of the process where the code allows it: the stop flag, tested
between batches; `accept()` failing; an exception of the engine, which only
`CHECKPOINT` catches; `SIGPIPE`, which is not ignored. All ready connections fit
into one batch, and a connection made again is another client.

### 2.4 RequestCodec

A stream is a sequence of parts: `*` or `$` with its number, CR, LF, and other
bytes; `Read(n)` appends any number of them and decodes as `ReadFromConnection`
does. The definitions follow `TryExtractResp`: `LineIncomplete` and `NotSuchLine`
are the two ways the array line and the lines of tokens fail (84-92, 99-114),
`TokenMissing` and `Terminated` the two checks of the content (118-123), `DataEnd`
the sum that is taken modulo `SizeLimit`. `Throwing` stands for every exception,
those of `compare` behind the end of the buffer included; the server catches them
all and closes. Digits are not spelled out, so that a cut inside a number is a cut
before its line end; signs and spaces, which `strtoul` accepts, are left out, and
so is the exception of `reserve` for more tokens than memory holds.

`Server` relies on what is shown here: a request is handed over once, when its last
piece has arrived, and a malformed one throws.

### 2.5 CommandProcessor and Sessions

`Sessions` composes the programs on top of what the other modules show: of
`Server`, that the requests of a connection are executed and answered in order;
of `RequestCodec`, that a request is whole or malformed; of `KVStore`, that it
implements `DurableStore`. `CommandProcessor` uses the abstract engine's actions
with its own variables (`Engine == INSTANCE DurableStore`).

| Code | Definitions |
|---|---|
| `Execute`, `ExecuteCommand` (Protocol.cpp 174-250) | `WellFormed`, `Ill`, `Found`, `Listed`, `Reply`, `Outcome` |
| `KVStore::Put`, `Delete` (157-175) | `LogWrite` then `ApplyWrite`, or `ApplyUnlogged` |
| `KVStore::Checkpoint` (183-192) | nothing on a sound log; `BeginCheckpoint`, `EndCheckpoint` on a damaged one |
| the terminal (client_main.cpp 245-281) | `Connect`, `Submit`, `ReadLine`, `EndOfFile`, `Leave` |
| the benchmark (benchmark_main.cpp 260-378) | the same with `Script`, `BenchValue`, `NextBatch`, `Expected`, `Done` |
| `ReadFromConnection` 306-324 | `Begin` and `End` of one request; `Refuse`, the exception for a malformed one |
| `CloseConnection` | `Drop`, `Hangs` |
| `main` of the server | `StartServer(wal)`, `StopServer`, `KillServer` |

A terminal sends a batch and reads one line. An interactive one (`"shell"`) sends
one command; a raw one sends whatever bytes were typed, none or several requests
or nonsense, and still reads one line, so that it falls behind its answers. The
benchmark reads a line for each request. An answer is a sequence of lines: a value
in it may contain a line end, and `LineReader` then sees two. `exact` says whether
the lines read so far were one for each request; until it is false, a user knows
which request a line belongs to, which is what `LinesBelong` shows. `"qUIT"`
stands for a spelling of `QUIT` that the server knows and the client does not;
`QUIT` with an argument is answered with an error and closes the connection.

`owed[k]` in `SessionsSafety` is what the owner of a key may be told: what it was
last told to have written, and what it has sent since. A restart without a log
adds that the key is absent; a stop with a damaged log or without one adds
everything. A confirmation that is read from a connection that the server has
closed does not narrow it, as the server may have been restarted since.

A malformed request in the inbox closes the connection at any time (`Refuse`),
whatever is in front of it: requests that were decoded from the same read are lost
unexecuted (Server.cpp:307-313), and where the stream was cut into reads is not said,
so any number of them may have been executed before. An empty request (`*0`) is
answered with an error. `ReadsOwnWrites` holds all the same, as a user is told nothing
of what was lost.

Power does not fail here, so of the states that `DurableStore` keeps only the last
counts (`Len(kept') = 1`). A client makes a new connection only when the server
has dropped its old one: its end precedes the new connection, and both are found
in one batch of events. Users type at will, and nothing makes them go on. Every
key has one owner, the only client that writes it. `UsersAssumption` says this of what
is typed and of the benchmark: each of its clients has a prefix of its own
(benchmark_main.cpp 309), and every key between its first and its last, the range of
its `SCAN`, has that prefix. All its values are one in the model, as no expected
answer tells them apart, and it has no line end.

### 2.6 CompareBenchmark

The four stores are `KVStore`'s variables: `index` is the skip list, whose calls
are atomic by `RefinesMap`, or `MapStore`'s map, whose calls are atomic by its
mutex. `Put` and `Delete` of both stores with a log are `WriteRecord`, `Mark` and
`Apply` of `KVStore`: `WalBackedStore` (107-119) calls the log and then the map
exactly as `KVStore` does, and its `Construct` replays as recovery does.

| Code | Definitions |
|---|---|
| `MapStore` 39-90 | `Change`, `LookUp`, `Size` |
| `WalBackedStore` 92-133 | `Log`, `MarkLogged`, `ApplyLogged`, `Construct` |
| `PreloadStore` 187-193 | `Program(main)` |
| `RunBenchmark` 195-321 | `Cases`, `WriteKey`, `ReadKey`, `Calls`, `Program`, `Active`, `Measure` |
| `main` 421-498 | `ThreadCounts`, `Stores`, `Construct`, `Destroy` |

In `Cases` the cases of a `switch` that do the same and are neighbours are taken
once: what differs between them is how often they come. Results of `Get` and
`Scan` are not looked at by the benchmark and not modelled.

### 2.7 The abstract specifications

`ConcurrentMap`: an update takes effect in one step between call and return; a
Get returns a value the key held during the call; a Scan or Snapshot is ascending
and contains every pair present throughout. Two weaknesses of the code are part of
this promise, as it would otherwise not hold: a Get may miss a key when a smaller
key arrives during the call (`Hidden`), and a Scan may contain keys below its
range that arrived meanwhile (`MayReport`): after its search Scan loads its first
node again (SkipList.hpp:187) and does not compare it with `start`. `kvstore.hpp:35`
and `protocol_reference.md:175` promise the closed interval, which one thread, the
server's, does get. The first weakness is shown by a run of its own, and the trace of
that run (`SkipListGetMiss`) is the second one's too: the load that comes too late.

`DurableStore`: the sequence of states a restart may find. A write adds one; a
flush removes all but a suffix; a kill keeps the last; a power failure picks one.
A crash that leaves an incomplete record damages the store: until a checkpoint
succeeds, new writes may not be kept and a restart may fail.

## 3. Runs

| Run | Question | Result |
|---|---|---|
| `SkipListMap` | heap invariants, `MarkedFrozen`, refinement of `ConcurrentMap` | holds, 621 000 states |
| `SkipListProgress` | does every call return? | yes, unless `current_level_` is too low for good; and even then if only keys put in beforehand are deleted, 1 172 000 states |
| `SkipListStaleLevel` | does every Delete return? | no |
| `SkipListGetMiss` | does Get find a key that stays present? | no |
| `KVStoreRecovery` | snapshot + log = index; refinement of `DurableStore`; who may forget an unflushed record | holds (only a restart may), 442 000 states |
| `KVStoreFlush` | flush bookkeeping, shutdown | holds, 54 000 states |
| `ServerPipelining` | order of requests and answers, interest in `EPOLLOUT`, `BYE`, every client gets through | holds, 277 000 states |
| `RequestCodecCuts` | do cuts of the stream change its requests? | no, 10 600 states (but those decoded in front of a malformed one in the same read are lost, and a length whose end wraps around to a line end gets a request handed over early) |
| `Sessions` | do users find what was confirmed, get the lines of their requests, and never wait forever? is the benchmark ever surprised? | holds, 216 000 states |
| `CompareBenchmark` | do the four stores agree, does a log with several writers restore its store, does the benchmark end? | holds, 75 000 states |
| `KVStoreTornTail` | does a restart skip an incomplete record? | once, but not the next time |
| `KVStoreShortSnapshot` | is the log truncated only after a good snapshot? | no, on a full disk |

Properties are stated in the `*Safety` and `*Refinement` modules, each with the
behaviour it is about.

### What the failing runs show

* `SkipListStaleLevel` (SkipList.hpp:403). Delete recomputes `current_level_`
  from the head's pointers and stores the result blindly. If a taller node is
  linked and `RaiseCurrentLevel` runs between the load and the store, the level
  is lowered below a linked node. Searches never look at that level; `FindNode`
  reports the head and null there; a Delete of the tall node then fails
  `CanDelete` on every attempt. `CallsReturnUnlessLevelStale` shows that this is
  the only way for a call not to return.
* `SkipListGetMiss` (335): the pointer that ended the search is loaded a second
  time and may have changed.
* `KVStoreTornTail` (WAL.cpp:219): the incomplete record is skipped but not cut
  off, and the next record is appended behind it.
* `KVStoreShortSnapshot` (kvstore.cpp:68): `good()` is asked before `close()`.

Three more departures show in properties that hold because they say so.
`WrapsToLineEnd` (Protocol.cpp:117): the end of a token is computed in `size_t`; a
length next to the limit can put it on a line end in front of the content (two below
the limit the one of its own length, a little lower that of the array), which passes
for the terminator, and the request is handed over before its content has arrived.
`protocol_reference.md:239` rules that out for every request; `RequestsFollowStream`
shows it of all streams but these, on which it asks for nothing once the well-formed
requests are over. `MayReport` (2.7) is the second, the records that a restart forgets
(`OnlyRestartForgets`, WAL.cpp:311) the third.

The skip-list findings need several threads on one list, which the tests and the
comparison benchmark have and the server has not. The hang needs more: a Delete of a
key that was put in while another Delete was recomputing the level. The comparison
benchmark deletes nothing but keys that it has preloaded, and `CallsReturnForSeeds`
shows of its calls (`SeedsWork`) that they return. While such a key of height `h` is
there, the head points into level `h`, so every `RecomputeCurrentLevel` stores more
than `h` and no search for the key starts too low. The level does become stale for
keys put in by the threads; a Put with a height above it fails its validation, looks
again and draws another height.

### Bounds, and why they are enough

* `SkipListMap`: three threads, two keys, two levels, two free addresses on both
  sides of the head. Two levels give half-linked and half-unlinked nodes; two
  keys give a neighbour on either side; the thread with two calls deletes what it
  or its rival put; the third thread does one of everything. Two writers and one
  observer are what a disagreement about one node takes. An insertion that finds
  no address left waits; nodes are owned until `Clear`, so at most two insertions
  succeed before one.
* `SkipListProgress`, `SkipListStaleLevel`: four keys and two threads, so that a
  tall node is removed while another is inserted before and after it (`RemoversWork`);
  `Node` holds all of them. `SkipListProgress` has a second workload, chosen at the
  beginning, for `CallsReturnForSeeds` (`SeedsWork`): two seeds, of which one is deleted behind the other (the level goes
  stale only when the victim's predecessor is not the head, which the Delete locks),
  the other by both threads, and a new key for each thread, in front of the seeds as
  `key-` is in front of `seed-`. States with a stale level under a Put and under a
  Delete are reached.
* `SkipListGetMiss`: one writer, one reader, two keys.
* `KVStoreRecovery`: two keys and two values distinguish an old from a new value
  and one key's write from another's; three records (`MaxLog`) give a flushed
  one, one in flight and one behind an incomplete record. `MaxLog` only bounds
  `Write` and the incomplete records.
* `KVStoreFlush`: two callers and a checkpoint around the thread; the content of
  records does not matter, so one key and one value.

* `ServerPipelining`: two clients, so that a handler of one runs on events that
  were collected with those of the other. One pipelines four requests through
  sockets that hold two pieces and one answer, so that both directions block at
  once; reads return three pieces, so a request is cut and another is completed
  by the same read. The scripts have `QUIT` at the end, `QUIT` in the middle and a
  malformed request behind a good one.

* `RequestCodecCuts`: one request of up to two tokens or two of up to one, as the
  codec starts afresh behind each; tokens that are empty, end in CR or are a line
  end; every way a frame can be wrong. `SizeLimit` is 64: more than any stream is
  long, so that nothing wraps but lengths next to the limit; those with an end
  before, at and behind the offset they start from are all there, and both line ends
  that stand in front of a first token (`Wrapping`).
* `Sessions`: one client of each kind; the interactive one owns a key, the raw one
  another, the benchmark two. `Bounds` lists the mixtures: an interactive user with
  three commands and two stops of the server; with a raw one beside it, and with both
  and a stop; a raw one with two batches and a stop, and with three; the benchmark
  alone, through a stop and into a second
  run; the benchmark beside a raw user. Three commands write, read and write again
  across restarts; two stops give a damaged log and its consequences. `Depth` 2 makes
  the benchmark's batches pipelines; of the two values one holds a line end. Among the
  raw batches are a PUT and a DEL with nonsense behind them, and an empty request.
* `CompareBenchmark`: every workload, one and two threads (the sweep's first two
  counts), four operations, so that each case of the longest `switch` comes, and a
  seed that both threads delete. One seed is a conflict between any two of them;
  more threads add no other kind of pair.

Deadlock is checked in every run but three. In `ServerPipelining` clients come
once and the server may stop, so its last states have no successor; that nobody
waits forever is what `ClientsGetThrough` says. The codec's run ends with the
stream. In `Sessions` users have typed all that `Bounds` gives them and the server
has stopped as often as it may; `WaitingEnds` says that nobody waits forever. The skip-list workloads end in
`Finished` or `Over`.

### Fairness

`SkipList`: weak fairness of each thread's `Step` once it has begun a call: the
operating system schedules runnable threads. A thread that waits for a mutex has
no step while it is held; locks are released by threads that are themselves
fairly scheduled. No fairness of one action over another, of who gets a mutex or
of `RandomLevel` is assumed by the specification. `CallsReturnForSeeds` has as its
hypothesis that a Put which draws a height again and again draws the lowest in the end
(`DrawLowest`, strong fairness), as independent draws do with probability one. Without it TLC shows a Put that draws a
height above a stale level for ever.

`KVStore`: weak fairness of the callers' steps inside a call, of the background
thread (its timed wait ends; flushes end) and of the destructor. Nothing makes a
caller write or the process start, stop or crash. `Checkpoint` may fail forever.

`Server`: weak fairness of the loop (`Run`, without `Stop`) and of each connected
client's sends and receives: one thread that blocks only in `epoll_wait`, and
clients that go on as the benchmark does. Nobody has to connect or to leave early,
and nothing makes the process stop.

`Sessions`: weak fairness of each client's reads (`read` returns when there is a
line or the end of the connection) and of the server's handling of each
connection, which `ServerPipelining` justifies: the loop comes round to every
connection with requests. Users, starts and stops are not fair, nor is `Drop`.

`CompareBenchmark`: weak fairness of every thread's calls, of the main thread and
of the flushing thread. A call of the index is one step that is always taken in the
end. For the map that is what its mutex gives, for the skip list what `CallsReturnForSeeds`
shows of callers that delete only what was preloaded, not what holds of any callers
(`SkipListStaleLevel`); it rests on the same draws. `Get` and `Scan` do not retry, and
what they walk over is finite and ascending (`Sorted`).

## 4. Proofs

All proofs are checked by TLAPS for every value of the constants, under the
modules' named assumptions: `SkipListAssumption`, `AbsentAssumption`,
`WALAssumption`, `KVStoreAssumption`, `RequestCodecAssumption`, `ServerAssumption`,
`CommandAssumption`, `CompareBenchmarkAssumption`, `WorkloadAssumption` and
`SessionsAssumption` say no more than what the constants are, the last one also that a
benchmark client's keys differ; `UsersAssumption` (`SessionsSafety`) says who writes
which key (2.5); `FitsAssumption` (`RequestCodec`) that every request fits into the
memory of its client; `OneCaller` (`KVStoreRefinement`) says that one thread calls the
engine, which the server ensures. Where a theorem needs more, its statement says
so: a memory of finitely many nodes, finitely many threads or callers, or a
`Faults` without the one that the run `KVStoreShortSnapshot` shows to be fatal
(`"full disk"`) or that a restart cannot know about (`"kill"`).

### 4.1 Skip list

**Types, order, brackets** (`SkipListProofs`): `TypeCorrect`, `OrderHolds` and
`BracketsHold` are `TypeOK`, `Sorted` and `SearchBracketsKey`. None of them is
inductive. That a search's recorded nodes bracket its key needs sortedness of
removed nodes too, because searches walk over them; sortedness after an insertion
needs the bracket, the validation, and that the new node is nobody else's;
unlinking needs that the victim's pointers are those of a node of its height.
`IInv` (`InvariantHolds`) joins them and adds what each phase of a call knows
about its locals and locks. `NextIInv` has a step per action; actions that leave
the heap alone are dealt with by lemmas on what a search may read, the others
disturb at most one node and one thread, and the lemmas say what remains.

`TypeOK` also says that no thread holds the address of a node that the list does not
own, so that memory freed before `Clear` would break it. `AllHeld` is the invariant:
what a search reads out of owned nodes leads to owned nodes (`Sorted`), nodes stay
owned under every step but `Clear`, and `Clear` runs when no thread holds any address.

**Locks and chains** (in the same module). What a level consists of is first
said without reachability: `On(l)` is the set of nodes that an insertion has
linked into level `l` and no deletion has unlinked from it, told from the
threads' program counters. `LockInv` says that the pointers of a level lead from
each of its nodes to the next one with no node of `On(l)` between, and what the
locks are for: a validated predecessor stays unmarked, linked and pointing at the
recorded successor while its lock is held, so the store that links or unlinks is
about the chain as it is. `LevelsChained` is the invariant; `LiveKeysDiffer`
(`OneLiveNodePerKey`) follows, as two nodes of one key cannot both be between the
same neighbours, and `MarkedStaysFrozen` (`MarkedFrozen`: pointers, value and mark)
because every store into a node is made by a thread that holds its lock and saw it
unmarked.

**What a walk meets** (there too). A chain in ascending order that
starts at the head is walked to its end, as the memory is finite: `OnLevel(l)`,
the nodes that `SkipListSafety` finds by walking, is `On(l)`.
`LiveNodesReachable`, `RemovedNodesUnreachable` and `LevelsStayNested` read that
off. `SizeIsExact` counts the live nodes against the calls that have published or
marked and not counted yet. `OutputIsAscending` needs neither locks nor chains:
every pointer of every node, removed or not, leads to a larger key.

**The refinement** (`SkipListRefinementProofs`): `ImplementsMap` is
`HSpec => RefinesMap`. The history variable `seen` holds what each key has held
since a call began; what a call may answer has to follow from it although the
nodes that the call stands on may be removed under it. `HistoryInv`
(`HistoryHolds`) therefore has a trail for every call: a set of nodes with levels
that they have been on since the call began, all present ones included. A node of
the trail that has left its level leads to others of the trail, and on the lowest
level past nothing but keys that were absent at some time of the call (`Gap`). So a
search or walk stays on its trail whatever is removed under it, and a key that it
has passed by was absent at some time of the call, which is what a missing `Get` or
`Delete` and a `Scan` that leaves a key out answer with.
`Rereading` is the second load of SkipList.hpp:335 and its two weaknesses (2.7).
`InitMapped` and one lemma for each kind of step (reads, updates of a value, the
step that publishes, the one that marks, `Clear`, answers) map the steps of the
list to steps of `ConcurrentMap` or to stuttering.

### 4.2 Log and engine

* `StoreTypeCorrect`: types under every fault, among them `synced <= Len(log)`.
* `UnflushedIsRememberedHolds`: any number of callers, any faults but `"kill"`.
  After a kill the records found in the file may be unflushed and the new process
  does not know it.
* `OnlyRestartForgetsHolds`: any number of callers, every fault. This start is the
  only step after which an unflushed record is not remembered. Its proof shares
  the case of the calls with the theorem above, as a call's process is up.
* `FlushedWhenAcknowledgedHolds`: any finite number of callers, any faults but
  `"kill"`, in the mode that flushes every write: no more records are missing on the
  disk than there are callers between their append and their flush (`Marking`).
* `IndexMatchesDiskHolds` (`KVStoreRefinementProofs`): one caller, no full disk.
  The argument is a fact about replay: appending a record changes the result at
  its key only (`ReplayAppend`), and replaying a log over what it already produced
  changes nothing (`ReplayTwice`), which is what makes the crash between `Rename`
  and `Reset` harmless. The inductive invariant adds that the entries a checkpoint
  took still are the index, and which calls have a record in the log.
* `RefinesDurableStoreHolds`: the same hypotheses; `KVStore` implements
  `DurableStore`. Initial states map to initial states, and each action to a write,
  a flush, a checkpoint, a crash, a restart or a stutter; the list of states that a
  restart may find is the list of what the prefixes of the log behind `synced`
  restore, and the mapping of a crash takes the suffix of that list that the crash leaves.

### 4.3 Server (`ServerProofs`)

All theorems are for any clients, scripts, pipeline depth and sizes of sockets and
reads.

`InterestFollowsBufferHolds`: the property speaks of moments between two handlers;
`Connection` adds what holds inside them (a connection being read never asks for
EPOLLOUT without need, though it may not ask yet) and that a connection that is
not open has no events, no buffer and no handler, so that a stale event of the
batch cannot revive it. `Closing` and `Resuming` treat the two ways a handler
ends; each action is one of them or leaves interest and buffer as they are.

`ServerTypeCorrect`, `RequestsInOrderHolds` and `ByeIsSaidHolds` follow from
`StreamInv`. Requests and answers are numbers, and `Counts(s, n)` says that `s`
holds those that follow `n`; lemmas say what cutting, joining and decoding do to
it. `Unbroken` lines up executed requests, codec and socket on the way in, and
what was read, the socket and the write buffer on the way out; every handler moves
a boundary. `Reasons` keeps why a connection may be closed: the malformed request
is in the script because what has arrived are pieces of the script
(`ThrowsMalformed`), and when the last request is the first `QUIT`, its execution
leaves nothing in the socket, so that closing resets nothing and `BYE` arrives
(`WrittenBye`).

### 4.4 Comparison benchmark (`CompareBenchmarkProofs`)

The theorems are for every set of workloads, number of operations, threads and
preloaded keys. They rest on what a program is (`ProgramDrafted`): every record is
written by an operation of the thread, which puts its own key or deletes a
preloaded one. `Places` shows that no two operations have one key (its products are
the only arithmetic beyond addition here), so calls of different threads either
are about different keys, or all delete one (`PutsDiffer`). `FlattenIn` stands for
the induction that joins the calls of the operations: what each one carries from a
set of sequences to the next holds of the whole program, by the least place where
it would not.

`BenchInv` joins where each thread is (`Where`: the record that it writes is the one
its program says, in a run that is not over, after the preloading), and:

* `LogShort`, for `BenchTypeCorrect`: the log holds at most one record for each call that
  has appended, as the file of the run before was removed.
* `LogFollows`, for `LogRestoresStoreHolds`: of a key on which calls are in progress
  the log holds what any of them writes, of the others what the index holds. It is
  not enough to say the second, as the property does: the first is what is left of
  a call once it has changed the index while another one has not
  (`SameKeySameValue`). The replay of a longer log is that of 4.2 (`ReplayAppend`).
* `IndexFollows`, for `SizesAgreeHolds`: a key is there if some call has put it and
  none has deleted it, so the order of the calls makes no difference; at the end of a
  run (`AllIsDone`) that is what the workload says, and the puts are as many as their
  keys (`PutsAreKeys`).

### 4.5 Sessions (`SessionsProofs`)

The theorems are for any number of terminals and benchmark clients, any keys, values,
typed batches and bounds, and any pipeline depth; `SessionsInvariantHolds` is the
inductive invariant `IInv`, the others follow from it. None of the properties is
inductive, and each needs most of the rest: the benchmark is answered what it expects
only if the lines are those of its requests *and* its keys hold what its own requests
made of them.

* `Types`, and `Busy`: the server is in the middle of a request at the head of an
  inbox, and it is this request's write that the log has and the index has not.
* `Holds`: the index and what the next start will find hold what is `owed`, and
  they differ by the write in progress only, unless the log is damaged or off.
* for each client `Connected` (how process and connection go together), `InOrder`
  (the requests on their way are the last ones sent, the lines on their way answer
  earlier ones) and, while the client can know which line answers what, `Matching`
  (the lines answer the requests it waits for, from the first on, without a gap) and
  `Truthful` (what was executed and not yet read about is in the index; an answer on
  its way to a `GET` shows what may be told).
* for a benchmark client `Scripted`: it waits for a piece of its script, of one
  phase; every line on its way is one that is expected; and of its keys those that it
  has put and not yet deleted are there.

What the commands answer is dealt with first (`ReplyIn`, `OutcomeIn`, `BenchReply`,
`BenchOutcome`: one line, the expected one), and what the script is (`ScriptHeads`,
`PhaseContiguous`: its requests in phases; `WritesDiffer`: no phase writes a key twice,
so a pipelined write cannot undo another before it was read about). A step is then one
of a few kinds: a request is answered (`AnsweredKeeps`), a connection hangs or ends
(`HungKeeps`, `GoneKeeps`), a batch is sent (`SubmitKeeps`), a line is read
(`ReadLineKeeps`), the server starts or stops. `OtherClient` says that none of them
disturbs another client: by `UsersAssumption` nobody else writes its keys.

`BenchmarkSucceedsHolds` excludes the one way to fail, `ReadLine` of an unexpected line,
through cut-off earlier runs too: what they left of the keys is `Absent` or a value
(`MayHold`), and both are fine for the `PUT` phase of the next. `LinesBelongHolds` is
read off `Matching` at the line that is read, `ReadsOwnWritesHolds` off `Truthful`. That
a confirmation may narrow `owed` to the confirmed value (`ConfirmedWrite`) is the step
where both meet `Holds`.

### 4.6 Codec (`RequestCodecProofs`)

The theorems are for any requests with any tokens, any limit of `size_t` that they fit
into, and every cut into reads. `CodecTypeCorrect` needs no more; the other three are
about streams that are `Foreseen`: behind the requests comes nothing, less than one
more request (`Unfinished`), nonsense (`Malformed`), or a length that
`WrapsToLineEnd`, which the properties excuse. These are notions of the stream and say
nothing of the decoder; every tail of the run `RequestCodecCuts` is one of them. Left
out are the other lengths next to the limit, whose terminator the code would look for
across the limit or, wrapped around, behind what has been sent.

`CodecInv` is inductive. `TypeInv` adds that the buffer is never longer than what has
arrived. `Follows` says what an open connection has handed over and what it buffers,
of which requests a closed one has handed over a beginning, and that nonsense has
closed it. It has to say so of streams that are not `Foreseen` too, as far as their
requests (`Predictable`): what a bad end does before it arrives is nothing.

What a recursive definition computes is told without an induction theorem: where it
fails, it fails at a least place, since `<` on `Nat` is well-founded (`Induct`). With
that the flattened encodings and the two loops of the codec are unrolled
(`Flattened`, `TokenSteps`, `ExtractSteps`), and three levels of lemmas follow the
code: one token (`NextGood`, `NextWaits`, `NextBad`), one request (`WholeRequest`,
`NoRequest`), all requests of a read (`ExtractAll`). `Joined` then says that decoding
what a new read adds to the buffer is decoding the stream as far as it has arrived.

### 4.7 Only model-checked

Liveness (`CallsReturnUnlessLevelStale`, `CallsReturnForSeeds`, `ClientsGetThrough`, `WaitingEnds` and those
of `KVStore` and `CompareBenchmark`): fairness and ENABLED are beyond the provers.

## 5. Not modelled

* What `--no-wal` leaves on the disk: the log file is created and flushed on exit
  all the same, without a record.
* Power loss once there is a snapshot file: neither it nor its directory is ever
  flushed, so the file system decides what is left.
* Several callers of one `KVStore` that write the same key differently, or
  together with checkpoints. Log order and index order may then differ and a
  checkpoint may truncate a record it does not contain; the server calls the
  engine from one thread, and the comparison benchmark, which does not, keeps to
  calls that commute and makes no checkpoint.
* Weak memory beyond acquire and release; allocation failure.
* A failing `fsync` in the background thread or an append is one of the causes
  of `Kill`; a process that cannot open its files does not start.
* A full disk in `Sessions`: `DurableStore` does not describe it.
* The text form `Execute(line)` of commands and `Trim`, which only the tests call;
  how the client cuts what is typed into tokens; the `put-get` scenario, whose
  phases are some of those of the full one.
* Half-closed connections, and clients that never read: no client of the
  repository is one.
* Timing, statistics and report formats of the benchmarks, argument parsing,
  build files and scripts.

## 6. Plan

Every safety property that a passing run checks is proved; liveness is left to TLC.
What could be added are half-closed connections and clients that never read (5), for
which `Server` would need clients that the repository does not have.

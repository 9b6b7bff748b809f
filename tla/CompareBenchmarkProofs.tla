------------------------ MODULE CompareBenchmarkProofs ------------------------
(***************************************************************************)
(* For every workload, number of operations and threads and of preloaded   *)
(* keys: BenchTypeOK, LogRestoresStore and SizesAgree hold of the          *)
(* comparison benchmark.                                                   *)
(***************************************************************************)
EXTENDS CompareBenchmark, KVStoreProofs

-----------------------------------------------------------------------------
(* Keys and calls.                                                          *)

\* The place of a thread's operation among those of all threads: no two share
\* one, and none is beyond the last.
LEMMA Places ==
  ASSUME NEW t \in 0 .. MaxThreads - 1, NEW o \in 0 .. Operations - 1,
         NEW u \in 0 .. MaxThreads - 1, NEW p \in 0 .. Operations - 1
  PROVE  /\ t * Operations + o \in 0 .. MaxThreads * Operations
         /\ t * Operations + o = u * Operations + p => t = u /\ o = p
<1>1. ASSUME NEW a \in Nat, NEW b \in Nat, a < b
      PROVE  a * Operations + Operations <= b * Operations
  <2>1. b * Operations = a * Operations + Operations + (b - a - 1) * Operations
    BY CompareBenchmarkAssumption
  <2>2. \A x, y \in Nat : x * y \in Nat
    OBVIOUS
  <2>3. (b - a - 1) * Operations \in Nat /\ a * Operations \in Nat
    BY <1>1, <2>2, CompareBenchmarkAssumption
  <2> QED
    BY <2>1, <2>3, CompareBenchmarkAssumption
<1>2. \A x, y \in Nat : x * y \in Nat
  OBVIOUS
<1>3. /\ t \in Nat /\ u \in Nat /\ t < MaxThreads /\ MaxThreads \in Nat
      /\ Operations \in Nat /\ o \in Nat /\ p \in Nat /\ o < Operations /\ p < Operations
  BY CompareBenchmarkAssumption
<1>4. /\ t * Operations \in Nat /\ u * Operations \in Nat /\ MaxThreads * Operations \in Nat
      /\ t * Operations + Operations <= MaxThreads * Operations
      /\ t < u => t * Operations + Operations <= u * Operations
      /\ u < t => u * Operations + Operations <= t * Operations
  BY <1>1, <1>2, <1>3
<1> DEFINE tt == t * Operations  uu == u * Operations  mm == MaxThreads * Operations
<1>5. /\ tt \in Nat /\ uu \in Nat /\ mm \in Nat /\ tt + Operations <= mm
      /\ t < u => tt + Operations <= uu
      /\ u < t => uu + Operations <= tt
      /\ t = u => tt = uu
  BY <1>4
<1> HIDE DEF tt, uu, mm
<1>6. tt + o \in 0 .. mm /\ (tt + o = uu + p => t = u /\ o = p)
  BY <1>3, <1>5
<1> QED
  BY <1>6 DEF tt, uu, mm

Puts(k)    == {[key |-> k, value |-> v] : v \in Value}
Deletes(k) == {[key |-> k, value |-> Absent]}

\* What one operation writes: its own key is put, or a preloaded one deleted.
Writable(t, o) == Puts(WriteKey(t, o)) \union Deletes(ReadKey(t, o))

\* Own keys and preloaded ones are keys, and differ.
LEMMA KeysOfOperation ==
  ASSUME NEW t \in 0 .. MaxThreads - 1, NEW o \in 0 .. Operations - 1
  PROVE  /\ WriteKey(t, o) \in Key /\ ReadKey(t, o) \in Key
         /\ \A i : WriteKey(t, o) # Seed(i)
         /\ \E i : ReadKey(t, o) = Seed(i)
<1>1. t * Operations + o \in 0 .. MaxThreads * Operations
  BY Places
<1>2. WriteKey(t, o) \in Key
  BY <1>1, CompareBenchmarkAssumption DEF WriteKey, Keys
<1> DEFINE place == t * Operations + o
           seed  == IF Preload = 0 THEN 0 ELSE place % Preload
<1>3. place \in Nat
  BY <1>1
<1> HIDE DEF place
<1>4. seed \in 0 .. Preload
  BY <1>3, CompareBenchmarkAssumption
<1>5. ReadKey(t, o) = Seed(seed)
  BY DEF ReadKey, place
<1> HIDE DEF seed
<1>6. Seed(seed) \in Key
  BY <1>4, CompareBenchmarkAssumption DEF Keys
<1>7. \A i : WriteKey(t, o) # Seed(i)
  BY DEF WriteKey, Seed
<1> QED
  BY <1>2, <1>5, <1>6, <1>7

-----------------------------------------------------------------------------
(* Programs.                                                                *)

\* A nonempty set of numbers has a least one.
LEMMA LeastIn ==
  ASSUME NEW I, I \subseteq Nat, I # {}
  PROVE  \E m \in I : \A i \in I : m <= i
<1>1. PICK m \in I : \A i \in I : ~ (<<i, m>> \in OpToRel(<, Nat))
  BY WFMin, NatLessThanWellFounded, Zenon
<1>2. \A i \in I : ~ (i < m)
  BY <1>1 DEF OpToRel
<1> QED
  BY <1>2

\* f joins the sequences of ss one after the other.
Joins(f, ss, n) == f = [i \in 1 .. n |-> IF i = 1 THEN ss[i] ELSE f[i - 1] \o ss[i]]

LEMMA JoinsExist ==
  ASSUME NEW n \in Nat \ {0}, NEW ss
  PROVE  \E f : Joins(f, ss, n)
<1> DEFINE Bad == {m \in 1 .. n : ~ \E f : Joins(f, ss, m)}
<1>1. ASSUME Bad # {}
      PROVE  FALSE
  <2>0. Bad \subseteq Nat
    OBVIOUS
  <2>1. PICK m \in Bad : \A i \in Bad : m <= i
    <3> HIDE DEF Bad
    <3> QED
      BY <1>1, <2>0, LeastIn
  <2>2. m \in 1 .. n /\ ~ \E f : Joins(f, ss, m)
    BY <2>1
  <2>3. CASE m = 1
    <3> DEFINE f == [i \in 1 .. 1 |-> ss[1]]
    <3>1. f = [i \in 1 .. 1 |-> IF i = 1 THEN ss[i] ELSE f[i - 1] \o ss[i]]
      OBVIOUS
    <3> QED
      BY <2>2, <2>3, <3>1 DEF Joins
  <2>4. CASE m # 1
    <3>1. m - 1 \in 1 .. n /\ m - 1 < m
      BY <2>2, <2>4
    <3>2. PICK f : Joins(f, ss, m - 1)
      BY <2>1, <3>1
    <3> DEFINE g == [i \in 1 .. m |-> IF i < m THEN f[i] ELSE f[m - 1] \o ss[m]]
    <3>3. \A i \in 1 .. m - 1 : f[i] = IF i = 1 THEN ss[i] ELSE f[i - 1] \o ss[i]
      BY <3>2 DEF Joins
    <3>4. \A i \in 1 .. m : g[i] = IF i = 1 THEN ss[i] ELSE g[i - 1] \o ss[i]
      BY <2>2, <2>4, <3>3
    <3>5. g = [i \in 1 .. m |-> IF i = 1 THEN ss[i] ELSE g[i - 1] \o ss[i]]
      BY <3>4
    <3> QED
      BY <2>2, <3>5 DEF Joins
  <2> QED
    BY <2>3, <2>4
<1> QED
  BY <1>1

\* What each sequence that is appended carries from one set to the next holds
\* of the whole.
LEMMA FlattenIn ==
  ASSUME NEW n \in Nat \ {0}, NEW ss, Len(ss) = n, NEW G,
         ss[1] \in G[1],
         \A i \in 1 .. n - 1 : \A s \in G[i] : s \o ss[i + 1] \in G[i + 1]
  PROVE  FlattenSeq(ss) \in G[n]
<1> DEFINE flat == CHOOSE f : Joins(f, ss, n)
           Bad  == {i \in 1 .. n : flat[i] \notin G[i]}
<1>1. FlattenSeq(ss) = flat[n]
  BY DEF FlattenSeq, Joins
<1>2. Joins(flat, ss, n)
  BY JoinsExist
<1> HIDE DEF flat
<1>3. \A i \in 1 .. n : flat[i] = IF i = 1 THEN ss[i] ELSE flat[i - 1] \o ss[i]
  BY <1>2 DEF Joins
<1>4. ASSUME Bad # {}
      PROVE  FALSE
  <2>0. Bad \subseteq Nat
    OBVIOUS
  <2>1. PICK m \in Bad : \A i \in Bad : m <= i
    <3> HIDE DEF Bad
    <3> QED
      BY <1>4, <2>0, LeastIn
  <2>2. m \in 1 .. n /\ flat[m] \notin G[m]
    BY <2>1
  <2>3. CASE m = 1
    BY <1>3, <2>2, <2>3
  <2>4. CASE m # 1
    <3>1. m - 1 \in 1 .. n - 1 /\ m - 1 < m /\ (m - 1) + 1 = m
      BY <2>2, <2>4
    <3>2. flat[m - 1] \in G[m - 1]
      BY <2>1, <3>1
    <3>3. flat[m - 1] \o ss[m] \in G[m]
      BY <3>1, <3>2
    <3> QED
      BY <1>3, <2>2, <2>4, <3>3
  <2> QED
    BY <2>3, <2>4
<1> QED
  BY <1>1, <1>4

\* A call that writes a record, and so does a program.
Writing(e) == e # Torn

\* What the first n operations of a thread may make its program: each record is
\* one that an operation writes, and no two of them put, or put and delete, one
\* key.
Drafts(t, n) ==
  {s \in Seq(Entry) :
     /\ \A i \in 1 .. Len(s) : Writing(s[i]) => \E o \in 0 .. n - 1 : s[i] \in Writable(t, o)
     /\ \A i, j \in 1 .. Len(s) :
          Writing(s[i]) /\ Writing(s[j]) /\ s[i].value # Absent /\ s[i].key = s[j].key => i = j}

\* The calls of one operation.
CallsOf(t, o) ==
  {c \in Seq(Entry) : /\ Len(c) \in 1 .. 2
                      /\ Writing(c[1]) => c[1] \in Writable(t, o)
                      /\ Len(c) = 2 => ~ Writing(c[2])}

LEMMA WritableRecords ==
  ASSUME NEW t \in 0 .. MaxThreads - 1, NEW o \in 0 .. Operations - 1,
         NEW r \in Writable(t, o)
  PROVE  /\ r \in Record /\ Writing(r)
         /\ r.value # Absent => r.key = WriteKey(t, o)
         /\ r.value = Absent => r.key = ReadKey(t, o)
<1>1. r \in Record
  BY KeysOfOperation DEF Writable, Puts, Deletes, Record
<1>2. r # Torn
  BY <1>1, WALAssumption DEF Record, Torn
<1> QED
  BY <1>1, <1>2, WALAssumption DEF Writable, Puts, Deletes, Writing

LEMMA CallsOfOperation ==
  ASSUME NEW t \in 0 .. MaxThreads - 1, NEW o \in 0 .. Operations - 1
  PROVE  Calls(t, o) \in CallsOf(t, o)
<1>1. <<"value", o>> \in Value /\ <<"update", o>> \in Value
  BY CompareBenchmarkAssumption DEF Values
<1>2. /\ [key |-> WriteKey(t, o), value |-> <<"value", o>>] \in Writable(t, o)
      /\ [key |-> WriteKey(t, o), value |-> <<"update", o>>] \in Writable(t, o)
      /\ [key |-> ReadKey(t, o), value |-> Absent] \in Writable(t, o)
  BY <1>1 DEF Writable, Puts, Deletes
<1> DEFINE case == Cases[workload][(o % Len(Cases[workload])) + 1]
<1>3. /\ case = "put" => Calls(t, o) = <<[key |-> WriteKey(t, o), value |-> <<"value", o>>]>>
      /\ case = "delete" => Calls(t, o) = <<[key |-> ReadKey(t, o), value |-> Absent]>>
      /\ case = "update" =>
           Calls(t, o) = <<[key |-> WriteKey(t, o), value |-> <<"update", o>>]>> \o <<Torn>>
      /\ case \notin {"put", "delete", "update"} => Calls(t, o) = <<Torn>>
  BY DEF Calls, Put, Delete, Look
<1> HIDE DEF case
<1>4. ASSUME NEW r \in Writable(t, o)
      PROVE  <<r>> \in CallsOf(t, o) /\ <<r>> \o <<Torn>> \in CallsOf(t, o)
  <2>1. r \in Entry /\ Torn \in Entry /\ ~ Writing(Torn)
    BY WritableRecords DEF Entry, Writing
  <2>2. <<r>> \in Seq(Entry) /\ <<Torn>> \in Seq(Entry) /\ Len(<<r>>) = 1 /\ Len(<<Torn>>) = 1
    BY <2>1
  <2> DEFINE c == <<r>> \o <<Torn>>
  <2>3. c \in Seq(Entry) /\ Len(c) = 2 /\ c[1] = r /\ c[2] = Torn
    BY <2>2
  <2> HIDE DEF c
  <2>4. c \in CallsOf(t, o)
    BY <2>1, <2>3 DEF CallsOf
  <2>5. <<r>> \in CallsOf(t, o)
    BY <2>2 DEF CallsOf
  <2> QED
    BY <2>4, <2>5 DEF c
<1>5. <<Torn>> \in CallsOf(t, o)
  <2>1. <<Torn>> \in Seq(Entry) /\ Len(<<Torn>>) = 1 /\ ~ Writing(Torn)
    BY DEF Entry, Writing
  <2> QED
    BY <2>1 DEF CallsOf
<1>6. CASE case = "put"
  BY <1>2, <1>3, <1>4, <1>6
<1>7. CASE case = "delete"
  BY <1>2, <1>3, <1>4, <1>7
<1>8. CASE case = "update"
  BY <1>2, <1>3, <1>4, <1>8
<1>9. CASE case \notin {"put", "delete", "update"}
  BY <1>3, <1>5, <1>9
<1> QED
  BY <1>6, <1>7, <1>8, <1>9

\* One operation more.
LEMMA DraftGrows ==
  ASSUME NEW t \in 0 .. MaxThreads - 1, NEW n \in 0 .. Operations - 1,
         NEW s \in Drafts(t, n), NEW c \in CallsOf(t, n)
  PROVE  s \o c \in Drafts(t, n + 1)
<1> DEFINE l == s \o c
<1>1. /\ s \in Seq(Entry) /\ Len(s) \in Nat
      /\ \A i \in 1 .. Len(s) : Writing(s[i]) => \E o \in 0 .. n - 1 : s[i] \in Writable(t, o)
      /\ \A i, j \in 1 .. Len(s) :
           Writing(s[i]) /\ Writing(s[j]) /\ s[i].value # Absent /\ s[i].key = s[j].key => i = j
  BY DEF Drafts
<1>3. /\ c \in Seq(Entry) /\ Len(c) \in 1 .. 2
      /\ Writing(c[1]) => c[1] \in Writable(t, n)
      /\ Len(c) = 2 => ~ Writing(c[2])
  BY DEF CallsOf
<1>4. /\ l \in Seq(Entry) /\ Len(l) = Len(s) + Len(c)
      /\ \A i \in 1 .. Len(s) : l[i] = s[i]
      /\ \A i \in Len(s) + 1 .. Len(l) : l[i] = c[i - Len(s)]
  BY <1>1, <1>3
<1> HIDE DEF l
<1>5. ASSUME NEW i \in 1 .. Len(l), i > Len(s), Writing(l[i])
      PROVE  i = Len(s) + 1 /\ l[i] \in Writable(t, n)
  <2> DEFINE d == i - Len(s)
  <2>1. l[i] = c[d]
    BY <1>1, <1>4, <1>5
  <2>2. d \in 1 .. Len(c) /\ i = Len(s) + d
    BY <1>1, <1>3, <1>4, <1>5
  <2> HIDE DEF d
  <2>3. d = 1
    BY <1>3, <1>5, <2>1, <2>2
  <2> QED
    BY <1>3, <1>5, <2>1, <2>2, <2>3
<1>6. ASSUME NEW i \in 1 .. Len(l), Writing(l[i])
      PROVE  \E o \in 0 .. n : l[i] \in Writable(t, o) /\ (i <= Len(s) <=> o < n)
  <2>1. CASE i <= Len(s)
    <3>1. PICK o \in 0 .. n - 1 : l[i] \in Writable(t, o)
      BY <1>1, <1>4, <1>6, <2>1
    <3> QED
      BY <2>1, <3>1
  <2>2. CASE i > Len(s)
    BY <1>1, <1>5, <1>6, <2>2
  <2> QED
    BY <1>1, <1>4, <2>1, <2>2
<1>7. ASSUME NEW i \in 1 .. Len(l), NEW j \in 1 .. Len(l), i <= Len(s), j > Len(s),
             Writing(l[i]), Writing(l[j]), l[i].value # Absent \/ l[j].value # Absent
      PROVE  l[i].key # l[j].key
  <2>1. PICK o \in 0 .. n - 1 : l[i] \in Writable(t, o)
    BY <1>6, <1>7
  <2>2. l[j] \in Writable(t, n) /\ o \in 0 .. Operations - 1
    BY <1>5, <1>7, CompareBenchmarkAssumption
  <2>3. /\ l[i].value # Absent => l[i].key = WriteKey(t, o)
        /\ l[i].value = Absent => l[i].key = ReadKey(t, o)
        /\ l[j].value # Absent => l[j].key = WriteKey(t, n)
        /\ l[j].value = Absent => l[j].key = ReadKey(t, n)
    BY <2>1, <2>2, WritableRecords
  <2>4. WriteKey(t, o) # WriteKey(t, n)
    <3>1. o \in 0 .. Operations - 1 /\ o # n
      BY CompareBenchmarkAssumption
    <3>2. t * Operations + o # t * Operations + n
      BY <3>1, Places
    <3> QED
      BY <3>2 DEF WriteKey
  <2>5. WriteKey(t, o) # ReadKey(t, n) /\ ReadKey(t, o) # WriteKey(t, n)
    BY KeysOfOperation, CompareBenchmarkAssumption
  <2> QED
    BY <1>7, <2>3, <2>4, <2>5
<1>8. ASSUME NEW i \in 1 .. Len(l), NEW j \in 1 .. Len(l),
             Writing(l[i]), Writing(l[j]), l[i].value # Absent, l[i].key = l[j].key
      PROVE  i = j
  <2>1. CASE i <= Len(s) /\ j <= Len(s)
    BY <1>1, <1>4, <1>8, <2>1
  <2>2. CASE i <= Len(s) /\ j > Len(s)
    BY <1>7, <1>8, <2>2
  <2>3. CASE i > Len(s) /\ j <= Len(s)
    BY <1>7, <1>8, <2>3
  <2>4. CASE i > Len(s) /\ j > Len(s)
    BY <1>5, <1>8, <2>4
  <2> QED
    BY <1>1, <2>1, <2>2, <2>3, <2>4
<1>9. \A i \in 1 .. Len(l) : Writing(l[i]) => \E o \in 0 .. (n + 1) - 1 : l[i] \in Writable(t, o)
  BY <1>6
<1>10. l \in Drafts(t, n + 1)
  BY <1>4, <1>8, <1>9 DEF Drafts
<1> QED
  BY <1>10 DEF l

\* The program of a thread.
LEMMA ProgramDrafted ==
  ASSUME NEW t \in 0 .. MaxThreads - 1
  PROVE  Program(t) \in Drafts(t, Operations)
<1> DEFINE ss == [i \in 1 .. Operations |-> Calls(t, i - 1)]
           G  == [i \in 1 .. Operations |-> Drafts(t, i)]
<1>1. Operations \in Nat \ {0}
  BY CompareBenchmarkAssumption
<1>2. \A i \in 1 .. Operations : ss[i] \in CallsOf(t, i - 1)
  BY <1>1, CallsOfOperation
<1>3. Len(ss) = Operations
  BY <1>1
<1>4. <<>> \in Drafts(t, 0)
  BY DEF Drafts
<1>5. ss[1] \in G[1]
  <2>1. ss[1] \in CallsOf(t, 0) /\ 0 \in 0 .. Operations - 1
    BY <1>1, <1>2
  <2>2. <<>> \o ss[1] \in Drafts(t, 0 + 1)
    BY <1>4, <2>1, DraftGrows
  <2>3. ss[1] \in Seq(Entry)
    BY <2>1 DEF CallsOf
  <2>4. <<>> \o ss[1] = ss[1]
    BY <2>3
  <2> QED
    BY <1>1, <2>2, <2>4
<1>6. ASSUME NEW i \in 1 .. Operations - 1, NEW s \in G[i]
      PROVE  s \o ss[i + 1] \in G[i + 1]
  <2>1. i \in 0 .. Operations - 1 /\ i + 1 \in 1 .. Operations /\ i \in 1 .. Operations /\ (i + 1) - 1 = i
    BY <1>1
  <2>2. s \in Drafts(t, i) /\ ss[i + 1] \in CallsOf(t, i)
    BY <1>2, <1>6, <2>1
  <2> QED
    BY <2>1, <2>2, DraftGrows
<1>7. Program(t) = FlattenSeq(ss)
  BY CompareBenchmarkAssumption DEF Program
<1> HIDE DEF ss
<1>8. G[Operations] = Drafts(t, Operations)
  BY <1>1
<1> HIDE DEF G
<1> QED
  BY <1>1, <1>3, <1>5, <1>6, <1>7, <1>8, FlattenIn

\* A program is a sequence of calls; what it writes are records, and who puts a
\* key is the only one who does, and nobody deletes what another thread puts, the
\* preloaded keys apart.
LEMMA ProgramRecords ==
  ASSUME NEW t \in Threads
  PROVE  /\ Program(t) \in Seq(Entry) /\ Len(Program(t)) \in Nat
         /\ \A i \in 1 .. Len(Program(t)) :
              Program(t)[i] \in Entry /\ (Writing(Program(t)[i]) => Program(t)[i] \in Record)
<1>1. Program(t) \in Seq(Entry)
  <2>1. CASE t = main
    <3>1. \A i \in 1 .. Preload : [key |-> Seed(i - 1), value |-> <<"seed", i - 1>>] \in Entry
      <4>1. ASSUME NEW i \in 1 .. Preload
            PROVE  Seed(i - 1) \in Key /\ <<"seed", i - 1>> \in Value
        <5>1. i - 1 \in 0 .. Preload /\ i - 1 \in 0 .. Operations + Preload
          BY CompareBenchmarkAssumption
        <5> QED
          BY <5>1, CompareBenchmarkAssumption DEF Keys, Values
      <4> QED
        BY <4>1 DEF Entry, Record
    <3> QED
      BY <2>1, <3>1, CompareBenchmarkAssumption DEF Program
  <2>2. CASE t # main
    BY <2>2, ProgramDrafted DEF Threads, Drafts
  <2> QED
    BY <2>1, <2>2
<1> QED
  BY <1>1 DEF Entry, Writing

\* What the main thread writes: every preloaded key is put once.
LEMMA Preloading ==
  /\ Len(Program(main)) = Preload
  /\ \A i \in 1 .. Preload : /\ Program(main)[i] \in Record /\ Writing(Program(main)[i])
                             /\ Program(main)[i].key = Seed(i - 1)
                             /\ Program(main)[i].value # Absent
<1>1. Len(Program(main)) = Preload
  BY CompareBenchmarkAssumption DEF Program
<1>2. ASSUME NEW i \in 1 .. Preload
      PROVE  /\ Program(main)[i] \in Entry
             /\ Program(main)[i] = [key |-> Seed(i - 1), value |-> <<"seed", i - 1>>]
             /\ <<"seed", i - 1>> \in Value
  <2>1. Program(main)[i] = [key |-> Seed(i - 1), value |-> <<"seed", i - 1>>]
    BY CompareBenchmarkAssumption DEF Program
  <2>2. i - 1 \in 0 .. Operations + Preload
    BY CompareBenchmarkAssumption
  <2>3. main \in Threads
    BY DEF Threads
  <2> QED
    BY <1>1, <2>1, <2>2, <2>3, ProgramRecords, CompareBenchmarkAssumption DEF Values
<1>3. ASSUME NEW i \in 1 .. Preload
      PROVE  /\ Program(main)[i] \in Record /\ Writing(Program(main)[i])
             /\ Program(main)[i].key = Seed(i - 1)
             /\ Program(main)[i].value # Absent
  <2> DEFINE r == Program(main)[i]
  <2>0. r \in Entry /\ r = [key |-> Seed(i - 1), value |-> <<"seed", i - 1>>] /\ <<"seed", i - 1>> \in Value
    BY <1>2
  <2> HIDE DEF r
  <2>1. r.key = Seed(i - 1) /\ r.value \in Value /\ r \in Entry
    <3> DEFINE v == <<"seed", i - 1>>
    <3>1. r = [key |-> Seed(i - 1), value |-> v] /\ v \in Value
      BY <2>0
    <3> HIDE DEF v
    <3> QED
      BY <2>0, <3>1
  <2>2. r.value # Absent
    BY <2>1, WALAssumption
  <2>3. r # Torn
    BY <2>2 DEF Torn
  <2>4. r \in Record /\ Writing(r)
    BY <2>1, <2>3 DEF Entry, Writing
  <2> QED
    BY <2>1, <2>2, <2>4 DEF r
<1> QED
  BY <1>1, <1>3

\* What a started thread writes is written by one of its operations.
LEMMA Writer ==
  ASSUME NEW t \in Threads \ {main}, NEW i \in 1 .. Len(Program(t)), Writing(Program(t)[i])
  PROVE  /\ t \in 0 .. MaxThreads - 1
         /\ \E o \in 0 .. Operations - 1 :
              /\ Program(t)[i].value # Absent => Program(t)[i].key = WriteKey(t, o)
              /\ Program(t)[i].value = Absent => Program(t)[i].key = ReadKey(t, o)
<1>1. t \in 0 .. MaxThreads - 1
  BY DEF Threads
<1>2. PICK o \in 0 .. Operations - 1 : Program(t)[i] \in Writable(t, o)
  BY <1>1, ProgramDrafted DEF Drafts
<1> QED
  BY <1>1, <1>2, WritableRecords

LEMMA PutsDiffer ==
  ASSUME NEW t \in Threads, NEW i \in 1 .. Len(Program(t)), Writing(Program(t)[i]),
         NEW u \in Threads, NEW j \in 1 .. Len(Program(u)), Writing(Program(u)[j]),
         Program(t)[i].value # Absent, Program(t)[i].key = Program(u)[j].key
  PROVE  \/ t = u /\ i = j
         \/ t = main /\ u # main /\ Program(u)[j].value = Absent
<1>1. CASE t = main /\ u = main
  <2>1. i \in 1 .. Preload /\ j \in 1 .. Preload /\ Seed(i - 1) = Seed(j - 1)
    BY <1>1, Preloading
  <2>2. i - 1 = j - 1
    BY <2>1 DEF Seed
  <2> QED
    BY <1>1, <2>1, <2>2, CompareBenchmarkAssumption
<1>2. CASE t = main /\ u # main
  <2>1. Program(t)[i].key = Seed(i - 1)
    BY <1>2, Preloading
  <2>2. Program(u)[j].value = Absent
    BY <1>2, <2>1, Writer, KeysOfOperation
  <2> QED
    BY <1>2, <2>2
<1>3. CASE t # main /\ u = main
  <2>1. Program(u)[j].key = Seed(j - 1)
    BY <1>3, Preloading
  <2> QED
    BY <1>3, <2>1, Writer, KeysOfOperation
<1>4. CASE t # main /\ u # main
  <2>1. /\ t \in 0 .. MaxThreads - 1
        /\ \E o \in 0 .. Operations - 1 : Program(t)[i].key = WriteKey(t, o)
    BY <1>4, Writer
  <2>2. PICK o \in 0 .. Operations - 1 : Program(t)[i].key = WriteKey(t, o)
    BY <2>1
  <2>3. /\ u \in 0 .. MaxThreads - 1
        /\ \E p \in 0 .. Operations - 1 :
             /\ Program(u)[j].value # Absent => Program(u)[j].key = WriteKey(u, p)
             /\ Program(u)[j].value = Absent => Program(u)[j].key = ReadKey(u, p)
    BY <1>4, Writer
  <2>4. PICK p \in 0 .. Operations - 1 :
             /\ Program(u)[j].value # Absent => Program(u)[j].key = WriteKey(u, p)
             /\ Program(u)[j].value = Absent => Program(u)[j].key = ReadKey(u, p)
    BY <2>3
  <2>5. Program(u)[j].value # Absent
    BY <2>1, <2>2, <2>3, <2>4, KeysOfOperation
  <2>6. t * Operations + o = u * Operations + p
    BY <2>2, <2>4, <2>5 DEF WriteKey
  <2>7. t = u
    BY <2>1, <2>3, <2>6, Places
  <2>8. i = j
    <3>1. Program(t) \in Drafts(t, Operations)
      BY <2>1, ProgramDrafted
    <3> QED
      BY <2>7, <3>1 DEF Drafts
  <2> QED
    BY <2>7, <2>8
<1> QED
  BY <1>1, <1>2, <1>3, <1>4

-----------------------------------------------------------------------------
(* The state.                                                               *)

\* The workload is chosen once, and the programs with it.
LEMMA ProgramStays ==
  ASSUME workload' = workload, NEW CONSTANT t
  PROVE  Program(t)' = Program(t)
<1>1. \A o : Calls(t, o)' = Calls(t, o)
  BY DEF Calls
<1> QED
  BY <1>1 DEF Program

LEMMA CountsType ==
  /\ Runs \in Nat
  /\ \A n : Count(n) \in 1 .. MaxThreads
  /\ 0 .. MaxThreads - 1 \subseteq Threads /\ main \in Threads /\ Caller = Threads
  /\ IsFiniteSet(Threads)
<1>1. ThreadCounts \subseteq 1 .. MaxThreads /\ MaxThreads \in 1 .. MaxThreads
  BY CompareBenchmarkAssumption DEF ThreadCounts
<1>2. IsFiniteSet(1 .. MaxThreads) /\ IsFiniteSet(0 .. MaxThreads - 1)
  BY FS_Interval, CompareBenchmarkAssumption
<1>3. Cardinality(ThreadCounts) \in Nat
  BY <1>1, <1>2, FS_Subset, FS_CardinalityType
<1>4. Runs \in Nat
  BY <1>3 DEF Runs
<1>5. \A n : Count(n) \in 1 .. MaxThreads
  BY <1>1 DEF Count
<1>6. IsFiniteSet(Threads)
  <2>1. Threads = (0 .. MaxThreads - 1) \union {main}
    BY DEF Threads
  <2> QED
    BY <1>2, <2>1, FS_AddElement
<1> QED
  BY <1>4, <1>5, <1>6, CompareBenchmarkAssumption DEF Threads

\* What is open at each turn of the benchmark.
Course ==
  /\ TypeOK
  /\ workload \in DOMAIN Cases
  /\ turn \in 1 .. Runs + 1 /\ sizes \in Seq(Nat) /\ Len(sizes) \in {turn - 1, turn}
  /\ done \in [Threads -> Nat]
  /\ process \in {"down", "up", "stopping"}
  /\ process = "down" => Len(sizes) = turn - 1
  /\ process # "down" => turn <= Runs
  /\ process = "stopping" => Len(sizes) = turn

\* A thread is idle or writes the record its program says, in a run that is not
\* over; the threads are started when the preloading is through.
Where(t) ==
  /\ done[t] <= Len(Program(t))
  /\ th[t].pc \in {"idle", "mark", "apply"}
  /\ th[t].pc # "idle" =>
       /\ process = "up" /\ Logs /\ turn \notin DOMAIN sizes
       /\ done[t] < Len(Program(t)) /\ th[t].record = Pending(t) /\ Writing(Pending(t))
  /\ process # "down" /\ t # main /\ (done[t] > 0 \/ th[t].pc # "idle") =>
       Through(main) /\ t < Count(turn)

BenchState == Course /\ \A t \in Threads : Where(t)

\* Whoever makes a call is active, and has one to make.
LEMMA CallIsActive ==
  ASSUME BenchState, NEW t \in Threads, Call(t)
  PROVE  /\ Active(t) /\ done[t] < Len(Program(t)) /\ done[t] + 1 \in 1 .. Len(Program(t))
         /\ process' = process /\ turn' = turn /\ sizes' = sizes /\ workload' = workload
         /\ \A u \in Threads \ {t} : th'[u] = th[u] /\ done'[u] = done[u]
         /\ done'[t] \in {done[t], done[t] + 1}
<1>1. /\ th \in [Threads -> CallState] /\ done \in [Threads -> Nat] /\ Where(t)
      /\ Len(Program(t)) \in Nat
  BY CountsType, ProgramRecords DEF BenchState, Course, TypeOK
<1>2. Active(t)
  <2>1. CASE LookUp(t) \/ Change(t) \/ Log(t)
    BY <2>1 DEF LookUp, Change, Log
  <2>2. CASE MarkLogged(t) \/ ApplyLogged(t)
    <3>1. th[t].pc # "idle"
      BY <2>2 DEF MarkLogged, ApplyLogged, Mark, Apply, At
    <3> QED
      BY <1>1, <3>1 DEF Where, Active, Through
  <2> QED
    BY <2>1, <2>2 DEF Call
<1>3. done[t] < Len(Program(t))
  BY <1>1, <1>2 DEF Where, Active, Through
<1>4. process' = process /\ turn' = turn /\ sizes' = sizes /\ workload' = workload
  BY DEF Call, LookUp, Change, Log, MarkLogged, ApplyLogged, Returns, WriteRecord, Mark, Apply,
         benchVars, vars, kvVars
<1>5. /\ th' = th \/ \E x : th' = [th EXCEPT ![t] = x]
      /\ done' = done \/ done' = [done EXCEPT ![t] = @ + 1]
  <2>1. CASE LookUp(t) \/ Change(t)
    BY <2>1 DEF LookUp, Change, Returns, vars, kvVars
  <2>2. CASE Log(t)
    BY <2>2 DEF Log, WriteRecord, benchVars
  <2>3. CASE MarkLogged(t)
    BY <2>3 DEF MarkLogged, Mark, Goto, benchVars
  <2>4. CASE ApplyLogged(t)
    BY <2>4 DEF ApplyLogged, Apply, Returns
  <2> QED
    BY <2>1, <2>2, <2>3, <2>4 DEF Call
<1>6. \A u \in Threads \ {t} : th'[u] = th[u] /\ done'[u] = done[u]
  BY <1>1, <1>5
<1>7. done'[t] \in {done[t], done[t] + 1}
  BY <1>1, <1>5
<1> QED
  BY <1>1, <1>2, <1>3, <1>4, <1>6, <1>7

\* A call leaves every thread where it may be.
LEMMA WhereCall ==
  ASSUME BenchState, NEW t \in Threads, Call(t)
  PROVE  \A u \in Threads : Where(u)'
<1>0. /\ th \in [Threads -> CallState] /\ done \in [Threads -> Nat]
      /\ \A u \in Threads : Where(u) /\ Len(Program(u)) \in Nat
  BY CountsType, ProgramRecords DEF BenchState, Course, TypeOK
<1>1. /\ Active(t) /\ done[t] < Len(Program(t)) /\ done[t] + 1 \in 1 .. Len(Program(t))
      /\ process' = process /\ turn' = turn /\ sizes' = sizes /\ workload' = workload
      /\ \A u \in Threads \ {t} : th'[u] = th[u] /\ done'[u] = done[u]
      /\ done'[t] \in {done[t], done[t] + 1}
  BY CallIsActive
<1>2. \A u \in Threads : Program(u)' = Program(u)
  BY <1>1, ProgramStays
<1>3. /\ process = "up" /\ turn \notin DOMAIN sizes /\ ~ Through(t)
      /\ t = main \/ (Through(main) /\ t < Count(turn))
  BY <1>1 DEF Active
<1>4. main \in Threads
  BY CountsType
<1>5. Through(main) => Through(main)'
  BY <1>1, <1>2, <1>3, <1>4 DEF Through
<1>6. Count(turn)' = Count(turn) /\ Logs' = Logs
  BY <1>1 DEF Count, Logs, Store
<1>7. ASSUME NEW u \in Threads \ {t}
      PROVE  Where(u)'
  <2>1. Pending(u)' = Pending(u)
    BY <1>1, <1>2 DEF Pending
  <2> QED
    BY <1>0, <1>1, <1>2, <1>5, <1>6, <2>1 DEF Where
<1>8. /\ done'[t] <= Len(Program(t)')
      /\ t # main => Through(main)' /\ t < Count(turn)'
  BY <1>0, <1>1, <1>2, <1>3, <1>5, <1>6
<1>9. ASSUME th'[t].pc # "idle"
      PROVE  /\ th'[t].pc \in {"mark", "apply"} /\ Logs /\ done'[t] = done[t]
             /\ th'[t].record = Pending(t) /\ Writing(Pending(t))
  <2>1. CASE LookUp(t)
    BY <1>9, <2>1 DEF LookUp, vars, kvVars
  <2>2. CASE Change(t)
    BY <1>0, <1>9, <2>2 DEF Change, Where
  <2>3. CASE Log(t)
    BY <1>0, <2>3 DEF Log, WriteRecord, benchVars, Writing, CallState
  <2>4. CASE MarkLogged(t)
    BY <1>0, <2>4 DEF MarkLogged, Mark, At, Goto, benchVars, Where, CallState
  <2>5. CASE ApplyLogged(t)
    BY <1>0, <1>9, <2>5, IdleType DEF ApplyLogged, Apply
  <2> QED
    BY <2>1, <2>2, <2>3, <2>4, <2>5 DEF Call
<1>10. th'[t].pc # "idle" => Pending(t)' = Pending(t)
  BY <1>2, <1>9 DEF Pending
<1>11. Where(t)'
  BY <1>1, <1>2, <1>3, <1>6, <1>8, <1>9, <1>10 DEF Where
<1> QED
  BY <1>7, <1>11

\* A call keeps every variable in its type.
LEMMA CourseCall ==
  ASSUME BenchState, NEW t \in Threads, Call(t)
  PROVE  Course'
<1>0. /\ TypeOK /\ t \in Caller /\ Where(t) /\ done \in [Threads -> Nat]
      /\ index \in Contents /\ Len(Program(t)) \in Nat
  BY CountsType, ProgramRecords DEF BenchState, Course, TypeOK
<1>1. /\ Active(t) /\ done[t] < Len(Program(t)) /\ done[t] + 1 \in 1 .. Len(Program(t))
      /\ process' = process /\ turn' = turn /\ sizes' = sizes /\ workload' = workload
  BY CallIsActive
<1>2. Writing(Pending(t)) => Pending(t) \in Record
  BY <1>1, ProgramRecords DEF Pending
<1>3. TypeOK'
  <2>1. CASE LookUp(t)
    BY <1>0, <2>1 DEF LookUp, vars, walVars, kvVars, TypeOK
  <2>2. CASE Change(t)
    <3>1. Pending(t) \in Record
      BY <1>2, <2>2 DEF Change, Writing
    <3>2. index' \in Contents
      BY <1>0, <2>2, <3>1 DEF Change, Record, Contents
    <3> QED
      BY <1>0, <2>2, <3>2 DEF Change, walVars, TypeOK
  <2>3. CASE Log(t)
    <3>1. Write(t)
      BY <1>2, <2>3 DEF Log, Write, Writing
    <3> QED
      BY <1>0, <3>1, TypeCall
  <2>4. CASE MarkLogged(t) \/ ApplyLogged(t)
    <3>1. Step(t)
      BY <2>4 DEF MarkLogged, ApplyLogged, Step
    <3> QED
      BY <1>0, <3>1, TypeCall
  <2> QED
    BY <2>1, <2>2, <2>3, <2>4 DEF Call
<1>4. done' \in [Threads -> Nat]
  BY <1>0 DEF Call, LookUp, Change, Log, MarkLogged, ApplyLogged, Returns, benchVars
<1> QED
  BY <1>1, <1>3, <1>4 DEF BenchState, Course

\* The values of a function on a finite set are finitely many.
LEMMA ImageFinite ==
  ASSUME NEW S, NEW T, IsFiniteSet(S), NEW f \in [S -> T], \A y \in T : \E x \in S : f[x] = y
  PROVE  IsFiniteSet(T)
<1>1. f \in Surjection(S, T)
  BY DEF Surjection
<1> QED
  BY <1>1, FS_Surjection

LEMMA KeysFinite == IsFiniteSet(Key)
<1> DEFINE seeds == {Seed(i) : i \in 0 .. Preload}
           own   == {<<"key", n>> : n \in 0 .. MaxThreads * Operations}
<1>1. Preload \in Nat /\ MaxThreads * Operations \in Nat
  <2>1. \A x, y \in Nat : x * y \in Nat
    OBVIOUS
  <2> QED
    BY <2>1, CompareBenchmarkAssumption
<1>2. IsFiniteSet(0 .. Preload) /\ IsFiniteSet(0 .. MaxThreads * Operations)
  BY <1>1, FS_Interval
<1>3. IsFiniteSet(seeds)
  <2> DEFINE f == [i \in 0 .. Preload |-> Seed(i)]
  <2>1. f \in [0 .. Preload -> seeds] /\ \A k \in seeds : \E i \in 0 .. Preload : f[i] = k
    OBVIOUS
  <2> QED
    BY <1>2, <2>1, ImageFinite
<1>4. IsFiniteSet(own)
  <2> DEFINE S == 0 .. MaxThreads * Operations
             f == [n \in S |-> <<"key", n>>]
  <2>1. f \in [S -> own] /\ \A k \in own : \E n \in S : f[n] = k
    OBVIOUS
  <2> HIDE DEF f
  <2> QED
    BY <1>2, <2>1, ImageFinite
<1>5. Key = seeds \union own
  BY CompareBenchmarkAssumption DEF Keys
<1> QED
  BY <1>3, <1>4, <1>5, FS_Union

LEMMA SizeType == Size \in Nat
<1>1. {k \in Key : index[k] # Absent} \subseteq Key
  OBVIOUS
<1> QED
  BY <1>1, KeysFinite, FS_Subset, FS_CardinalityType DEF Size

\* Between two runs, and while one is set up or taken down, no thread is in a call.
LEMMA Still ==
  ASSUME BenchState, process # "up" \/ turn \in DOMAIN sizes
  PROVE  \A t \in Threads : th[t].pc = "idle"
BY DEF BenchState, Where

\* The steps between the calls.
LEMMA CourseRun ==
  ASSUME BenchState, Construct \/ Measure \/ Destroy \/ SyncLogs
  PROVE  Course'
<1>0. /\ TypeOK /\ workload \in DOMAIN Cases
      /\ turn \in 1 .. Runs + 1 /\ sizes \in Seq(Nat) /\ Len(sizes) \in {turn - 1, turn}
      /\ Len(sizes) \in Nat /\ DOMAIN sizes = 1 .. Len(sizes)
      /\ done \in [Threads -> Nat] /\ process \in {"down", "up", "stopping"}
      /\ process = "down" => Len(sizes) = turn - 1
      /\ process # "down" => turn <= Runs
      /\ process = "stopping" => Len(sizes) = turn
      /\ Runs \in Nat
  BY CountsType DEF BenchState, Course
<1>1. CASE Construct
  <2>1. log' \in Seq(Entry) /\ synced' = 0 /\ Len(log') = 0 /\ index' = Replay(Empty, log')
    <3>1. <<>> \in Seq(Entry) /\ Len(<<>>) = 0
      OBVIOUS
    <3> QED
      BY <1>1, <3>1 DEF Construct, LogRemoved
  <2>2. index' \in Contents
    BY <2>1, IdleType, ReplayType
  <2>3. interval' \in BOOLEAN /\ syncer' \in {"none", "wait"} /\ dirty' \in BOOLEAN /\ stop' \in BOOLEAN
    <3>1. Logs \in BOOLEAN
      BY DEF Logs
    <3>2. interval' = Logs /\ syncer' \in {"none", "wait"} /\ dirty' = FALSE /\ stop' = FALSE
      BY <1>1 DEF Construct
    <3> QED
      BY <3>1, <3>2
  <2>4. TypeOK'
    <3>1. synced' \in 0 .. Len(log')
      BY <2>1
    <3>2. process' = "up" /\ snapshot' = snapshot /\ th' = th
      BY <1>1 DEF Construct
    <3> QED
      BY <1>0, <2>1, <2>2, <2>3, <3>1, <3>2 DEF TypeOK
  <2>5. done' \in [Threads -> Nat]
    BY <1>1 DEF Construct
  <2> QED
    BY <1>0, <1>1, <2>4, <2>5 DEF Construct, Course
<1>2. CASE Measure
  <2>1. TypeOK'
    BY <1>0, <1>2 DEF Measure, vars, walVars, kvVars, TypeOK
  <2>2. Len(sizes) = turn - 1 /\ process' = "up" /\ turn' = turn /\ done' = done /\ workload' = workload
    <3> DEFINE n == Len(sizes)
    <3>0. turn \notin DOMAIN sizes
      BY <1>2 DEF Measure
    <3>1. turn \notin 1 .. n /\ n \in {turn - 1, turn} /\ turn \in 1 .. Runs + 1 /\ Runs \in Nat
      BY <1>0, <3>0, Zenon
    <3> HIDE DEF n
    <3>2a. n = turn - 1
      BY <3>1
    <3>2. Len(sizes) = turn - 1
      BY <3>2a DEF n
    <3> QED
      BY <1>2, <3>2 DEF Measure, vars, kvVars
  <2>3. sizes' \in Seq(Nat) /\ Len(sizes') = turn
    BY <1>0, <1>2, <2>2, SizeType DEF Measure
  <2> QED
    BY <1>0, <1>2, <2>1, <2>2, <2>3 DEF Measure, Course
<1>3. CASE Destroy
  <2>1. Len(sizes) = turn /\ process # "down" /\ sizes' = sizes /\ done' = done /\ workload' = workload
        /\ turn <= Runs
    BY <1>0, <1>3 DEF Destroy
  <2>2. CASE Shutdown /\ UNCHANGED turn
    <3>1. TypeOK'
      BY <1>0, <2>2, TypeProcess
    <3> QED
      BY <1>0, <2>1, <2>2, <3>1 DEF Shutdown, Course
  <2>3. CASE Exit /\ turn' = turn + 1
    <3>1. TypeOK'
      BY <1>0, <2>3, TypeProcess
    <3> QED
      BY <1>0, <2>1, <2>3, <3>1 DEF Exit, Course
  <2>4. CASE process' = "down" /\ turn' = turn + 1 /\ UNCHANGED <<walVars, index, snapshot, th>>
    <3>1. TypeOK'
      BY <1>0, <2>4 DEF walVars, TypeOK
    <3> QED
      BY <1>0, <2>1, <2>4, <3>1 DEF Course
  <2> QED
    BY <1>3, <2>2, <2>3, <2>4 DEF Destroy
<1>4. CASE SyncLogs
  <2>1. TypeOK'
    BY <1>0, <1>4, TypeProcess DEF SyncLogs
  <2> QED
    BY <1>0, <1>4, <2>1 DEF SyncLogs, kvVars, benchVars, Course
<1> QED
  BY <1>1, <1>2, <1>3, <1>4

LEMMA WhereRun ==
  ASSUME BenchState, Construct \/ Measure \/ Destroy \/ SyncLogs
  PROVE  \A t \in Threads : Where(t)'
<1>0. /\ \A t \in Threads : Where(t) /\ Len(Program(t)) \in Nat
      /\ done \in [Threads -> Nat] /\ main \in Threads
      /\ DOMAIN sizes = 1 .. Len(sizes) /\ Len(sizes) \in {turn - 1, turn} /\ turn \in Nat
      /\ 0 .. MaxThreads - 1 \subseteq Threads /\ Count(turn) \in 1 .. MaxThreads
      /\ \A t \in Threads \ {main} : t \in 0 .. MaxThreads - 1
      /\ process \in {"down", "up", "stopping"}
  BY CountsType, ProgramRecords DEF BenchState, Course, Threads
<1>1. workload' = workload /\ th' = th
  BY DEF Construct, Measure, Destroy, SyncLogs, Shutdown, Exit, vars, kvVars, benchVars
<1>2. \A t \in Threads : Program(t)' = Program(t)
  BY <1>1, ProgramStays
<1>3. CASE Construct
  <2>1. \A t \in Threads : th[t].pc = "idle"
    BY <1>3, Still DEF Construct
  <2>2. \A t \in Threads : done'[t] = 0
    BY <1>3 DEF Construct
  <2>3. ASSUME NEW t \in Threads
        PROVE  Where(t)'
    <3>1. done'[t] <= Len(Program(t)') /\ th'[t].pc = "idle" /\ ~ (done'[t] > 0)
      <4>1. Program(t)' = Program(t) /\ Len(Program(t)) \in Nat /\ done'[t] = 0
        BY <1>0, <1>2, <2>2
      <4>2. done'[t] <= Len(Program(t))
        BY <4>1
      <4> QED
        BY <1>1, <2>1, <4>1, <4>2
    <3> QED
      BY <3>1 DEF Where
  <2> QED
    BY <2>3
<1>4. CASE Measure
  <2>1. done' = done /\ turn' = turn /\ process' = process
    BY <1>4 DEF Measure, vars, kvVars
  <2>2. ASSUME NEW t \in Threads
        PROVE  th[t].pc = "idle"
    <3>1. CASE t = main
      BY <1>4, <3>1 DEF Measure, Through
    <3>2. CASE t # main
      <4>1. CASE t < Count(turn)
        <5>1. t \in 0 .. Count(turn) - 1
          <6> DEFINE n == Count(turn)
          <6>1. n \in 1 .. MaxThreads /\ t \in 0 .. MaxThreads - 1 /\ t < n
            BY <1>0, <3>2, <4>1
          <6> HIDE DEF n
          <6>2. t \in 0 .. n - 1
            BY <6>1, CompareBenchmarkAssumption
          <6> QED
            BY <6>2 DEF n
        <5> QED
          BY <1>4, <5>1 DEF Measure, Through
      <4>2. CASE ~ (t < Count(turn))
        BY <1>0, <1>4, <3>2, <4>2 DEF Where, Measure
      <4> QED
        BY <4>1, <4>2
    <3> QED
      BY <3>1, <3>2
  <2>3. Through(main)' = Through(main) /\ Count(turn)' = Count(turn)
    BY <1>0, <1>1, <1>2, <2>1 DEF Through, Count
  <2> QED
    BY <1>0, <1>1, <1>2, <2>1, <2>2, <2>3 DEF Where
<1>5. CASE Destroy
  <2>1. \A t \in Threads : th[t].pc = "idle"
    BY <1>5, Still DEF Destroy
  <2>2. done' = done /\ (process' = "down" \/ (turn' = turn /\ process = "up"))
    BY <1>5 DEF Destroy, Shutdown, Exit
  <2>3. CASE process' = "down"
    BY <1>0, <1>1, <1>2, <2>1, <2>2, <2>3 DEF Where
  <2>4. CASE turn' = turn /\ process = "up"
    <3>1. Through(main)' = Through(main) /\ Count(turn)' = Count(turn)
      BY <1>0, <1>1, <1>2, <2>2, <2>4 DEF Through, Count
    <3> QED
      BY <1>0, <1>1, <1>2, <2>1, <2>2, <2>4, <3>1 DEF Where
  <2> QED
    BY <2>2, <2>3, <2>4
<1>6. CASE SyncLogs
  <2>1. done' = done /\ turn' = turn /\ process' = process /\ sizes' = sizes
    BY <1>6 DEF SyncLogs, kvVars, benchVars
  <2>2. /\ Through(main)' = Through(main) /\ Count(turn)' = Count(turn) /\ Logs' = Logs
        /\ \A t \in Threads : Pending(t)' = Pending(t)
    BY <1>0, <1>1, <1>2, <2>1 DEF Through, Count, Logs, Store, Pending
  <2> QED
    BY <1>0, <1>1, <1>2, <2>1, <2>2 DEF Where
<1> QED
  BY <1>3, <1>4, <1>5, <1>6

-----------------------------------------------------------------------------
(* Types: the log holds no more than the calls of one run.                  *)

\* The calls of one thread that write.
WritesOf(t) ==
  LET program == Program(t) IN {t} \X {i \in 1 .. Len(program) : program[i] # Torn}

LEMMA WritesAre ==
  ASSUME NEW T
  PROVE  /\ Writes(T) = UNION {WritesOf(t) : t \in T}
         /\ \A t \in T : \A i \in 1 .. Len(Program(t)) :
              Writing(Program(t)[i]) => <<t, i>> \in Writes(T)
         /\ \A w \in Writes(T) :
              /\ w = <<w[1], w[2]>> /\ w[1] \in T /\ w[2] \in 1 .. Len(Program(w[1]))
              /\ Writing(RecordOf(w)) /\ RecordOf(w) = Program(w[1])[w[2]]
<1>1. Writes(T) = UNION {WritesOf(t) : t \in T}
  BY DEF Writes, WritesOf
<1>2. ASSUME NEW t \in T, NEW i \in 1 .. Len(Program(t)), Writing(Program(t)[i])
      PROVE  <<t, i>> \in Writes(T)
  <2>1. <<t, i>> \in WritesOf(t)
    BY <1>2 DEF WritesOf, Writing
  <2> QED
    BY <1>1, <2>1
<1>3. ASSUME NEW w \in Writes(T)
      PROVE  /\ w = <<w[1], w[2]>> /\ w[1] \in T /\ w[2] \in 1 .. Len(Program(w[1]))
             /\ Writing(RecordOf(w)) /\ RecordOf(w) = Program(w[1])[w[2]]
  <2>1. PICK t \in T : w \in WritesOf(t)
    BY <1>1
  <2>2. w = <<w[1], w[2]>> /\ w[1] = t /\ w[2] \in 1 .. Len(Program(t)) /\ Program(t)[w[2]] # Torn
    BY <2>1 DEF WritesOf
  <2> QED
    BY <2>2 DEF RecordOf, Writing
<1> QED
  BY <1>1, <1>2, <1>3

LEMMA WritesFinite ==
  ASSUME NEW T \in SUBSET Threads
  PROVE  IsFiniteSet(Writes(T))
<1> DEFINE Q == {WritesOf(t) : t \in T}
           f == [t \in T |-> WritesOf(t)]
<1>1. IsFiniteSet(T)
  BY CountsType, FS_Subset
<1>2. IsFiniteSet(Q)
  <2>1. f \in [T -> Q] /\ \A q \in Q : \E t \in T : f[t] = q
    OBVIOUS
  <2> HIDE DEF f, Q
  <2> QED
    BY <1>1, <2>1, ImageFinite
<1>3. ASSUME NEW t \in T
      PROVE  IsFiniteSet(WritesOf(t))
  <2> DEFINE I == {i \in 1 .. Len(Program(t)) : Program(t)[i] # Torn}
  <2>1. Len(Program(t)) \in Nat
    BY ProgramRecords
  <2>2. IsFiniteSet(1 .. Len(Program(t)))
    BY <2>1, FS_Interval
  <2>3. IsFiniteSet(I)
    BY <2>2, FS_Subset
  <2>4. IsFiniteSet({t})
    BY FS_Singleton
  <2>5. IsFiniteSet({t} \X I)
    <3> HIDE DEF I
    <3> QED
      BY <2>3, <2>4, FS_Product
  <2> QED
    BY <2>5 DEF WritesOf
<1>4. \A q \in Q : IsFiniteSet(q)
  BY <1>3
<1> HIDE DEF Q
<1>5. IsFiniteSet(UNION Q)
  BY <1>2, <1>4, FS_UNION
<1> QED
  BY <1>5, WritesAre DEF Q

LEMMA WritesStay ==
  ASSUME workload' = workload, NEW CONSTANT T
  PROVE  Writes(T)' = Writes(T)
<1>1. \A t : Program(t)' = Program(t)
  BY ProgramStays
<1> QED
  BY <1>1 DEF Writes

\* The calls whose record is in the log.
Logged ==
  {w \in Writes(Threads) : w[2] <= done[w[1]] \/ (w[2] = done[w[1]] + 1 /\ InFlight(w[1]))}

LogShort ==
  /\ Len(log) <= Cardinality(Writes(Threads))
  /\ process = "up" /\ Logs => Len(log) <= Cardinality(Logged)

LEMMA LoggedFinite ==
  /\ IsFiniteSet(Logged) /\ Cardinality(Logged) \in Nat
  /\ Cardinality(Writes(Threads)) \in Nat /\ Cardinality(Logged) <= Cardinality(Writes(Threads))
<1>1. IsFiniteSet(Writes(Threads)) /\ Logged \subseteq Writes(Threads)
  BY WritesFinite DEF Logged
<1> QED
  BY <1>1, FS_Subset, FS_CardinalityType

LEMMA LogShortCall ==
  ASSUME BenchState, LogShort, NEW t \in Threads, Call(t)
  PROVE  LogShort'
<1>0. /\ th \in [Threads -> CallState] /\ done \in [Threads -> Nat]
      /\ log \in Seq(Entry) /\ Len(log) \in Nat
      /\ Where(t) /\ t \in Threads
  BY CountsType DEF BenchState, Course, TypeOK
<1>1. /\ Active(t) /\ done[t] < Len(Program(t)) /\ done[t] + 1 \in 1 .. Len(Program(t))
      /\ process' = process /\ turn' = turn /\ workload' = workload
      /\ \A u \in Threads \ {t} : th'[u] = th[u] /\ done'[u] = done[u]
  BY CallIsActive
<1>2. Writes(Threads)' = Writes(Threads)
  BY <1>1, WritesStay
<1>3. \A w \in Writes(Threads) : w[1] \in Threads /\ w[2] \in Nat /\ w = <<w[1], w[2]>>
  BY WritesAre
<1>4. Logs' = Logs /\ process = "up"
  BY <1>1 DEF Logs, Store, Active
<1>5. /\ Cardinality(Logged) \in Nat /\ Cardinality(Logged') \in Nat
      /\ IsFiniteSet(Logged) /\ IsFiniteSet(Logged')
      /\ Cardinality(Writes(Threads)) \in Nat
      /\ Cardinality(Logged') <= Cardinality(Writes(Threads))
  <2>1. IsFiniteSet(Writes(Threads)) /\ Logged \subseteq Writes(Threads) /\ Logged' \subseteq Writes(Threads)
    BY <1>2, WritesFinite DEF Logged
  <2> QED
    BY <2>1, FS_Subset, FS_CardinalityType
<1>6. CASE log' = log /\ (Logs => Logged \subseteq Logged')
  <2>1. Logs => Cardinality(Logged) <= Cardinality(Logged')
    BY <1>5, <1>6, FS_Subset
  <2> QED
    BY <1>0, <1>2, <1>4, <1>5, <1>6, <2>1 DEF LogShort
<1>7. CASE LookUp(t)
  <2>1. log' = log /\ th' = th /\ done' = [done EXCEPT ![t] = @ + 1] /\ th[t].pc = "idle"
    BY <1>7 DEF LookUp, Returns, vars, walVars, kvVars
  <2>2. Logged \subseteq Logged'
    BY <1>0, <1>2, <1>3, <2>1 DEF Logged, InFlight
  <2> QED
    BY <1>6, <2>1, <2>2
<1>8. CASE Change(t)
  BY <1>6, <1>8 DEF Change, walVars
<1>9. CASE Log(t)
  <2> DEFINE w == <<t, done[t] + 1>>
  <2>1. /\ th[t].pc = "idle" /\ done' = done /\ Writing(Pending(t))
        /\ log' = Append(log, Pending(t)) /\ th' = [th EXCEPT ![t].pc = "mark", ![t].record = Pending(t)]
    BY <1>9 DEF Log, WriteRecord, AppendRecord, At, benchVars, Writing
  <2>2. w \in Writes(Threads)
    BY <1>1, <2>1, WritesAre DEF Pending
  <2>3. th'[t].pc = "mark" /\ InFlight(t)' /\ ~ InFlight(t)
    BY <1>0, <2>1 DEF InFlight, CallState
  <2>4. w \in Logged' /\ w \notin Logged /\ Logged \subseteq Logged'
    <3>1. w \in Logged'
      BY <1>2, <2>1, <2>2, <2>3 DEF Logged
    <3>2. w \notin Logged
      BY <1>0, <2>3 DEF Logged
    <3>3. Logged \subseteq Logged'
      BY <1>1, <1>2, <1>3, <2>1, <2>3 DEF Logged, InFlight
    <3> QED
      BY <3>1, <3>2, <3>3
  <2> HIDE DEF w
  <2>5. Cardinality(Logged \union {w}) = Cardinality(Logged) + 1
    BY <1>5, <2>4, FS_AddElement
  <2>6. Cardinality(Logged \union {w}) <= Cardinality(Logged')
    <3>1. Logged \union {w} \in SUBSET Logged'
      BY <2>4
    <3> QED
      BY <1>5, <3>1, FS_Subset
  <2>7. Len(log') = Len(log) + 1
    <3>1. Pending(t) \in Entry
      BY <1>1, ProgramRecords DEF Pending
    <3> QED
      BY <1>0, <2>1, <3>1
  <2>8. Logs /\ Len(log) <= Cardinality(Logged)
    BY <1>4, <1>9 DEF Log, LogShort
  <2>9. Len(log') <= Cardinality(Logged')
    BY <1>0, <1>5, <2>5, <2>6, <2>7, <2>8
  <2> QED
    BY <1>0, <1>2, <1>5, <2>7, <2>9 DEF LogShort
<1>10. CASE MarkLogged(t)
  <2>1. /\ log' = log /\ done' = done /\ th[t].pc = "mark"
        /\ th' = [th EXCEPT ![t].pc = "apply"]
    BY <1>10 DEF MarkLogged, Mark, Goto, At, benchVars
  <2>2. \A u \in Threads : InFlight(u)' = InFlight(u)
    BY <1>0, <2>1 DEF InFlight, CallState
  <2>3. Logged \subseteq Logged'
    BY <1>2, <1>3, <2>1, <2>2 DEF Logged
  <2> QED
    BY <1>6, <2>1, <2>3
<1>11. CASE ApplyLogged(t)
  <2>1. /\ log' = log /\ done' = [done EXCEPT ![t] = @ + 1] /\ th' = [th EXCEPT ![t] = Idle]
    BY <1>11 DEF ApplyLogged, Apply, Returns, walVars
  <2>2. \A u \in Threads \ {t} : InFlight(u)' = InFlight(u) /\ done'[u] = done[u]
    BY <1>1 DEF InFlight
  <2>3. done'[t] = done[t] + 1
    BY <1>0, <2>1
  <2>4. Logged \subseteq Logged'
    BY <1>0, <1>2, <1>3, <2>2, <2>3 DEF Logged
  <2> QED
    BY <1>6, <2>1, <2>4
<1> QED
  BY <1>7, <1>8, <1>9, <1>10, <1>11 DEF Call

LEMMA LogShortRun ==
  ASSUME BenchState, LogShort, Construct \/ Measure \/ Destroy \/ SyncLogs
  PROVE  LogShort'
<1>1. workload' = workload
  BY DEF Construct, Measure, Destroy, SyncLogs, benchVars
<1>2. Writes(Threads)' = Writes(Threads)
  BY <1>1, WritesStay
<1>3. /\ Cardinality(Writes(Threads)) \in Nat /\ Cardinality(Logged') \in Nat
  <2>1. IsFiniteSet(Writes(Threads)) /\ Logged' \subseteq Writes(Threads)
    BY <1>2, WritesFinite DEF Logged
  <2> QED
    BY <2>1, FS_Subset, FS_CardinalityType
<1>4. CASE Construct
  <2>1. Len(log') = 0
    BY <1>4 DEF Construct, LogRemoved
  <2> QED
    BY <1>2, <1>3, <2>1 DEF LogShort
<1>5. CASE Measure \/ SyncLogs
  <2>1. log' = log /\ th' = th /\ done' = done /\ process' = process /\ turn' = turn
    BY <1>5 DEF Measure, SyncLogs, SyncLoop, SyncerWake, SyncerFlush, vars, walVars, kvVars, benchVars
  <2>2. Logged' = Logged /\ Logs' = Logs
    BY <1>2, <2>1 DEF Logged, InFlight, Logs, Store
  <2> QED
    BY <1>2, <2>1, <2>2 DEF LogShort
<1>6. CASE Destroy
  <2>1. log' = log /\ process' # "up"
    BY <1>6 DEF Destroy, Shutdown, Exit, walVars
  <2> QED
    BY <1>2, <2>1 DEF LogShort
<1> QED
  BY <1>4, <1>5, <1>6

-----------------------------------------------------------------------------
(* The log and the index.                                                   *)

\* What the log holds of a key: the record of a call that is in progress, where
\* there is one, else what the index holds.
LogFollows ==
  process = "up" /\ Logs =>
    /\ Whole
    /\ \A k \in Key : (\A t \in Threads : ~ (InFlight(t) /\ th[t].record.key = k)) =>
         Replay(Empty, log)[k] = index[k]
    /\ \A t \in Threads : InFlight(t) => Replay(Empty, log)[th[t].record.key] = th[t].record.value

\* Two calls that are in progress on one key write the same: both delete it.
LEMMA SameKeySameValue ==
  ASSUME BenchState, NEW t \in Threads, Active(t), done[t] < Len(Program(t)), Writing(Pending(t)),
         NEW u \in Threads, InFlight(u), th[u].record.key = Pending(t).key
  PROVE  th[u].record.value = Pending(t).value
<1>1. /\ Where(u) /\ done \in [Threads -> Nat] /\ Len(Program(t)) \in Nat /\ Len(Program(u)) \in Nat
  BY ProgramRecords DEF BenchState, Course
<1>2. th[u].pc # "idle" /\ process = "up"
  BY DEF InFlight, Active
<1>3. /\ th[u].record = Pending(u) /\ Writing(Pending(u)) /\ done[u] < Len(Program(u))
      /\ u # main => Through(main)
  BY <1>1, <1>2 DEF Where
<1>4. t # main => Through(main)
  BY DEF Active
<1>5. u = main => ~ Through(main)
  BY <1>2 DEF Through
<1>6. t = main => ~ Through(main)
  BY DEF Active
<1>7. CASE t = u
  BY <1>3, <1>7
<1>8. CASE t # u
  <2>1. t # main /\ u # main
    BY <1>3, <1>4, <1>5, <1>6, <1>8
  <2> DEFINE i == done[t] + 1
             j == done[u] + 1
  <2>2. i \in 1 .. Len(Program(t)) /\ j \in 1 .. Len(Program(u))
    BY <1>1, <1>3
  <2>3. Pending(t) = Program(t)[i] /\ Pending(u) = Program(u)[j]
    BY DEF Pending
  <2> HIDE DEF i, j
  <2>4. Pending(t).value = Absent
    BY <1>3, <1>8, <2>1, <2>2, <2>3, PutsDiffer
  <2>5. Pending(u).value = Absent
    BY <1>3, <1>8, <2>1, <2>2, <2>3, PutsDiffer
  <2> QED
    BY <1>3, <2>4, <2>5
<1> QED
  BY <1>7, <1>8

LEMMA LogFollowsCall ==
  ASSUME BenchState, LogFollows, NEW t \in Threads, Call(t)
  PROVE  LogFollows'
<1>0. /\ th \in [Threads -> CallState] /\ done \in [Threads -> Nat] /\ index \in Contents
      /\ log \in Seq(Entry) /\ Len(log) \in Nat /\ Where(t)
  BY CountsType DEF BenchState, Course, TypeOK
<1>1. /\ Active(t) /\ done[t] < Len(Program(t)) /\ done[t] + 1 \in 1 .. Len(Program(t))
      /\ process' = process /\ turn' = turn /\ workload' = workload
      /\ \A u \in Threads \ {t} : th'[u] = th[u]
  BY CallIsActive
<1>2. Logs' = Logs /\ process = "up"
  BY <1>1 DEF Logs, Store, Active
<1>3. Writing(Pending(t)) => Pending(t) \in Record
  BY <1>1, ProgramRecords DEF Pending
<1>4. SUFFICES ASSUME Logs
               PROVE  LogFollows'
  BY <1>2 DEF LogFollows
<1>5. /\ Whole
      /\ \A k \in Key : (\A u \in Threads : ~ (InFlight(u) /\ th[u].record.key = k)) =>
           Replay(Empty, log)[k] = index[k]
      /\ \A u \in Threads : InFlight(u) => Replay(Empty, log)[th[u].record.key] = th[u].record.value
  BY <1>2, <1>4 DEF LogFollows
<1>6. CASE LookUp(t)
  BY <1>5, <1>6 DEF LookUp, vars, walVars, kvVars, LogFollows, InFlight, Whole
<1>7. CASE Change(t)
  BY <1>4, <1>7 DEF Change
<1>8. CASE Log(t)
  <2> DEFINE r == Pending(t)
  <2>1. /\ th[t].pc = "idle" /\ r \in Record /\ index' = index
        /\ log' = Append(log, r) /\ th' = [th EXCEPT ![t].pc = "mark", ![t].record = r]
    BY <1>3, <1>8 DEF Log, WriteRecord, AppendRecord, At, Writing
  <2>1a. Writing(Pending(t))
    BY <1>8 DEF Log, Writing
  <2>2. \A u \in Threads : InFlight(u) /\ th[u].record.key = r.key => th[u].record.value = r.value
    BY <1>1, <2>1a, SameKeySameValue
  <2>3. th'[t].pc = "mark" /\ th'[t].record = r /\ InFlight(t)' /\ ~ InFlight(t)
    BY <1>0, <2>1 DEF InFlight, CallState
  <2>4. r \in Entry /\ r # Torn
    BY <2>1, <2>1a DEF Entry, Writing
  <2> HIDE DEF r
  <2>5. \A i \in 1 .. Len(log) : log[i] # Torn
    BY <1>5 DEF Whole
  <2>6. Replay(Empty, log') = After(Replay(Empty, log), r)
    BY <1>0, <2>1, <2>5, ReplayAppend
  <2>7. \A k \in Key : Replay(Empty, log')[k] = IF k = r.key THEN r.value ELSE Replay(Empty, log)[k]
    BY <2>6 DEF After
  <2>8. Whole'
    BY <1>0, <2>1, <2>4, <2>5 DEF Whole
  <2>9. ASSUME NEW k \in Key, \A u \in Threads : ~ (InFlight(u)' /\ th'[u].record.key = k)
        PROVE  Replay(Empty, log')[k] = index'[k]
    <3>1. k # r.key
      BY <2>3, <2>9
    <3>2. \A u \in Threads : ~ (InFlight(u) /\ th[u].record.key = k)
      BY <1>1, <2>3, <2>9 DEF InFlight
    <3> QED
      BY <1>5, <2>1, <2>7, <3>1, <3>2
  <2>10. ASSUME NEW u \in Threads, InFlight(u)'
         PROVE  Replay(Empty, log')[th'[u].record.key] = th'[u].record.value
    <3>1. CASE u = t
      <4>1. r.key \in Key
        BY <2>1 DEF Record
      <4> QED
        BY <2>3, <2>7, <3>1, <4>1
    <3>2. CASE u # t
      <4>1. InFlight(u) /\ th'[u] = th[u]
        BY <1>1, <2>10, <3>2 DEF InFlight
      <4>2. th[u].record.key \in Key
        <5>1. Where(u) /\ th[u].pc # "idle" /\ Len(Program(u)) \in Nat
          BY <4>1, ProgramRecords DEF BenchState, InFlight
        <5>2. th[u].record = Pending(u) /\ done[u] < Len(Program(u)) /\ Writing(Pending(u))
          BY <5>1 DEF Where
        <5>3. Pending(u) \in Record
          BY <1>0, <5>1, <5>2, ProgramRecords DEF Pending
        <5> QED
          BY <5>2, <5>3 DEF Record
      <4>3. th[u].record.key = r.key => th[u].record.value = r.value
        BY <2>2, <4>1
      <4> QED
        BY <1>5, <2>7, <4>1, <4>2, <4>3
    <3> QED
      BY <3>1, <3>2
  <2> QED
    BY <2>8, <2>9, <2>10 DEF LogFollows
<1>9. CASE MarkLogged(t)
  <2>1. /\ log' = log /\ index' = index /\ th[t].pc = "mark"
        /\ th' = [th EXCEPT ![t].pc = "apply"]
    BY <1>9 DEF MarkLogged, Mark, Goto, At
  <2>2. \A u \in Threads : InFlight(u)' = InFlight(u) /\ th'[u].record = th[u].record
    BY <1>0, <2>1 DEF InFlight, CallState
  <2> QED
    BY <1>5, <2>1, <2>2 DEF LogFollows, Whole
<1>10. CASE ApplyLogged(t)
  <2> DEFINE r == th[t].record
  <2>1. /\ log' = log /\ index' = [index EXCEPT ![r.key] = r.value]
        /\ th' = [th EXCEPT ![t] = Idle] /\ th[t].pc = "apply"
    BY <1>10 DEF ApplyLogged, Apply, At, walVars
  <2>2. InFlight(t) /\ ~ InFlight(t)'
    BY <1>0, <2>1, IdleType DEF InFlight
  <2>3. Replay(Empty, log)[r.key] = r.value
    BY <1>5, <2>2
  <2> HIDE DEF r
  <2>4. ASSUME NEW k \in Key, \A u \in Threads : ~ (InFlight(u)' /\ th'[u].record.key = k)
        PROVE  Replay(Empty, log)[k] = index'[k]
    <3>1. CASE k = r.key
      BY <1>0, <2>1, <2>3, <3>1 DEF Contents
    <3>2. CASE k # r.key
      <4>1. \A u \in Threads : ~ (InFlight(u) /\ th[u].record.key = k)
        BY <1>1, <2>4, <3>2 DEF InFlight, r
      <4>2. index'[k] = index[k]
        BY <1>0, <2>1, <3>2 DEF Contents
      <4> QED
        BY <1>5, <4>1, <4>2
    <3> QED
      BY <3>1, <3>2
  <2>5. ASSUME NEW u \in Threads, InFlight(u)'
        PROVE  Replay(Empty, log)[th'[u].record.key] = th'[u].record.value
    BY <1>1, <1>5, <2>2, <2>5 DEF InFlight
  <2> QED
    BY <1>5, <2>1, <2>4, <2>5 DEF LogFollows, Whole
<1> QED
  BY <1>6, <1>7, <1>8, <1>9, <1>10 DEF Call

LEMMA LogFollowsRun ==
  ASSUME BenchState, LogFollows, Construct \/ Measure \/ Destroy \/ SyncLogs
  PROVE  LogFollows'
<1>1. CASE Construct
  <2>1. log' = <<>> /\ index' = Replay(Empty, log') /\ th' = th
    BY <1>1 DEF Construct, LogRemoved
  <2>2. \A t \in Threads : ~ InFlight(t)'
    <3>1. \A t \in Threads : th[t].pc = "idle"
      BY <1>1, Still DEF Construct
    <3> QED
      BY <2>1, <3>1 DEF InFlight
  <2>3. Whole'
    BY <2>1 DEF Whole
  <2> QED
    BY <2>1, <2>2, <2>3 DEF LogFollows
<1>2. CASE Measure \/ SyncLogs
  <2>1. log' = log /\ index' = index /\ th' = th /\ process' = process /\ turn' = turn
    BY <1>2 DEF Measure, SyncLogs, SyncLoop, SyncerWake, SyncerFlush, vars, walVars, kvVars, benchVars
  <2>2. Logs' = Logs
    BY <2>1 DEF Logs, Store
  <2> QED
    BY <2>1, <2>2 DEF LogFollows, Whole, InFlight
<1>3. CASE Destroy
  <2>1. process' # "up"
    BY <1>3 DEF Destroy, Shutdown, Exit
  <2> QED
    BY <2>1 DEF LogFollows
<1> QED
  BY <1>1, <1>2, <1>3

\* Who has put a key, and who has deleted it, in this run.
Putting(k) ==
  \E t \in Threads : \E i \in 1 .. done[t] :
    Writing(Program(t)[i]) /\ Program(t)[i].key = k /\ Program(t)[i].value # Absent
Deleting(k) ==
  \E t \in Threads : \E i \in 1 .. done[t] :
    Writing(Program(t)[i]) /\ Program(t)[i].key = k /\ Program(t)[i].value = Absent

\* A key is there if it was put and nobody has deleted it: the order of the calls
\* makes no difference.
IndexFollows ==
  process = "up" => \A k \in Key : index[k] # Absent <=> Putting(k) /\ ~ Deleting(k)

\* A call without effect is over.
LEMMA NothingWritten ==
  ASSUME BenchState, NEW t \in Threads, ~ Writing(Pending(t)), NEW CONSTANT k,
         done' = [done EXCEPT ![t] = @ + 1], workload' = workload
  PROVE  Putting(k)' = Putting(k) /\ Deleting(k)' = Deleting(k)
<1>1. done \in [Threads -> Nat]
  BY DEF BenchState, Course
<1>2. \A u \in Threads : Program(u)' = Program(u)
  BY ProgramStays
<1>3. \A u \in Threads : \A i \in 1 .. done'[u] : Writing(Program(u)[i]) => i \in 1 .. done[u]
  <2>1. ~ Writing(Program(t)[done[t] + 1])
    BY DEF Pending
  <2> QED
    BY <1>1, <2>1
<1>4. \A u \in Threads : 1 .. done[u] \subseteq 1 .. done'[u]
  BY <1>1
<1> QED
  BY <1>2, <1>3, <1>4 DEF Putting, Deleting

\* A call that writes is over: its record is one more.
LEMMA OneWritten ==
  ASSUME BenchState, NEW t \in Threads, Writing(Pending(t)), NEW CONSTANT k,
         done' = [done EXCEPT ![t] = @ + 1], workload' = workload
  PROVE  /\ Putting(k)' <=> Putting(k) \/ (Pending(t).key = k /\ Pending(t).value # Absent)
         /\ Deleting(k)' <=> Deleting(k) \/ (Pending(t).key = k /\ Pending(t).value = Absent)
<1>1. done \in [Threads -> Nat]
  BY DEF BenchState, Course
<1>2. \A u \in Threads : Program(u)' = Program(u)
  BY ProgramStays
<1> DEFINE n == done[t] + 1
<1>3. n \in 1 .. done'[t] /\ Pending(t) = Program(t)[n]
  BY <1>1 DEF Pending
<1>4. \A u \in Threads : 1 .. done[u] \subseteq 1 .. done'[u]
  BY <1>1
<1>5. \A u \in Threads : \A i \in 1 .. done'[u] : i \in 1 .. done[u] \/ (u = t /\ i = n)
  BY <1>1
<1> HIDE DEF n
<1>6. Putting(k)' <=> Putting(k) \/ (Pending(t).key = k /\ Pending(t).value # Absent)
  BY <1>2, <1>3, <1>4, <1>5 DEF Putting
<1>7. Deleting(k)' <=> Deleting(k) \/ (Pending(t).key = k /\ Pending(t).value = Absent)
  BY <1>2, <1>3, <1>4, <1>5 DEF Deleting
<1> QED
  BY <1>6, <1>7

\* Nobody has deleted a key that is about to be put.
LEMMA PutIsFirst ==
  ASSUME BenchState, NEW t \in Threads, Active(t), done[t] < Len(Program(t)),
         Writing(Pending(t)), Pending(t).value # Absent
  PROVE  ~ Deleting(Pending(t).key)
<1> SUFFICES ASSUME NEW u \in Threads, NEW j \in 1 .. done[u],
                    Writing(Program(u)[j]), Program(u)[j].key = Pending(t).key,
                    Program(u)[j].value = Absent
             PROVE  FALSE
  BY DEF Deleting
<1>1. /\ Where(u) /\ done \in [Threads -> Nat] /\ Len(Program(t)) \in Nat /\ Len(Program(u)) \in Nat
  BY ProgramRecords DEF BenchState, Course
<1> DEFINE i == done[t] + 1
<1>2. i \in 1 .. Len(Program(t)) /\ Pending(t) = Program(t)[i]
  BY <1>1 DEF Pending
<1>3. j \in 1 .. Len(Program(u)) /\ done[u] > 0
  BY <1>1 DEF Where
<1> HIDE DEF i
<1>4. (t = u /\ i = j) \/ (t = main /\ u # main)
  BY <1>2, <1>3, PutsDiffer
<1>5. CASE t = u /\ i = j
  BY <1>2, <1>5
<1>6. CASE t = main /\ u # main
  <2>1. process # "down" /\ ~ Through(main)
    BY <1>6 DEF Active
  <2> QED
    BY <1>1, <1>3, <1>6, <2>1 DEF Where
<1> QED
  BY <1>4, <1>5, <1>6

\* The call that changes the index keeps it so.
LEMMA IndexAfterWrite ==
  ASSUME BenchState, IndexFollows, NEW t \in Threads, Active(t), done[t] < Len(Program(t)),
         Writing(Pending(t)), done' = [done EXCEPT ![t] = @ + 1], workload' = workload,
         index' = [index EXCEPT ![Pending(t).key] = Pending(t).value]
  PROVE  IndexFollows'
<1>1. index \in Contents /\ process = "up"
  BY DEF BenchState, Course, TypeOK, Active
<1>2. ASSUME NEW k \in Key
      PROVE  index'[k] # Absent <=> Putting(k)' /\ ~ Deleting(k)'
  <2>1. /\ Putting(k)' <=> Putting(k) \/ (Pending(t).key = k /\ Pending(t).value # Absent)
        /\ Deleting(k)' <=> Deleting(k) \/ (Pending(t).key = k /\ Pending(t).value = Absent)
    BY OneWritten
  <2>2. CASE Pending(t).key # k
    <3>1. index'[k] = index[k]
      BY <1>1, <2>2 DEF Contents
    <3>2. index[k] # Absent <=> Putting(k) /\ ~ Deleting(k)
      BY <1>1 DEF IndexFollows
    <3> QED
      BY <2>1, <2>2, <3>1, <3>2
  <2>3. CASE Pending(t).key = k
    <3>1. index'[k] = Pending(t).value
      BY <1>1, <2>3 DEF Contents
    <3>2. Pending(t).value # Absent => ~ Deleting(k)
      BY <2>3, PutIsFirst
    <3> QED
      BY <2>1, <2>3, <3>1, <3>2
  <2> QED
    BY <2>2, <2>3
<1> QED
  BY <1>2 DEF IndexFollows

LEMMA IndexFollowsCall ==
  ASSUME BenchState, IndexFollows, NEW t \in Threads, Call(t)
  PROVE  IndexFollows'
<1>1. /\ Active(t) /\ done[t] < Len(Program(t)) /\ process' = process /\ workload' = workload
  BY CallIsActive
<1>2. \A u \in Threads : Program(u)' = Program(u)
  BY <1>1, ProgramStays
<1>3. CASE LookUp(t)
  <2>1. ~ Writing(Pending(t)) /\ done' = [done EXCEPT ![t] = @ + 1] /\ index' = index
    BY <1>3 DEF LookUp, Returns, Writing, vars, kvVars
  <2>2. \A k \in Key : Putting(k)' = Putting(k) /\ Deleting(k)' = Deleting(k)
    BY <1>1, <2>1, NothingWritten
  <2> QED
    BY <1>1, <2>1, <2>2 DEF IndexFollows
<1>4. CASE Change(t)
  <2>1. /\ Writing(Pending(t)) /\ done' = [done EXCEPT ![t] = @ + 1]
        /\ index' = [index EXCEPT ![Pending(t).key] = Pending(t).value]
    BY <1>4 DEF Change, Returns, Writing
  <2> QED
    BY <1>1, <2>1, IndexAfterWrite
<1>5. CASE Log(t) \/ MarkLogged(t)
  <2>1. done' = done /\ index' = index
    BY <1>5 DEF Log, WriteRecord, MarkLogged, Mark, benchVars
  <2>2. \A k : Putting(k)' = Putting(k) /\ Deleting(k)' = Deleting(k)
    BY <1>2, <2>1 DEF Putting, Deleting
  <2> QED
    BY <1>1, <2>1, <2>2 DEF IndexFollows
<1>6. CASE ApplyLogged(t)
  <2>1. /\ done' = [done EXCEPT ![t] = @ + 1] /\ th[t].pc = "apply"
        /\ index' = [index EXCEPT ![th[t].record.key] = th[t].record.value]
    BY <1>6 DEF ApplyLogged, Apply, Returns, At
  <2>2. th[t].record = Pending(t) /\ Writing(Pending(t))
    BY <2>1 DEF BenchState, Where
  <2> QED
    BY <1>1, <2>1, <2>2, IndexAfterWrite
<1> QED
  BY <1>3, <1>4, <1>5, <1>6 DEF Call

LEMMA IndexFollowsRun ==
  ASSUME BenchState, IndexFollows, Construct \/ Measure \/ Destroy \/ SyncLogs
  PROVE  IndexFollows'
<1>0. workload' = workload
  BY DEF Construct, Measure, Destroy, SyncLogs, benchVars
<1>1. CASE Construct
  <2>1. index' = Replay(Empty, <<>>) /\ \A t \in Threads : done'[t] = 0
    BY <1>1 DEF Construct, LogRemoved
  <2>2. \A k \in Key : Written(<<>>, k) = {}
    BY DEF Written, Readable
  <2>3. \A k \in Key : index'[k] = Absent
    BY <2>1, <2>2, ReplayOf DEF Empty
  <2>4. \A k : ~ Putting(k)'
    BY <2>1 DEF Putting
  <2> QED
    BY <2>3, <2>4 DEF IndexFollows
<1>2. CASE Measure \/ SyncLogs
  <2>1. done' = done /\ index' = index /\ process' = process
    BY <1>2 DEF Measure, SyncLogs, vars, kvVars, benchVars
  <2>2. \A u \in Threads : Program(u)' = Program(u)
    BY <1>0, ProgramStays
  <2>3. \A k : Putting(k)' = Putting(k) /\ Deleting(k)' = Deleting(k)
    BY <2>1, <2>2 DEF Putting, Deleting
  <2> QED
    BY <2>1, <2>3 DEF IndexFollows
<1>3. CASE Destroy
  <2>1. process' # "up"
    BY <1>3 DEF Destroy, Shutdown, Exit
  <2> QED
    BY <2>1 DEF IndexFollows
<1> QED
  BY <1>1, <1>2, <1>3

-----------------------------------------------------------------------------
(* The sizes.                                                               *)

\* The calls of a run's threads that put, the keys they put and delete, and the
\* preloaded keys that stay.
PutsOf(n)    == {w \in Writes(0 .. Count(n) - 1) : RecordOf(w).value # Absent}
PutKeys(n)   == {RecordOf(w).key : w \in PutsOf(n)}
Deleted(n)   == {RecordOf(w).key : w \in Writes(0 .. Count(n) - 1) \ PutsOf(n)}
Spared(n)    == {i \in 0 .. Preload - 1 : Seed(i) \notin Deleted(n)}
Expected(n)  == Cardinality(PutsOf(n)) + Cardinality(Spared(n))

\* Every put of a run is of another key.
LEMMA PutsAreKeys ==
  ASSUME NEW n
  PROVE  IsFiniteSet(PutKeys(n)) /\ Cardinality(PutKeys(n)) = Cardinality(PutsOf(n))
<1> DEFINE T == 0 .. Count(n) - 1
           f == [w \in PutsOf(n) |-> RecordOf(w).key]
<1>0. T \in SUBSET Threads
  <2>1. Count(n) \in 1 .. MaxThreads /\ 0 .. MaxThreads - 1 \subseteq Threads
    BY CountsType
  <2> DEFINE c == Count(n)
  <2> HIDE DEF c
  <2>2. c \in 1 .. MaxThreads => 0 .. c - 1 \subseteq 0 .. MaxThreads - 1
    BY CompareBenchmarkAssumption
  <2> QED
    BY <2>1, <2>2 DEF c
<1>1. PutsOf(n) \subseteq Writes(T)
  BY DEF PutsOf
<1> HIDE DEF T
<1>2. IsFiniteSet(PutsOf(n))
  BY <1>0, <1>1, WritesFinite, FS_Subset
<1>3. ASSUME NEW w \in PutsOf(n), NEW x \in PutsOf(n), f[w] = f[x]
      PROVE  w = x
  <2>1. RecordOf(w).key = RecordOf(x).key /\ RecordOf(w).value # Absent /\ RecordOf(x).value # Absent
    BY <1>3 DEF PutsOf
  <2>2. /\ w = <<w[1], w[2]>> /\ w[1] \in Threads /\ w[2] \in 1 .. Len(Program(w[1]))
        /\ Writing(RecordOf(w)) /\ RecordOf(w) = Program(w[1])[w[2]]
        /\ x = <<x[1], x[2]>> /\ x[1] \in Threads /\ x[2] \in 1 .. Len(Program(x[1]))
        /\ Writing(RecordOf(x)) /\ RecordOf(x) = Program(x[1])[x[2]]
    BY <1>0, <1>1, WritesAre
  <2>3. w[1] = x[1] /\ w[2] = x[2]
    BY <2>1, <2>2, PutsDiffer
  <2> QED
    BY <2>2, <2>3
<1>4. f \in [PutsOf(n) -> PutKeys(n)] /\ \A k \in PutKeys(n) : \E w \in PutsOf(n) : f[w] = k
  BY DEF PutKeys
<1>5. f \in Bijection(PutsOf(n), PutKeys(n))
  <2> HIDE DEF f
  <2> QED
    BY <1>3, <1>4 DEF Bijection, Injection, Surjection, IsInjective
<1>6. ExistsBijection(PutsOf(n), PutKeys(n))
  BY <1>5 DEF ExistsBijection
<1> QED
  BY <1>2, <1>6, FS_Bijection

LEMMA SparedAreKeys ==
  ASSUME NEW n
  PROVE  /\ IsFiniteSet({Seed(i) : i \in Spared(n)})
         /\ Cardinality({Seed(i) : i \in Spared(n)}) = Cardinality(Spared(n))
<1> DEFINE S == {Seed(i) : i \in Spared(n)}
           f == [i \in Spared(n) |-> Seed(i)]
<1>1. IsFiniteSet(Spared(n))
  <2>1. IsFiniteSet(0 .. Preload - 1)
    BY FS_Interval, CompareBenchmarkAssumption
  <2> QED
    BY <2>1, FS_Subset DEF Spared
<1>2. f \in [Spared(n) -> S] /\ \A k \in S : \E i \in Spared(n) : f[i] = k
  OBVIOUS
<1>3. \A i, j \in Spared(n) : f[i] = f[j] => i = j
  BY DEF Seed
<1> HIDE DEF f, S
<1>4. f \in Bijection(Spared(n), S)
  BY <1>2, <1>3 DEF Bijection, Injection, Surjection, IsInjective
<1>5. ExistsBijection(Spared(n), S)
  BY <1>4 DEF ExistsBijection
<1>6. IsFiniteSet(S) /\ Cardinality(S) = Cardinality(Spared(n))
  BY <1>1, <1>5, FS_Bijection
<1> QED
  BY <1>6 DEF S

\* When a run is over, what was put is what its threads and the preloading put,
\* and what was deleted what its threads delete.
LEMMA AllIsDone ==
  ASSUME BenchState, Measure, NEW k
  PROVE  /\ Putting(k) <=> k \in PutKeys(turn) \/ \E i \in 0 .. Preload - 1 : k = Seed(i)
         /\ Deleting(k) <=> k \in Deleted(turn)
<1> DEFINE T == 0 .. Count(turn) - 1
<1>0. /\ process = "up" /\ Through(main) /\ \A t \in T : Through(t)
  BY DEF Measure
<1>1. T \subseteq Threads \ {main} /\ \A t \in Threads \ {main} : t \in T \/ ~ (t < Count(turn))
  <2> DEFINE c == Count(turn)
  <2>1. c \in 1 .. MaxThreads
    BY CountsType
  <2> HIDE DEF c
  <2>2. /\ 0 .. c - 1 \subseteq 0 .. MaxThreads - 1
        /\ \A t \in 0 .. MaxThreads - 1 : t \in 0 .. c - 1 \/ ~ (t < c)
    BY <2>1, CompareBenchmarkAssumption
  <2> QED
    BY <2>2, CompareBenchmarkAssumption DEF c, Threads
<1>2. /\ \A t \in Threads : Where(t) /\ done[t] \in Nat
      /\ main \in Threads
  BY CountsType DEF BenchState, Course
<1>3. \A t \in Threads \ {main} : t \in T \/ done[t] = 0
  BY <1>0, <1>1, <1>2 DEF Where
<1>4. done[main] = Preload /\ \A t \in T : done[t] = Len(Program(t))
  BY <1>0, Preloading DEF Through
<1> HIDE DEF T
<1>5. \A t \in T : \A i \in 1 .. done[t] : Writing(Program(t)[i]) =>
        <<t, i>> \in Writes(T) /\ RecordOf(<<t, i>>) = Program(t)[i]
  <2>1. \A t, i : RecordOf(<<t, i>>) = Program(t)[i]
    BY DEF RecordOf
  <2> QED
    BY <1>4, <2>1, WritesAre
<1>6. \A w \in Writes(T) : /\ w[1] \in T /\ w[1] \in Threads /\ w[2] \in 1 .. done[w[1]]
                           /\ Writing(Program(w[1])[w[2]]) /\ RecordOf(w) = Program(w[1])[w[2]]
  BY <1>1, <1>4, WritesAre
<1>7. \A i \in 1 .. Preload : /\ Writing(Program(main)[i]) /\ Program(main)[i].key = Seed(i - 1)
                             /\ Program(main)[i].value # Absent
  BY Preloading
<1>8. Putting(k) => k \in PutKeys(turn) \/ \E i \in 0 .. Preload - 1 : k = Seed(i)
  <2> SUFFICES ASSUME NEW t \in Threads, NEW i \in 1 .. done[t], Writing(Program(t)[i]),
                      Program(t)[i].key = k, Program(t)[i].value # Absent
               PROVE  k \in PutKeys(turn) \/ \E j \in 0 .. Preload - 1 : k = Seed(j)
    BY DEF Putting
  <2>1. CASE t = main
    <3>1. i \in 1 .. Preload /\ k = Seed(i - 1)
      BY <1>4, <1>7, <2>1
    <3>2. i - 1 \in 0 .. Preload - 1
      BY <3>1, CompareBenchmarkAssumption
    <3> QED
      BY <3>1, <3>2
  <2>2. CASE t # main
    <3>1. t \in T
      BY <1>2, <1>3, <2>2
    <3>2. <<t, i>> \in PutsOf(turn) /\ RecordOf(<<t, i>>).key = k
      BY <1>5, <3>1 DEF PutsOf, T
    <3> QED
      BY <3>2 DEF PutKeys
  <2> QED
    BY <2>1, <2>2
<1>9. ASSUME k \in PutKeys(turn)
      PROVE  Putting(k)
  <2>1. PICK w \in PutsOf(turn) : RecordOf(w).key = k
    BY <1>9 DEF PutKeys
  <2>2. w \in Writes(T) /\ RecordOf(w).value # Absent
    BY DEF PutsOf, T
  <2> QED
    BY <1>6, <2>1, <2>2 DEF Putting
<1>10. ASSUME NEW i \in 0 .. Preload - 1, k = Seed(i)
       PROVE  Putting(k)
  <2>1. i + 1 \in 1 .. Preload /\ (i + 1) - 1 = i
    BY CompareBenchmarkAssumption
  <2> DEFINE j == i + 1
  <2>2. j \in 1 .. done[main] /\ Program(main)[j].key = k
    BY <1>4, <1>7, <1>10, <2>1
  <2> HIDE DEF j
  <2> QED
    BY <1>2, <1>4, <1>7, <2>2 DEF Putting
<1>11. ASSUME Deleting(k)
       PROVE  k \in Deleted(turn)
  <2>0. PICK t \in Threads : \E i \in 1 .. done[t] :
          Writing(Program(t)[i]) /\ Program(t)[i].key = k /\ Program(t)[i].value = Absent
    BY <1>11 DEF Deleting
  <2>1. PICK i \in 1 .. done[t] :
          Writing(Program(t)[i]) /\ Program(t)[i].key = k /\ Program(t)[i].value = Absent
    BY <2>0
  <2>2. t # main
    BY <1>4, <1>7, <2>1
  <2>3. t \in T
    BY <1>2, <1>3, <2>2
  <2>4. <<t, i>> \in Writes(T) /\ <<t, i>> \notin PutsOf(turn) /\ RecordOf(<<t, i>>).key = k
    BY <1>5, <2>1, <2>3 DEF PutsOf
  <2> QED
    BY <2>4 DEF Deleted, T
<1>12. ASSUME k \in Deleted(turn)
       PROVE  Deleting(k)
  <2>1. PICK w \in Writes(T) \ PutsOf(turn) : RecordOf(w).key = k
    BY <1>12 DEF Deleted, T
  <2>2. RecordOf(w).value = Absent
    BY <2>1 DEF PutsOf, T
  <2> QED
    BY <1>6, <2>1, <2>2 DEF Deleting
<1> QED
  BY <1>8, <1>9, <1>10, <1>11, <1>12

\* The keys that a run's threads put are not preloaded, and nobody deletes them.
LEMMA OwnKeys ==
  ASSUME NEW n, NEW k \in PutKeys(n)
  PROVE  k \in Key /\ k \notin Deleted(n) /\ \A i : k # Seed(i)
<1> DEFINE T == 0 .. Count(n) - 1
<1>1. T \subseteq Threads \ {main}
  <2> DEFINE c == Count(n)
  <2>1. c \in 1 .. MaxThreads
    BY CountsType
  <2> HIDE DEF c
  <2>2. 0 .. c - 1 \subseteq 0 .. MaxThreads - 1
    BY <2>1, CompareBenchmarkAssumption
  <2> QED
    BY <2>2, CompareBenchmarkAssumption DEF c, Threads
<1>2. PICK w \in PutsOf(n) : RecordOf(w).key = k
  BY DEF PutKeys
<1>3. w \in Writes(T) /\ RecordOf(w).value # Absent
  BY <1>2 DEF PutsOf
<1>4. \A x \in Writes(T) \ PutsOf(n) : RecordOf(x).value = Absent
  BY DEF PutsOf
<1>5. Deleted(n) = {RecordOf(x).key : x \in Writes(T) \ PutsOf(n)}
  BY DEF Deleted
<1> HIDE DEF T
<1>6. \A x \in Writes(T) : /\ x[1] \in Threads \ {main} /\ x[2] \in 1 .. Len(Program(x[1]))
                           /\ Writing(Program(x[1])[x[2]]) /\ RecordOf(x) = Program(x[1])[x[2]]
  BY <1>1, WritesAre
<1>7. w[1] \in 0 .. MaxThreads - 1 /\ \E o \in 0 .. Operations - 1 : k = WriteKey(w[1], o)
  BY <1>2, <1>3, <1>6, Writer
<1>8. k \in Key /\ \A i : k # Seed(i)
  BY <1>7, KeysOfOperation
<1>9. ASSUME NEW x \in Writes(T) \ PutsOf(n), RecordOf(x).key = k
      PROVE  FALSE
  <2>1. x[1] \in 0 .. MaxThreads - 1 /\ \E o \in 0 .. Operations - 1 : k = ReadKey(x[1], o)
    BY <1>4, <1>6, <1>9, Writer
  <2>2. \E i : k = Seed(i)
    BY <2>1, KeysOfOperation
  <2> QED
    BY <1>8, <2>2
<1> QED
  BY <1>5, <1>8, <1>9

\* The size that a run reports.
LEMMA MeasuredSize ==
  ASSUME BenchState, IndexFollows, Measure
  PROVE  Size = Expected(turn)
<1> DEFINE present == {k \in Key : index[k] # Absent}
           seeds   == {Seed(i) : i \in Spared(turn)}
<1>1. \A k \in Key : index[k] # Absent <=> Putting(k) /\ ~ Deleting(k)
  BY DEF Measure, IndexFollows
<1>2. \A i \in 0 .. Preload - 1 : Seed(i) \in Key
  <2>1. 0 .. Preload - 1 \subseteq 0 .. Preload
    BY CompareBenchmarkAssumption
  <2> QED
    BY <2>1, CompareBenchmarkAssumption DEF Keys
<1>3. ASSUME NEW k \in Key
      PROVE  index[k] # Absent <=> k \in PutKeys(turn) \/ k \in seeds
  <2>1. k \in seeds <=> (\E i \in 0 .. Preload - 1 : k = Seed(i)) /\ k \notin Deleted(turn)
    BY DEF Spared
  <2>2. /\ Putting(k) <=> k \in PutKeys(turn) \/ \E i \in 0 .. Preload - 1 : k = Seed(i)
        /\ Deleting(k) <=> k \in Deleted(turn)
    BY AllIsDone
  <2>3. k \in PutKeys(turn) => k \notin Deleted(turn)
    BY OwnKeys
  <2> HIDE DEF seeds
  <2> QED
    BY <1>1, <2>1, <2>2, <2>3
<1>4. seeds \subseteq Key
  BY <1>2 DEF Spared
<1>5. PutKeys(turn) \subseteq Key
  BY OwnKeys
<1>6. PutKeys(turn) \cap seeds = {}
  BY OwnKeys
<1>7. present = PutKeys(turn) \union seeds
  <2> HIDE DEF seeds
  <2> QED
    BY <1>3, <1>4, <1>5
<1>8. /\ IsFiniteSet(PutKeys(turn)) /\ Cardinality(PutKeys(turn)) = Cardinality(PutsOf(turn))
      /\ IsFiniteSet(seeds) /\ Cardinality(seeds) = Cardinality(Spared(turn))
  BY PutsAreKeys, SparedAreKeys
<1> HIDE DEF seeds, present
<1>9. Cardinality(present) = Cardinality(PutKeys(turn)) + Cardinality(seeds)
  <2>1. /\ Cardinality(PutKeys(turn) \union seeds) =
             Cardinality(PutKeys(turn)) + Cardinality(seeds) - Cardinality(PutKeys(turn) \cap seeds)
        /\ Cardinality(PutKeys(turn)) \in Nat /\ Cardinality(seeds) \in Nat
    BY <1>8, FS_Union, FS_CardinalityType
  <2>2. Cardinality(PutKeys(turn) \cap seeds) = 0
    BY <1>6, FS_EmptySet
  <2> QED
    BY <1>7, <2>1, <2>2
<1> QED
  BY <1>8, <1>9 DEF Size, Expected, present

LEMMA SizesAreExpected == SizesAgree <=> \A n \in DOMAIN sizes : sizes[n] = Expected(n)
BY DEF SizesAgree, Expected, PutsOf, Deleted, Spared

LEMMA SizesStep ==
  ASSUME BenchState, IndexFollows, SizesAgree, BenchNext
  PROVE  SizesAgree'
<1>1. workload' = workload
  <2>1. ASSUME NEW t \in Threads, Call(t)
        PROVE  workload' = workload
    BY <2>1, CallIsActive
  <2> QED
    BY <2>1 DEF BenchNext, Construct, Measure, Destroy, SyncLogs, benchVars, allVars
<1>2. \A n : Writes(0 .. Count(n) - 1)' = Writes(0 .. Count(n) - 1)
  BY <1>1, WritesStay
<1>3. \A w : RecordOf(w)' = RecordOf(w)
  <2>1. \A t : Program(t)' = Program(t)
    BY <1>1, ProgramStays
  <2> QED
    BY <2>1 DEF RecordOf
<1>4. \A n : Expected(n)' = Expected(n)
  <2>1. \A n : PutsOf(n)' = PutsOf(n)
    BY <1>2, <1>3 DEF PutsOf
  <2>2. \A n : Deleted(n)' = Deleted(n)
    BY <1>2, <1>3, <2>1 DEF Deleted
  <2>3. \A n : Spared(n)' = Spared(n)
    BY <2>2 DEF Spared
  <2> QED
    BY <2>1, <2>3 DEF Expected
<1>5. \A n \in DOMAIN sizes : sizes[n] = Expected(n)
  BY SizesAreExpected
<1>6. CASE Measure
  <2>1. /\ sizes \in Seq(Nat) /\ Len(sizes) \in {turn - 1, turn} /\ turn \in 1 .. Runs + 1
        /\ Runs \in Nat /\ turn \notin DOMAIN sizes
    BY <1>6, CountsType DEF Measure, BenchState, Course
  <2>2. sizes' = Append(sizes, Size) /\ Size = Expected(turn)
    BY <1>6, MeasuredSize DEF Measure
  <2> DEFINE l == Len(sizes)
  <2>3. l \in Nat /\ DOMAIN sizes = 1 .. l
    BY <2>1
  <2>4. l \in {turn - 1, turn} /\ turn \notin 1 .. l /\ turn \in 1 .. Runs + 1 /\ Runs \in Nat
    BY <2>1, <2>3
  <2>5. DOMAIN sizes' = 1 .. l + 1 /\ sizes'[l + 1] = Size /\ \A n \in 1 .. l : sizes'[n] = sizes[n]
    BY <2>1, <2>2, SizeType
  <2> HIDE DEF l
  <2>6. turn = l + 1
    BY <2>3, <2>4
  <2>7. ASSUME NEW n \in DOMAIN sizes'
        PROVE  sizes'[n] = Expected(n)
    <3>1. CASE n = turn
      BY <2>2, <2>5, <2>6, <3>1
    <3>2. CASE n # turn
      <4>1. n \in 1 .. l
        BY <2>3, <2>5, <2>6, <3>2
      <4> QED
        BY <1>5, <2>3, <2>5, <4>1
    <3> QED
      BY <3>1, <3>2
  <2>8. \A n \in DOMAIN sizes' : sizes'[n] = Expected(n)'
    BY <1>4, <2>7
  <2> QED
    BY <2>8 DEF SizesAgree, Expected, PutsOf, Deleted, Spared
<1>7. CASE sizes' = sizes
  <2>1. \A n \in DOMAIN sizes' : sizes'[n] = Expected(n)'
    BY <1>4, <1>5, <1>7
  <2> QED
    BY <2>1 DEF SizesAgree, Expected, PutsOf, Deleted, Spared
<1>8. CASE \E t \in Threads : Call(t)
  BY <1>7, <1>8, CallIsActive
<1> QED
  BY <1>6, <1>7, <1>8 DEF BenchNext, Construct, Destroy, SyncLogs, benchVars, allVars

-----------------------------------------------------------------------------
(* The theorems.                                                            *)

\* The inductive invariant.
BenchInv == BenchState /\ LogShort /\ LogFollows /\ IndexFollows /\ SizesAgree

LEMMA BenchInvInit == BenchInit => BenchInv
<1> SUFFICES ASSUME BenchInit PROVE BenchInv
  OBVIOUS
<1>1. /\ TypeOK /\ process = "down" /\ log = <<>> /\ sizes = <<>> /\ turn = 1
      /\ th = [t \in Caller |-> Idle] /\ done = [t \in Threads |-> 0]
      /\ workload \in DOMAIN Cases
  BY TypeInit, WorkloadAssumption DEF BenchInit, Init, WALInit
<1>2. Course
  <2>1. Len(sizes) = 0 /\ sizes \in Seq(Nat) /\ 1 \in 1 .. Runs + 1 /\ done \in [Threads -> Nat]
    BY <1>1, CountsType
  <2> QED
    BY <1>1, <2>1 DEF Course
<1>3. ASSUME NEW t \in Threads
      PROVE  Where(t)
  <2>1. th[t].pc = "idle" /\ done[t] = 0 /\ Len(Program(t)) \in Nat
    BY <1>1, CountsType, ProgramRecords, IdleType
  <2> QED
    BY <1>1, <2>1 DEF Where
<1>4. LogShort
  <2>1. Len(log) = 0 /\ Cardinality(Writes(Threads)) \in Nat
    BY <1>1, LoggedFinite
  <2> QED
    BY <1>1, <2>1 DEF LogShort
<1>5. SizesAgree
  BY <1>1 DEF SizesAgree
<1> QED
  BY <1>1, <1>2, <1>3, <1>4, <1>5 DEF BenchInv, BenchState, LogFollows, IndexFollows

LEMMA BenchInvStutters ==
  ASSUME BenchInv, UNCHANGED allVars
  PROVE  BenchInv'
<1>1. /\ UNCHANGED <<log, synced, interval, dirty, stop, syncer, index, snapshot, process, th>>
      /\ UNCHANGED <<workload, turn, done, sizes>>
  BY DEF allVars, vars, walVars, kvVars, benchVars
<1>2. \A t : Program(t)' = Program(t)
  BY <1>1, ProgramStays
<1>3. Course'
  BY <1>1 DEF BenchInv, BenchState, Course, TypeOK
<1>4. Logs' = Logs /\ Count(turn)' = Count(turn) /\ \A t : Pending(t)' = Pending(t)
  BY <1>1, <1>2 DEF Logs, Store, Count, Pending
<1>5. Through(main)' = Through(main) /\ \A t : InFlight(t)' = InFlight(t)
  BY <1>1, <1>2 DEF Through, InFlight
<1>6. \A t \in Threads : Where(t)'
  BY <1>1, <1>2, <1>4, <1>5 DEF BenchInv, BenchState, Where
<1>7. Writes(Threads)' = Writes(Threads) /\ \A n : Writes(0 .. Count(n) - 1)' = Writes(0 .. Count(n) - 1)
  BY <1>1, WritesStay
<1>8. LogShort'
  <2>1. Logged' = Logged
    BY <1>1, <1>5, <1>7 DEF Logged
  <2> QED
    BY <1>1, <1>4, <1>7, <2>1 DEF BenchInv, LogShort
<1>9. LogFollows'
  BY <1>1, <1>4, <1>5 DEF BenchInv, LogFollows, Whole
<1>10. IndexFollows'
  BY <1>1, <1>2 DEF BenchInv, IndexFollows, Putting, Deleting
<1>11. SizesAgree'
  <2>1. \A w : RecordOf(w)' = RecordOf(w)
    BY <1>2 DEF RecordOf
  <2> QED
    BY <1>1, <1>7, <2>1 DEF BenchInv, SizesAgree
<1> QED
  BY <1>3, <1>6, <1>8, <1>9, <1>10, <1>11 DEF BenchInv, BenchState

LEMMA BenchInvStep ==
  ASSUME BenchInv, [BenchNext]_allVars
  PROVE  BenchInv'
<1>0. BenchState /\ LogShort /\ LogFollows /\ IndexFollows /\ SizesAgree
  BY DEF BenchInv
<1>1. ASSUME NEW t \in Threads, Call(t)
      PROVE  BenchInv'
  <2>1. SizesAgree'
    BY <1>0, <1>1, SizesStep DEF BenchNext
  <2> QED
    BY <1>0, <1>1, <2>1, CourseCall, WhereCall, LogShortCall, LogFollowsCall, IndexFollowsCall
       DEF BenchInv, BenchState
<1>2. CASE Construct \/ Measure \/ Destroy \/ SyncLogs
  <2>1. SizesAgree'
    BY <1>0, <1>2, SizesStep DEF BenchNext
  <2> QED
    BY <1>0, <1>2, <2>1, CourseRun, WhereRun, LogShortRun, LogFollowsRun, IndexFollowsRun
       DEF BenchInv, BenchState
<1>3. CASE UNCHANGED allVars
  BY <1>3, BenchInvStutters
<1> QED
  BY <1>1, <1>2, <1>3 DEF BenchNext

LEMMA BenchInvHolds == BenchSpec => []BenchInv
BY BenchInvInit, BenchInvStep, PTL DEF BenchSpec

\* Every variable keeps its type, and the log of a run never holds more records
\* than its threads have calls that write: the file of the run before was removed
\* (compare_benchmark_main.cpp RemoveFileIfExists).
THEOREM BenchTypeCorrect == BenchSpec => []BenchTypeOK
<1>1. BenchInv => BenchTypeOK
  <2> SUFFICES ASSUME BenchInv PROVE BenchTypeOK
    OBVIOUS
  <2>1. Course /\ (\A t \in Threads : done[t] <= Len(Program(t))) /\ Len(log) <= Cardinality(Writes(Threads))
    BY DEF BenchInv, BenchState, Where, LogShort
  <2> QED
    BY <2>1 DEF Course, BenchTypeOK
<1> QED
  BY <1>1, BenchInvHolds, PTL

\* Whatever the number of threads and however they interleave, the log of a store
\* restores each key on which no call is in progress: calls that are in progress
\* on one key all delete it (KVStore::Put and Delete, WalBackedStore).
THEOREM LogRestoresStoreHolds == BenchSpec => []LogRestoresStore
<1>1. BenchInv => LogRestoresStore
  BY CountsType DEF BenchInv, LogFollows, LogRestoresStore
<1> QED
  BY <1>1, BenchInvHolds, PTL

\* Whatever the number of threads and however they interleave, all four stores
\* report the size that the workload asks for (RunBenchmark, final_size).
THEOREM SizesAgreeHolds == BenchSpec => []SizesAgree
<1>1. BenchInv => SizesAgree
  BY DEF BenchInv
<1> QED
  BY <1>1, BenchInvHolds, PTL

=============================================================================

--------------------------- MODULE SessionsProofs ---------------------------
(***************************************************************************)
(* For all clients, keys, values, bounds and pipeline depths: what users   *)
(* may rely on across all the programs.                                    *)
(***************************************************************************)
EXTENDS SessionsSafety, SequenceTheorems, FiniteSetTheorems, TLAPS

-----------------------------------------------------------------------------
(* The inductive invariant.                                                 *)

\* What a client may send.
Sendable(c) ==
  IF Kind[c] = "bench" THEN Range(Script(c)) ELSE UNION {Range(batch) : batch \in Typed[c]}

Request == UNION {Sendable(c) : c \in Client}
Message == [id : Nat, request : Request]

\* The lines of the server.
Word == {"PONG", "BYE", "NOT_FOUND", "OK PUT", "OK UPDATE", "OK DELETE", "OK CHECKPOINT",
         "ERROR empty", "ERROR usage", "ERROR unknown", "ERROR unavailable", "ERROR failed", "rest"}
Text == {<<w>> : w \in Word} \union {<<"VALUE", v>> : v \in Value}
          \union {<<"RESULT", f>> : f \in UNION {[S -> Value] : S \in SUBSET Key}}
Line == [of : Nat, first : BOOLEAN, last : BOOLEAN, text : Text]

\* What a line tells of a key.
Shown(text) == IF text = <<"NOT_FOUND">> THEN Absent ELSE text[2]

\* What a key may ever hold.
MayHold(k) == IF Kind[Owner[k]] = "bench" THEN {Absent, BenchValue} ELSE Held

Types ==
  /\ client \in [Client -> [mode : {"off", "prompt", "waiting", "failed"}, sent : Nat,
                            asked : Seq(Request), exact : BOOLEAN]]
  /\ link \in [Client -> {"none", "open", "quitting", "closed", "gone"}]
  /\ inbox \in [Client -> Seq(Message)] /\ outbox \in [Client -> Seq(Line)]
  /\ serving \in Client \union {Nobody} /\ left \in [Client -> Nat] /\ stops \in Nat
  /\ running \in BOOLEAN /\ damaged \in BOOLEAN /\ logged \in BOOLEAN
  /\ visible \in [Key -> Held] /\ owed \in [Key -> SUBSET Held]
  /\ writing \in {{}} \union {{w} : w \in Key \X Held}
  /\ Len(kept) = 1 /\ kept \in Seq([Key -> Held])

\* Whom the server is busy with, and why.
Busy ==
  /\ ~ running => serving = Nobody
  /\ serving = Nobody => writing = {}
  /\ serving # Nobody =>
       /\ inbox[serving] # <<>> /\ logged
       /\ LET request == Head(inbox[serving]).request
          IN request # Junk /\ IF writing = {} THEN Is(request, "CHECKPOINT")
                               ELSE IsWrite(request) /\ writing = {Entry(request)}

\* What the keys hold, in the index and for the next start.
Holds ==
  /\ \A k \in Key : visible[k] \in MayHold(k) /\ kept[1][k] \in MayHold(k)
  /\ running /\ logged /\ ~ damaged =>
       /\ writing = {} => kept[1] = visible
       /\ \A w \in writing : kept[1] = [visible EXCEPT ![w[1]] = w[2]]
  /\ \A k \in Key :
       /\ running => visible[k] \in owed[k]
       /\ ~ running \/ (logged /\ ~ damaged) => kept[1][k] \in owed[k]

\* A client and its connection.
Connected(c) ==
  LET me == client[c] IN
  /\ me.mode # "failed"
  /\ me.mode \in {"off", "failed"} <=> link[c] \in {"none", "gone"}
  /\ me.mode \in {"off", "failed"} => me = [Off EXCEPT !.mode = me.mode]
  /\ me.mode = "prompt" => me.asked = <<>>
  /\ \A i \in 1 .. Len(me.asked) : me.asked[i] \in Sendable(c)
  /\ Len(me.asked) <= me.sent
  /\ Kind[c] = "shell" => Len(me.asked) <= 1
  /\ link[c] \in {"none", "closed"} => inbox[c] = <<>>
  /\ link[c] \in {"none", "gone"} => outbox[c] = <<>>
  /\ link[c] \in {"open", "quitting", "gone"} => running

\* The requests on their way are the last that were sent, and the lines on their way
\* belong to earlier ones.
InOrder(c) ==
  /\ link[c] \in {"open", "quitting"} =>
       \A i \in 1 .. Len(inbox[c]) : inbox[c][i].id = client[c].sent - Len(inbox[c]) + i
  /\ link[c] \in {"open", "quitting"} => Len(inbox[c]) <= client[c].sent
  /\ \A i \in 1 .. Len(inbox[c]) :
       LET request == inbox[c][i].request
       IN /\ request \in Sendable(c)
          /\ request # Junk /\ IsWrite(request) => Entry(request)[2] \in owed[Entry(request)[1]]
  /\ \A i \in 1 .. Len(outbox[c]) : outbox[c][i].of \in 1 .. client[c].sent - Len(inbox[c])
  /\ \A i, j \in 1 .. Len(outbox[c]) : i <= j => outbox[c][i].of <= outbox[c][j].of

\* The number of requests that a client waits for no more.
Settled(c) == client[c].sent - Len(client[c].asked)

\* While a client knows what it reads: the lines on their way are the answers to the
\* requests that it waits for, from the first on.
Matching(c) ==
  LET me == client[c] lines == outbox[c] IN
  /\ \A i \in 1 .. Len(lines) : lines[i].of > Settled(c)
  /\ lines # <<>> => lines[1].first /\ lines[1].of = Settled(c) + 1
  /\ \A i \in 1 .. Len(lines) - 1 :
       lines[i].last => lines[i + 1].first /\ lines[i + 1].of = lines[i].of + 1
  /\ link[c] \in {"open", "quitting"} =>
       /\ Len(inbox[c]) <= Len(me.asked)
       /\ \A i \in 1 .. Len(inbox[c]) :
            inbox[c][i].request = me.asked[Len(me.asked) - Len(inbox[c]) + i]
       /\ lines = <<>> => Len(inbox[c]) = Len(me.asked)
       /\ lines # <<>> => /\ lines[Len(lines)].last
                          /\ lines[Len(lines)].of = me.sent - Len(inbox[c])

\* What was executed is in the index until the client has read that it was, and what
\* it is about to be told may be told.
Truthful(c) ==
  LET me == client[c] IN
  /\ link[c] \in {"open", "quitting"} /\ (Kind[c] = "raw" => Len(me.asked) = 1) =>
       \A i \in 1 .. Len(me.asked) - Len(inbox[c]) :
         me.asked[i] # Junk /\ IsWrite(me.asked[i]) =>
           visible[Entry(me.asked[i])[1]] = Entry(me.asked[i])[2]
  /\ \A i \in 1 .. Len(outbox[c]) : \A k \in Key :
       /\ outbox[c][i].first /\ Owner[k] = c
       /\ me.asked[outbox[c][i].of - Settled(c)] = <<"GET", k>>
       => Shown(outbox[c][i].text) \in owed[k]

\* A benchmark client follows its script, and is answered what it expects.
Scripted(c) ==
  LET me == client[c] IN
  /\ me.exact /\ me.sent <= Len(Script(c))
  /\ me.mode = "waiting" => me.asked # <<>>
  /\ \A i \in 1 .. Len(me.asked) : me.asked[i] = Script(c)[Settled(c) + i]
  /\ \A i, j \in 1 .. Len(me.asked) : Head(me.asked[i]) = Head(me.asked[j])
  /\ \A i \in 1 .. Len(outbox[c]) :
       LET line == outbox[c][i]
       IN line.first /\ line.last /\ line.text[1] \in Expected(Script(c)[line.of])
  /\ link[c] \in {"open", "quitting"} =>
       LET n == Len(Keys[c]) done == me.sent - Len(inbox[c])
       IN \A j \in 1 .. n : n + j <= done /\ done < 4 * n + j => visible[Keys[c][j]] # Absent

ClientInv(c) ==
  /\ Connected(c) /\ InOrder(c)
  /\ client[c].exact => Matching(c) /\ Truthful(c)
  /\ Kind[c] = "bench" => Scripted(c)

IInv == Types /\ Busy /\ Holds /\ \A c \in Client : ClientInv(c)

-----------------------------------------------------------------------------
(* Sequences.                                                               *)

\* What is left of the lines when a connection is lost.
LEMMA PrefixIn ==
  ASSUME NEW S, NEW s \in Seq(S), NEW t \in Prefixed(s)
  PROVE  /\ t \in Seq(S) /\ Len(t) \in 0 .. Len(s)
         /\ \A i \in 1 .. Len(t) : t[i] = s[i]
<1>1. PICK n \in 0 .. Len(s) : t = SubSeq(s, 1, n)
  BY DEF Prefixed
<1>2. \A i \in 1 .. n : s[i] \in S
  BY <1>1, LenProperties
<1>3. n \in Int /\ 1 \in Int /\ (1 <= n \/ n = 0)
  BY <1>1, LenProperties
<1> QED
  BY <1>1, <1>2, <1>3, SubSeqProperties

LEMMA EmptyPrefix ==
  ASSUME NEW t \in Prefixed(<<>>)
  PROVE  t = <<>>
<1>1. PICK n \in 0 .. Len(<<>>) : t = SubSeq(<<>>, 1, n)
  BY DEF Prefixed
<1>2. n = 0
  BY <1>1
<1> QED
  BY <1>1, <1>2, SubSeqEmpty

\* A function of the first numbers is a sequence.
LEMMA FunSeq ==
  ASSUME NEW S, NEW n \in Nat, NEW f \in [1 .. n -> S]
  PROVE  f \in Seq(S) /\ Len(f) = n
BY SeqDef

LEMMA ConcatAt ==
  ASSUME NEW S, NEW s \in Seq(S), NEW t \in Seq(S)
  PROVE  /\ s \o t \in Seq(S) /\ Len(s \o t) = Len(s) + Len(t)
         /\ Len(s) \in Nat /\ Len(t) \in Nat
         /\ \A i \in 1 .. Len(s) : (s \o t)[i] = s[i]
         /\ \A i \in Len(s) + 1 .. Len(s) + Len(t) : (s \o t)[i] = t[i - Len(s)]
BY ConcatProperties, LenProperties

-----------------------------------------------------------------------------
(* The benchmark's script.                                                  *)

\* What a run of the benchmark may ask.
BenchRequest ==
  {<<"PING">>, <<"QUIT">>} \union {<<"PUT", k, BenchValue>> : k \in Key}
    \union {<<"GET", k>> : k \in Key} \union {<<"DEL", k>> : k \in Key}
    \union {<<"SCAN", l, h>> : l \in Key, h \in Key}

\* The phases of the script, each with one request for every key.
LEMMA ScriptPhases ==
  ASSUME NEW c \in Client, Kind[c] = "bench"
  PROVE  LET n == Len(Keys[c]) IN
         /\ n \in Nat \ {0} /\ \A i \in 1 .. n : Keys[c][i] \in Key
         /\ Script(c) \in Seq(BenchRequest) /\ Len(Script(c)) = 5 * n + 1
         /\ \A i \in 1 .. n : Script(c)[i] = <<"PING">>
         /\ \A i \in n + 1 .. 2 * n : Script(c)[i] = <<"PUT", Keys[c][i - n], BenchValue>>
         /\ \A i \in 2 * n + 1 .. 3 * n : Script(c)[i] = <<"GET", Keys[c][i - 2 * n]>>
         /\ \A i \in 3 * n + 1 .. 4 * n : Script(c)[i] = <<"SCAN", Keys[c][1], Keys[c][n]>>
         /\ \A i \in 4 * n + 1 .. 5 * n : Script(c)[i] = <<"DEL", Keys[c][i - 4 * n]>>
         /\ Script(c)[5 * n + 1] = <<"QUIT">>
<1> DEFINE keys  == Keys[c]
           n     == Len(keys)
           pings == [i \in DOMAIN keys |-> <<"PING">>]
           puts  == [i \in DOMAIN keys |-> <<"PUT", keys[i], BenchValue>>]
           gets  == [i \in DOMAIN keys |-> <<"GET", keys[i]>>]
           scans == [i \in DOMAIN keys |-> <<"SCAN", keys[1], keys[Len(keys)]>>]
           dels  == [i \in DOMAIN keys |-> <<"DEL", keys[i]>>]
           quit  == << <<"QUIT">> >>
<1>1. keys \in Seq(Key) /\ keys # <<>>
  BY SessionsAssumption
<1>2. n \in Nat \ {0} /\ DOMAIN keys = 1 .. n /\ \A i \in 1 .. n : keys[i] \in Key
  BY <1>1, LenProperties, EmptySeq
<1>3. /\ pings \in [1 .. n -> BenchRequest] /\ puts \in [1 .. n -> BenchRequest]
      /\ gets \in [1 .. n -> BenchRequest] /\ scans \in [1 .. n -> BenchRequest]
      /\ dels \in [1 .. n -> BenchRequest]
  BY <1>2 DEF BenchRequest
<1>4. /\ pings \in Seq(BenchRequest) /\ Len(pings) = n /\ puts \in Seq(BenchRequest) /\ Len(puts) = n
      /\ gets \in Seq(BenchRequest) /\ Len(gets) = n /\ scans \in Seq(BenchRequest) /\ Len(scans) = n
      /\ dels \in Seq(BenchRequest) /\ Len(dels) = n
  BY <1>2, <1>3, FunSeq
<1>5. quit \in Seq(BenchRequest) /\ Len(quit) = 1 /\ quit[1] = <<"QUIT">>
  BY DEF BenchRequest
<1>6. /\ \A i \in 1 .. n : pings[i] = <<"PING">>
      /\ \A i \in 1 .. n : puts[i] = <<"PUT", keys[i], BenchValue>>
      /\ \A i \in 1 .. n : gets[i] = <<"GET", keys[i]>>
      /\ \A i \in 1 .. n : scans[i] = <<"SCAN", keys[1], keys[n]>>
      /\ \A i \in 1 .. n : dels[i] = <<"DEL", keys[i]>>
  BY <1>2
<1>7. Script(c) = pings \o puts \o gets \o scans \o dels \o quit
  BY DEF Script
<1> HIDE DEF n, pings, puts, gets, scans, dels, quit
<1> DEFINE two == pings \o puts
<1>8. /\ two \in Seq(BenchRequest) /\ Len(two) = 2 * n
      /\ \A i \in 1 .. n : two[i] = pings[i]
      /\ \A i \in n + 1 .. 2 * n : two[i] = puts[i - n]
  <2>1. n + n = 2 * n
    BY <1>2
  <2>2. pings \in Seq(BenchRequest) /\ puts \in Seq(BenchRequest)
    BY <1>4
  <2>3. Len(pings) = n /\ Len(puts) = n
    BY <1>4
  <2>4. /\ two \in Seq(BenchRequest) /\ Len(two) = Len(pings) + Len(puts)
        /\ \A i \in 1 .. Len(pings) : two[i] = pings[i]
        /\ \A i \in Len(pings) + 1 .. Len(pings) + Len(puts) : two[i] = puts[i - Len(pings)]
    BY <2>2, ConcatAt
  <2> HIDE DEF two
  <2> QED
    BY <2>1, <2>3, <2>4
<1> HIDE DEF two
<1> DEFINE three == two \o gets
<1>9. /\ three \in Seq(BenchRequest) /\ Len(three) = 3 * n
      /\ \A i \in 1 .. 2 * n : three[i] = two[i]
      /\ \A i \in 2 * n + 1 .. 3 * n : three[i] = gets[i - 2 * n]
  <2>1. 2 * n + n = 3 * n
    BY <1>2
  <2>2. two \in Seq(BenchRequest) /\ gets \in Seq(BenchRequest)
    BY <1>4, <1>8
  <2>3. Len(two) = 2 * n /\ Len(gets) = n
    BY <1>4, <1>8
  <2>4. /\ three \in Seq(BenchRequest) /\ Len(three) = Len(two) + Len(gets)
        /\ \A i \in 1 .. Len(two) : three[i] = two[i]
        /\ \A i \in Len(two) + 1 .. Len(two) + Len(gets) : three[i] = gets[i - Len(two)]
    BY <2>2, ConcatAt
  <2> HIDE DEF three
  <2> QED
    BY <2>1, <2>3, <2>4
<1> HIDE DEF three
<1> DEFINE four == three \o scans
<1>10. /\ four \in Seq(BenchRequest) /\ Len(four) = 4 * n
       /\ \A i \in 1 .. 3 * n : four[i] = three[i]
       /\ \A i \in 3 * n + 1 .. 4 * n : four[i] = scans[i - 3 * n]
  <2>1. 3 * n + n = 4 * n
    BY <1>2
  <2>2. three \in Seq(BenchRequest) /\ scans \in Seq(BenchRequest)
    BY <1>4, <1>9
  <2>3. Len(three) = 3 * n /\ Len(scans) = n
    BY <1>4, <1>9
  <2>4. /\ four \in Seq(BenchRequest) /\ Len(four) = Len(three) + Len(scans)
        /\ \A i \in 1 .. Len(three) : four[i] = three[i]
        /\ \A i \in Len(three) + 1 .. Len(three) + Len(scans) : four[i] = scans[i - Len(three)]
    BY <2>2, ConcatAt
  <2> HIDE DEF four
  <2> QED
    BY <2>1, <2>3, <2>4
<1> HIDE DEF four
<1> DEFINE five == four \o dels
<1>11. /\ five \in Seq(BenchRequest) /\ Len(five) = 5 * n
       /\ \A i \in 1 .. 4 * n : five[i] = four[i]
       /\ \A i \in 4 * n + 1 .. 5 * n : five[i] = dels[i - 4 * n]
  <2>1. 4 * n + n = 5 * n
    BY <1>2
  <2>2. four \in Seq(BenchRequest) /\ dels \in Seq(BenchRequest)
    BY <1>4, <1>10
  <2>3. Len(four) = 4 * n /\ Len(dels) = n
    BY <1>4, <1>10
  <2>4. /\ five \in Seq(BenchRequest) /\ Len(five) = Len(four) + Len(dels)
        /\ \A i \in 1 .. Len(four) : five[i] = four[i]
        /\ \A i \in Len(four) + 1 .. Len(four) + Len(dels) : five[i] = dels[i - Len(four)]
    BY <2>2, ConcatAt
  <2> HIDE DEF five
  <2> QED
    BY <2>1, <2>3, <2>4
<1> HIDE DEF five
<1>12. /\ Script(c) \in Seq(BenchRequest) /\ Len(Script(c)) = 5 * n + 1
       /\ \A i \in 1 .. 5 * n : Script(c)[i] = five[i]
       /\ Script(c)[5 * n + 1] = quit[1]
  <2>1. 5 * n \in Nat /\ 5 * n + 1 \in 5 * n + 1 .. 5 * n + 1 /\ (5 * n + 1) - 5 * n = 1
    BY <1>2
  <2>2. Script(c) = five \o quit
    BY <1>7 DEF five, four, three, two
  <2>3. /\ five \o quit \in Seq(BenchRequest) /\ Len(five \o quit) = Len(five) + Len(quit)
        /\ \A i \in 1 .. Len(five) : (five \o quit)[i] = five[i]
        /\ \A i \in Len(five) + 1 .. Len(five) + Len(quit) :
             (five \o quit)[i] = quit[i - Len(five)]
    <3>1. five \in Seq(BenchRequest) /\ quit \in Seq(BenchRequest)
      BY <1>5, <1>11
    <3> QED
      BY <3>1, ConcatAt
  <2>4. Len(five) = 5 * n /\ Len(quit) = 1
    BY <1>5, <1>11
  <2> QED
    BY <2>1, <2>2, <2>3, <2>4
<1>13. /\ \A i \in 1 .. n : Script(c)[i] = pings[i]
       /\ \A i \in n + 1 .. 2 * n : Script(c)[i] = puts[i - n]
  <2>1. \A i \in 1 .. 2 * n : i \in 1 .. 3 * n /\ i \in 1 .. 4 * n /\ i \in 1 .. 5 * n
    BY <1>2
  <2>2. \A i \in 1 .. 2 * n : Script(c)[i] = two[i]
    <3>1. \A i \in 1 .. 2 * n : Script(c)[i] = five[i]
      BY <2>1, <1>12, Zenon
    <3>2. \A i \in 1 .. 2 * n : five[i] = four[i]
      BY <2>1, <1>11, Zenon
    <3>3. \A i \in 1 .. 2 * n : four[i] = three[i]
      BY <2>1, <1>10, Zenon
    <3>4. \A i \in 1 .. 2 * n : three[i] = two[i]
      BY <1>9, Zenon
    <3> QED
      BY <3>1, <3>2, <3>3, <3>4, Zenon
  <2>3. /\ \A i \in 1 .. n : i \in 1 .. 2 * n
        /\ \A i \in n + 1 .. 2 * n : i \in 1 .. 2 * n
    BY <1>2
  <2> QED
    BY <1>8, <2>2, <2>3
<1>14. \A i \in 2 * n + 1 .. 3 * n : Script(c)[i] = gets[i - 2 * n]
  <2>1. \A i \in 2 * n + 1 .. 3 * n : i \in 1 .. 3 * n /\ i \in 1 .. 4 * n /\ i \in 1 .. 5 * n
    BY <1>2
  <2> QED
    BY <2>1, <1>9, <1>10, <1>11, <1>12
<1>15. /\ \A i \in 3 * n + 1 .. 4 * n : Script(c)[i] = scans[i - 3 * n]
       /\ \A i \in 4 * n + 1 .. 5 * n : Script(c)[i] = dels[i - 4 * n]
  <2>1. \A i \in 3 * n + 1 .. 4 * n : i \in 1 .. 4 * n /\ i \in 1 .. 5 * n
    BY <1>2
  <2>2. \A i \in 4 * n + 1 .. 5 * n : i \in 1 .. 5 * n
    BY <1>2
  <2> QED
    BY <2>1, <2>2, <1>10, <1>11, <1>12
<1>16. Script(c)[5 * n + 1] = <<"QUIT">>
  BY <1>5, <1>12
<1>17. /\ \A i \in n + 1 .. 2 * n : i - n \in 1 .. n
       /\ \A i \in 2 * n + 1 .. 3 * n : i - 2 * n \in 1 .. n
       /\ \A i \in 3 * n + 1 .. 4 * n : i - 3 * n \in 1 .. n
       /\ \A i \in 4 * n + 1 .. 5 * n : i - 4 * n \in 1 .. n
  BY <1>2
<1> QED
  BY <1>2, <1>6, <1>12, <1>13, <1>14, <1>15, <1>16, <1>17, ZenonT(40) DEF n

\* The first words of the phases.
LEMMA ScriptHeads ==
  ASSUME NEW c \in Client, Kind[c] = "bench", NEW i \in 1 .. Len(Script(c))
  PROVE  LET n == Len(Keys[c]) IN
         /\ i \in 1 .. 5 * n + 1 /\ n \in Nat \ {0}
         /\ i <= n => Script(c)[i] = <<"PING">> /\ Head(Script(c)[i]) = "PING"
         /\ n < i /\ i <= 2 * n =>
              /\ i - n \in 1 .. n /\ Script(c)[i] = <<"PUT", Keys[c][i - n], BenchValue>>
              /\ Head(Script(c)[i]) = "PUT"
         /\ 2 * n < i /\ i <= 3 * n =>
              /\ i - 2 * n \in 1 .. n /\ Script(c)[i] = <<"GET", Keys[c][i - 2 * n]>>
              /\ Head(Script(c)[i]) = "GET"
         /\ 3 * n < i /\ i <= 4 * n =>
              Script(c)[i] = <<"SCAN", Keys[c][1], Keys[c][n]>> /\ Head(Script(c)[i]) = "SCAN"
         /\ 4 * n < i /\ i <= 5 * n =>
              /\ i - 4 * n \in 1 .. n /\ Script(c)[i] = <<"DEL", Keys[c][i - 4 * n]>>
              /\ Head(Script(c)[i]) = "DEL"
         /\ 5 * n < i => Script(c)[i] = <<"QUIT">> /\ Head(Script(c)[i]) = "QUIT"
<1> DEFINE n == Len(Keys[c])
<1>1. n \in Nat \ {0} /\ i \in 1 .. 5 * n + 1
  BY ScriptPhases
<1>2. CASE i <= n
  BY <1>1, <1>2, ScriptPhases
<1>3. CASE n < i /\ i <= 2 * n
  BY <1>1, <1>3, ScriptPhases, SMTT(30)
<1>4. CASE 2 * n < i /\ i <= 3 * n
  BY <1>1, <1>4, ScriptPhases, SMTT(30)
<1>5. CASE 3 * n < i /\ i <= 4 * n
  BY <1>1, <1>5, ScriptPhases
<1>6. CASE 4 * n < i /\ i <= 5 * n
  BY <1>1, <1>6, ScriptPhases, SMTT(30)
<1>7. CASE 5 * n < i
  BY <1>1, <1>7, ScriptPhases, SMTT(30)
<1> HIDE DEF n
<1>8. i <= n \/ (n < i /\ i <= 2 * n) \/ (2 * n < i /\ i <= 3 * n) \/ (3 * n < i /\ i <= 4 * n)
        \/ (4 * n < i /\ i <= 5 * n) \/ 5 * n < i
  BY <1>1
<1> QED
  BY <1>2, <1>3, <1>4, <1>5, <1>6, <1>7, <1>8

\* A phase is one piece of the script.
LEMMA PhaseContiguous ==
  ASSUME NEW c \in Client, Kind[c] = "bench",
         NEW i \in 1 .. Len(Script(c)), NEW j \in 1 .. Len(Script(c)), NEW k \in 1 .. Len(Script(c)),
         i <= j, j <= k, Head(Script(c)[i]) = Head(Script(c)[k])
  PROVE  Head(Script(c)[j]) = Head(Script(c)[i])
<1> DEFINE n == Len(Keys[c])
           H(m) == Head(Script(c)[m])
<1>1. n \in Nat \ {0} /\ i \in 1 .. 5 * n + 1 /\ j \in 1 .. 5 * n + 1 /\ k \in 1 .. 5 * n + 1
  BY ScriptHeads
<1>2. ASSUME NEW m \in {i, j, k}
      PROVE  /\ m <= n => H(m) = "PING"
             /\ n < m /\ m <= 2 * n => H(m) = "PUT"
             /\ 2 * n < m /\ m <= 3 * n => H(m) = "GET"
             /\ 3 * n < m /\ m <= 4 * n => H(m) = "SCAN"
             /\ 4 * n < m /\ m <= 5 * n => H(m) = "DEL"
             /\ 5 * n < m => H(m) = "QUIT"
  BY ScriptHeads
<1>3. H(i) = H(k) /\ i <= j /\ j <= k
  OBVIOUS
<1> HIDE DEF n, H
<1>4. CASE i <= n
  <2>1. H(k) = "PING"
    BY <1>2, <1>3, <1>4
  <2>2. k <= n
    BY <1>1, <1>2, <2>1
  <2> QED
    BY <1>1, <1>2, <1>3, <1>4, <2>2 DEF H
<1>5. CASE n < i /\ i <= 2 * n
  <2>1. H(k) = "PUT"
    BY <1>2, <1>3, <1>5
  <2>2. k <= 2 * n
    BY <1>1, <1>2, <2>1
  <2> QED
    BY <1>1, <1>2, <1>3, <1>5, <2>2 DEF H
<1>6. CASE 2 * n < i /\ i <= 3 * n
  <2>1. H(k) = "GET"
    BY <1>2, <1>3, <1>6
  <2>2. k <= 3 * n
    BY <1>1, <1>2, <2>1
  <2> QED
    BY <1>1, <1>2, <1>3, <1>6, <2>2 DEF H
<1>7. CASE 3 * n < i /\ i <= 4 * n
  <2>1. H(k) = "SCAN"
    BY <1>2, <1>3, <1>7
  <2>2. k <= 4 * n
    BY <1>1, <1>2, <2>1
  <2> QED
    BY <1>1, <1>2, <1>3, <1>7, <2>2 DEF H
<1>8. CASE 4 * n < i /\ i <= 5 * n
  <2>1. H(k) = "DEL"
    BY <1>2, <1>3, <1>8
  <2>2. k <= 5 * n
    BY <1>1, <1>2, <2>1
  <2> QED
    BY <1>1, <1>2, <1>3, <1>8, <2>2 DEF H
<1>9. CASE 5 * n < i
  <2>1. 5 * n < j
    BY <1>1, <1>3, <1>9
  <2> QED
    BY <1>2, <1>9, <2>1 DEF H
<1> QED
  BY <1>1, <1>4, <1>5, <1>6, <1>7, <1>8, <1>9

\* A batch is the next piece of the script, of one phase (run_phase).
LEMMA NextBatchIn ==
  ASSUME NEW c \in Client, Kind[c] = "bench", NEW s \in Nat, NEW batch \in NextBatch(c, s)
  PROVE  /\ batch \in Seq(Range(Script(c))) /\ Len(batch) \in Nat \ {0}
         /\ s + Len(batch) <= Len(Script(c))
         /\ \A i \in 1 .. Len(batch) : batch[i] = Script(c)[s + i]
         /\ \A i, j \in 1 .. Len(batch) : Head(batch[i]) = Head(batch[j])
<1> DEFINE script == Script(c)
<1>1. script \in Seq(BenchRequest) /\ Len(script) \in Nat
  BY ScriptPhases, LenProperties
<1>2. PICK last \in s + 1 .. s + Depth :
        /\ batch = SubSeq(script, s + 1, last)
        /\ last <= Len(script) /\ Head(script[last]) = Head(script[s + 1])
  BY DEF NextBatch
<1>3. last \in Nat /\ s + 1 <= last /\ s + 1 \in 1 .. Len(script) /\ last \in 1 .. Len(script)
  BY <1>1, <1>2, SessionsAssumption
<1>4. DOMAIN script = 1 .. Len(script) /\ \A i \in 1 .. Len(script) : script[i] \in Range(script)
  BY <1>1, LenProperties DEF Range
<1> HIDE DEF script
<1>5. \A i \in s + 1 .. last : i \in 1 .. Len(script) /\ script[i] \in Range(script)
  BY <1>1, <1>3, <1>4
<1>6. /\ batch \in Seq(Range(script)) /\ Len(batch) = last - s
      /\ \A i \in 1 .. last - s : batch[i] = script[s + i]
  <2>1. /\ batch \in Seq(Range(script))
        /\ Len(batch) = IF s + 1 <= last THEN last - (s + 1) + 1 ELSE 0
        /\ \A i \in 1 .. last - (s + 1) + 1 : batch[i] = script[(s + 1) + i - 1]
    BY <1>2, <1>3, <1>5, SubSeqProperties
  <2> QED
    BY <1>3, <2>1
<1>7. ASSUME NEW i \in 1 .. last - s
      PROVE  Head(batch[i]) = Head(script[s + 1])
  <2>1. s + i \in 1 .. Len(script) /\ s + 1 <= s + i /\ s + i <= last
    BY <1>1, <1>3
  <2>2. Head(script[s + i]) = Head(script[s + 1])
    BY <1>2, <1>3, <2>1, PhaseContiguous DEF script
  <2> QED
    BY <1>6, <2>2
<1> QED
  BY <1>1, <1>3, <1>6, <1>7 DEF script

-----------------------------------------------------------------------------
(* Requests.                                                                *)

\* Which requests of the benchmark are which commands.
LEMMA BenchCommands ==
  ASSUME NEW request \in BenchRequest, BenchValue \in Value
  PROVE  /\ WellFormed(request)
         /\ Command(request) = Head(request)
         /\ \A c \in Client : (IsWrite(request) => Owner[request[2]] = c) => Proper(c, request)
         /\ IsWrite(request) <=> Head(request) \in {"PUT", "DEL"}
         /\ IsWrite(request) => Entry(request)[1] = request[2] /\ request[2] \in Key
         /\ Head(request) = "PUT" => Entry(request)[2] = BenchValue
         /\ Head(request) = "DEL" => Entry(request)[2] = Absent
         /\ ~ Is(request, "CHECKPOINT")
<1>1. CASE request = <<"PING">>
  BY <1>1 DEF WellFormed, Command, Upper, Arity, IsWrite, Is, Entry, Proper
<1>2. CASE request = <<"QUIT">>
  BY <1>2 DEF WellFormed, Command, Upper, Arity, IsWrite, Is, Entry, Proper
<1>3. CASE \E k \in Key : request = <<"PUT", k, BenchValue>>
  BY <1>3, CommandAssumption DEF WellFormed, Command, Upper, Arity, IsWrite, Is, Entry, Proper
<1>4. CASE \E k \in Key : request = <<"GET", k>>
  BY <1>4 DEF WellFormed, Command, Upper, Arity, IsWrite, Is, Entry, Proper
<1>5. CASE \E k \in Key : request = <<"DEL", k>>
  BY <1>5 DEF WellFormed, Command, Upper, Arity, IsWrite, Is, Entry, Proper
<1>6. CASE \E l, h \in Key : request = <<"SCAN", l, h>>
  BY <1>6 DEF WellFormed, Command, Upper, Arity, IsWrite, Is, Entry, Proper
<1> QED
  BY <1>1, <1>2, <1>3, <1>4, <1>5, <1>6 DEF BenchRequest

LEMMA BenchHasValue ==
  ASSUME NEW c \in Client, Kind[c] = "bench"
  PROVE  BenchValue \in Value /\ BenchValue \notin TwoLines
BY SessionsAssumption DEF BenchValue

\* The requests of the script are those of the benchmark.
LEMMA ScriptRequest ==
  ASSUME NEW c \in Client, Kind[c] = "bench", NEW i \in 1 .. Len(Script(c))
  PROVE  /\ Script(c)[i] \in BenchRequest /\ BenchValue \in Value
         /\ Script(c)[i] \in Sendable(c)
<1>1. Script(c) \in Seq(BenchRequest)
  BY ScriptPhases
<1>2. Script(c)[i] \in BenchRequest /\ Script(c)[i] \in Range(Script(c))
  BY <1>1, LenProperties DEF Range
<1> QED
  BY <1>2, BenchHasValue DEF Sendable

\* What a request of the script writes, it writes to a key of its client.
LEMMA ScriptWrites ==
  ASSUME NEW c \in Client, Kind[c] = "bench", NEW i \in 1 .. Len(Script(c)), IsWrite(Script(c)[i])
  PROVE  LET n == Len(Keys[c]) IN
         /\ Entry(Script(c)[i])[2] \in {Absent, BenchValue}
         /\ \/ /\ Head(Script(c)[i]) = "PUT" /\ i - n \in 1 .. n
               /\ Entry(Script(c)[i]) = <<Keys[c][i - n], BenchValue>>
            \/ /\ Head(Script(c)[i]) = "DEL" /\ i - 4 * n \in 1 .. n
               /\ Entry(Script(c)[i]) = <<Keys[c][i - 4 * n], Absent>>
         /\ Owner[Script(c)[i][2]] = c
<1> DEFINE n == Len(Keys[c])
           request == Script(c)[i]
<1>1. request \in BenchRequest /\ BenchValue \in Value
  BY ScriptRequest
<1>2. n \in Nat \ {0} /\ i \in 1 .. 5 * n + 1
  BY ScriptHeads
<1>3. Head(request) \in {"PUT", "DEL"}
  BY <1>1, BenchCommands
<1>4. DOMAIN Keys[c] = 1 .. n
  BY SessionsAssumption, LenProperties
<1> SUFFICES /\ Entry(request)[2] \in {Absent, BenchValue}
             /\ \/ /\ Head(request) = "PUT" /\ i - n \in 1 .. n
                   /\ Entry(request) = <<Keys[c][i - n], BenchValue>>
                \/ /\ Head(request) = "DEL" /\ i - 4 * n \in 1 .. n
                   /\ Entry(request) = <<Keys[c][i - 4 * n], Absent>>
             /\ Owner[request[2]] = c
  OBVIOUS
<1>5. CASE Head(request) = "PUT"
  <2>1. n < i /\ i <= 2 * n
    BY <1>2, <1>5, ScriptHeads, SMTT(30)
  <2>2. i - n \in 1 .. n /\ request = <<"PUT", Keys[c][i - n], BenchValue>>
    BY <2>1, ScriptHeads
  <2>3. Entry(request) = <<Keys[c][i - n], BenchValue>>
    BY <1>1, <1>5, <2>2, BenchCommands DEF Entry
  <2>4. Owner[request[2]] = c
    BY <1>4, <2>2, UsersAssumption
  <2>5. Entry(request)[2] = BenchValue
    BY <2>3
  <2> HIDE DEF request, n
  <2> QED
    BY <1>5, <2>2, <2>3, <2>4, <2>5
<1>6. CASE Head(request) = "DEL"
  <2>1. 4 * n < i /\ i <= 5 * n
    <3>1. ~ (i <= n) /\ ~ (n < i /\ i <= 2 * n) /\ ~ (2 * n < i /\ i <= 3 * n)
          /\ ~ (3 * n < i /\ i <= 4 * n) /\ ~ (5 * n < i)
      BY <1>6, ScriptHeads
    <3> HIDE DEF n
    <3> QED
      BY <1>2, <3>1
  <2>2. i - 4 * n \in 1 .. n /\ request = <<"DEL", Keys[c][i - 4 * n]>>
    BY <2>1, ScriptHeads
  <2>3. Entry(request) = <<Keys[c][i - 4 * n], Absent>>
    BY <1>1, <1>6, <2>2, BenchCommands DEF Entry
  <2>4. Owner[request[2]] = c
    BY <1>4, <2>2, UsersAssumption
  <2>5. Entry(request)[2] = Absent
    BY <2>3
  <2> HIDE DEF request, n
  <2> QED
    BY <1>6, <2>2, <2>3, <2>4, <2>5
<1> QED
  BY <1>3, <1>5, <1>6

\* No phase writes a key twice.
LEMMA WritesDiffer ==
  ASSUME NEW c \in Client, Kind[c] = "bench",
         NEW i \in 1 .. Len(Script(c)), NEW j \in 1 .. Len(Script(c)),
         IsWrite(Script(c)[i]), IsWrite(Script(c)[j]), Head(Script(c)[i]) = Head(Script(c)[j]),
         Entry(Script(c)[i])[1] = Entry(Script(c)[j])[1]
  PROVE  i = j
<1> DEFINE n == Len(Keys[c])
<1>1. n \in Nat \ {0} /\ i \in 1 .. 5 * n + 1 /\ j \in 1 .. 5 * n + 1
  BY ScriptHeads
<1>2. \A a, b \in 1 .. n : Keys[c][a] = Keys[c][b] => a = b
  <2>1. DOMAIN Keys[c] = 1 .. n
    BY SessionsAssumption, LenProperties
  <2> QED
    BY <2>1, SessionsAssumption
<1>3. CASE Head(Script(c)[i]) = "PUT"
  <2>1. i - n \in 1 .. n /\ j - n \in 1 .. n /\ Keys[c][i - n] = Keys[c][j - n]
    BY <1>3, ScriptWrites
  <2>2. i - n = j - n
    BY <1>2, <2>1
  <2> QED
    BY <1>1, <2>2
<1>4. CASE Head(Script(c)[i]) = "DEL"
  <2>1. i - 4 * n \in 1 .. n /\ j - 4 * n \in 1 .. n /\ Keys[c][i - 4 * n] = Keys[c][j - 4 * n]
    BY <1>4, ScriptWrites
  <2>2. i - 4 * n = j - 4 * n
    BY <1>2, <2>1
  <2> HIDE DEF n
  <2> QED
    BY <1>1, <2>2
<1> QED
  BY <1>3, <1>4, ScriptWrites

\* Requests have arguments of their types, and write keys of their clients.
LEMMA SentIsProper ==
  ASSUME NEW c \in Client, NEW request \in Sendable(c), request # Junk
  PROVE  /\ Proper(c, request)
         /\ IsWrite(request) => /\ Entry(request) \in Key \X Held
                                /\ Owner[Entry(request)[1]] = c
                                /\ Entry(request)[2] \in MayHold(Entry(request)[1])
<1>1. Proper(c, request)
  <2>1. CASE Kind[c] = "bench"
    <3>1. Script(c) \in Seq(BenchRequest)
      BY <2>1, ScriptPhases
    <3>2. PICK i \in 1 .. Len(Script(c)) : request = Script(c)[i]
      BY <2>1, <3>1, LenProperties DEF Sendable, Range
    <3>3. request \in BenchRequest /\ BenchValue \in Value
      BY <2>1, <3>2, ScriptRequest
    <3>4. IsWrite(request) => Owner[request[2]] = c
      BY <2>1, <3>2, ScriptWrites
    <3> QED
      BY <3>3, <3>4, BenchCommands
  <2>2. CASE Kind[c] # "bench"
    <3>1. PICK batch \in Typed[c] : request \in Range(batch)
      BY <2>2 DEF Sendable
    <3> QED
      BY <2>2, <3>1, UsersAssumption
  <2> QED
    BY <2>1, <2>2
<1>2. ASSUME IsWrite(request)
      PROVE  /\ Entry(request) \in Key \X Held
             /\ Owner[Entry(request)[1]] = c
  <2>1. request[2] \in Key /\ Owner[request[2]] = c
    BY <1>1, <1>2 DEF IsWrite, Proper
  <2>2. Is(request, "PUT") => request[3] \in Value
    BY <1>1 DEF Proper
  <2> QED
    BY <2>1, <2>2 DEF Entry, Held
<1>3. ASSUME IsWrite(request), Kind[c] = "bench"
      PROVE  Entry(request)[2] \in {Absent, BenchValue}
  <2>1. Script(c) \in Seq(BenchRequest)
    BY <1>3, ScriptPhases
  <2>2. PICK i \in 1 .. Len(Script(c)) : request = Script(c)[i]
    BY <1>3, <2>1, LenProperties DEF Sendable, Range
  <2> QED
    BY <1>3, <2>2, ScriptWrites
<1> QED
  BY <1>1, <1>2, <1>3 DEF MayHold

-----------------------------------------------------------------------------
(* Answers.                                                                 *)

LEMMA AnswerIn ==
  ASSUME NEW first \in Text, NEW n \in Nat
  PROVE  /\ Answer(first, n) \in Seq(Text) /\ Len(Answer(first, n)) = n + 1
         /\ Answer(first, n)[1] = first
<1> DEFINE rest == [i \in 1 .. n |-> <<"rest">>]
<1>1. rest \in Seq(Text) /\ Len(rest) = n
  <2>1. <<"rest">> \in Text
    BY DEF Text, Word
  <2>2. rest \in [1 .. n -> Text]
    BY <2>1
  <2> QED
    BY <2>2, FunSeq
<1>2. <<first>> \in Seq(Text) /\ Len(<<first>>) = 1 /\ <<first>>[1] = first
  OBVIOUS
<1>3. Answer(first, n) = <<first>> \o rest
  BY DEF Answer
<1> HIDE DEF rest
<1>4. /\ <<first>> \o rest \in Seq(Text) /\ Len(<<first>> \o rest) = 1 + n
      /\ \A i \in 1 .. 1 : (<<first>> \o rest)[i] = <<first>>[i]
  BY <1>1, <1>2, ConcatAt
<1> QED
  BY <1>2, <1>3, <1>4

LEMMA PlainIn ==
  ASSUME NEW word \in Word
  PROVE  /\ Plain(word) \in Seq(Text) /\ Len(Plain(word)) = 1
         /\ Plain(word)[1] = <<word>>
<1>1. <<word>> \in Text
  BY DEF Text
<1> DEFINE first == <<word>>
<1> HIDE DEF first
<1>2. first \in Text /\ 0 \in Nat
  BY <1>1 DEF first
<1>3. /\ Answer(first, 0) \in Seq(Text) /\ Len(Answer(first, 0)) = 0 + 1
      /\ Answer(first, 0)[1] = first
  BY <1>2, AnswerIn
<1> QED
  BY <1>3 DEF Plain, first

LEMMA FoundIn ==
  ASSUME NEW key \in Key, visible \in [Key -> Held]
  PROVE  /\ Found(key) \in Seq(Text) /\ Len(Found(key)) \in Nat \ {0}
         /\ Shown(Found(key)[1]) = visible[key]
         /\ visible[key] # Absent => Found(key)[1][1] = "VALUE"
         /\ visible[key] \notin TwoLines => Len(Found(key)) = 1
<1>1. CASE visible[key] = Absent
  <2>1. Found(key) = Plain("NOT_FOUND") /\ "NOT_FOUND" \in Word
    BY <1>1 DEF Found, Word
  <2>2. Found(key) \in Seq(Text) /\ Len(Found(key)) = 1 /\ Found(key)[1] = <<"NOT_FOUND">>
    BY <2>1, PlainIn
  <2> QED
    BY <1>1, <2>2 DEF Shown
<1>2. CASE visible[key] # Absent
  <2> DEFINE v == visible[key]
             n == IF v \in TwoLines THEN 1 ELSE 0
  <2>1. Found(key) = Answer(<<"VALUE", v>>, n) /\ n \in Nat
    BY <1>2 DEF Found
  <2>2. <<"VALUE", v>> \in Text
    BY <1>2 DEF Text, Held
  <2>3. /\ Found(key) \in Seq(Text) /\ Len(Found(key)) = n + 1
        /\ Found(key)[1] = <<"VALUE", v>>
    BY <2>1, <2>2, AnswerIn
  <2>4. Shown(<<"VALUE", v>>) = v /\ <<"VALUE", v>>[1] = "VALUE"
    BY DEF Shown
  <2>5. n + 1 \in Nat \ {0} /\ (v \notin TwoLines => n + 1 = 1)
    OBVIOUS
  <2> HIDE DEF n
  <2> QED
    BY <1>2, <2>3, <2>4, <2>5
<1> QED
  BY <1>1, <1>2

LEMMA ListedIn ==
  ASSUME NEW low \in Key, NEW high \in Key, visible \in [Key -> Held]
  PROVE  /\ Listed(low, high) \in Seq(Text) /\ Len(Listed(low, high)) \in Nat \ {0}
         /\ Listed(low, high)[1][1] = "RESULT"
         /\ (\A k \in Key : low <= k /\ k <= high => visible[k] \notin TwoLines)
              => Len(Listed(low, high)) = 1
<1> DEFINE found == {k \in Key : low <= k /\ k <= high /\ visible[k] # Absent}
           long  == {k \in found : visible[k] \in TwoLines}
           first == <<"RESULT", [k \in found |-> visible[k]]>>
<1>1. low \in Int /\ high \in Int /\ Key \subseteq Int
  BY CommandAssumption
<1>2. long \subseteq low .. high
  <2>1. ASSUME NEW k \in long
        PROVE  k \in Int /\ low <= k /\ k <= high
    BY <1>1
  <2> HIDE DEF long
  <2> QED
    BY <1>1, <2>1
<1>3. IsFiniteSet(low .. high)
  BY <1>1, FS_Interval
<1>4. IsFiniteSet(long)
  BY <1>2, <1>3, FS_Subset
<1>5. Cardinality(long) \in Nat /\ (Cardinality(long) = 0 <=> long = {})
  BY <1>4, FS_CardinalityType, FS_EmptySet
<1>6. first \in Text
  <2>1. [k \in found |-> visible[k]] \in [found -> Value]
    BY DEF Held
  <2>2. found \in SUBSET Key
    OBVIOUS
  <2>3. [k \in found |-> visible[k]] \in UNION {[S -> Value] : S \in SUBSET Key}
    BY <2>1, <2>2
  <2> HIDE DEF found
  <2> QED
    BY <2>3 DEF Text
<1>7. Listed(low, high) = Answer(first, Cardinality(long))
  BY DEF Listed
<1>8. first[1] = "RESULT"
  OBVIOUS
<1>9. (\A k \in Key : low <= k /\ k <= high => visible[k] \notin TwoLines) => long = {}
  OBVIOUS
<1> HIDE DEF first, long
<1>10. /\ Listed(low, high) \in Seq(Text) /\ Len(Listed(low, high)) = Cardinality(long) + 1
       /\ Listed(low, high)[1] = first
  BY <1>5, <1>6, <1>7, AnswerIn
<1> QED
  BY <1>5, <1>8, <1>9, <1>10

\* What is answered at once is lines, at least one.
LEMMA ReplyIn ==
  ASSUME NEW c \in Client, NEW request \in Sendable(c), request # Junk,
         visible \in [Key -> Held], NEW answer \in Reply(request)
  PROVE  answer \in Seq(Text) /\ Len(answer) \in Nat \ {0} /\ ~ IsWrite(request)
<1> DEFINE OneLine(word) == Plain(word) \in Seq(Text) /\ Len(Plain(word)) \in Nat \ {0}
<1>0. /\ OneLine("ERROR usage") /\ OneLine("ERROR unknown") /\ OneLine("PONG") /\ OneLine("BYE")
      /\ OneLine("ERROR unavailable") /\ OneLine("ERROR failed") /\ OneLine("OK CHECKPOINT")
      /\ OneLine("ERROR empty")
  <2>1. {"ERROR usage", "ERROR unknown", "PONG", "BYE", "ERROR unavailable", "ERROR failed",
         "OK CHECKPOINT", "ERROR empty"} \subseteq Word
    BY DEF Word
  <2>2. \A word \in Word : OneLine(word)
    BY PlainIn
  <2> HIDE DEF OneLine
  <2> QED
    BY <2>1, <2>2
<1>1. Proper(c, request)
  BY SentIsProper
<1>2. CASE ~ WellFormed(request)
  <2>1. answer \in {Plain("ERROR empty"), Plain("ERROR usage"), Plain("ERROR unknown")}
    BY <1>2 DEF Reply, Ill, Is
  <2> QED
    BY <1>2, <2>1, <1>0 DEF IsWrite, Is
<1>3. CASE Is(request, "PING") \/ Is(request, "QUIT")
  <2>1. answer = Plain("PONG") \/ answer = Plain("BYE")
    BY <1>3 DEF Reply, Is
  <2> QED
    BY <1>3, <2>1, <1>0 DEF IsWrite, Is
<1>4. CASE Is(request, "GET")
  <2>1. answer = Found(request[2]) /\ request[2] \in Key
    BY <1>1, <1>4 DEF Reply, Is, Proper
  <2> QED
    BY <1>4, <2>1, FoundIn DEF IsWrite, Is
<1>5. CASE Is(request, "SCAN")
  <2>1. answer = Listed(request[2], request[3]) /\ request[2] \in Key /\ request[3] \in Key
    BY <1>1, <1>5 DEF Reply, Is, Proper
  <2> QED
    BY <1>5, <2>1, ListedIn DEF IsWrite, Is
<1>6. CASE Is(request, "CHECKPOINT")
  <2>1. \/ answer = Plain("ERROR unavailable") \/ answer = Plain("ERROR failed")
        \/ answer = Plain("OK CHECKPOINT")
    BY <1>6 DEF Reply, Is
  <2> QED
    BY <1>6, <2>1, <1>0 DEF IsWrite, Is
<1>7. CASE Is(request, "PUT") \/ Is(request, "DEL")
  BY <1>7 DEF Reply, Is
<1>8. WellFormed(request) => Command(request) \in {"PING", "QUIT", "GET", "SCAN", "CHECKPOINT", "PUT", "DEL"}
  BY DEF WellFormed, Arity
<1> QED
  BY <1>2, <1>3, <1>4, <1>5, <1>6, <1>7, <1>8 DEF Is

\* A GET is answered with what the index holds.
LEMMA GetReply ==
  ASSUME NEW k \in Key, visible \in [Key -> Held], NEW answer \in Reply(<<"GET", k>>)
  PROVE  Shown(answer[1]) = visible[k] /\ answer = Found(k)
<1>1. Is(<<"GET", k>>, "GET") /\ WellFormed(<<"GET", k>>)
  BY DEF Is, WellFormed, Command, Upper, Arity
<1>2. answer = Found(k)
  BY <1>1 DEF Reply, Is
<1> QED
  BY <1>2, FoundIn

\* The outcome of a write is one line.
LEMMA OutcomeIn ==
  ASSUME NEW w
  PROVE  /\ Outcome(w) \in Seq(Text) /\ Len(Outcome(w)) = 1
         /\ w[2] # Absent => Outcome(w)[1][1] \in {"OK PUT", "OK UPDATE"}
         /\ w[2] = Absent /\ visible[w[1]] # Absent => Outcome(w)[1][1] = "OK DELETE"
<1> USE DEF Word
<1>1. w[2] # Absent => Outcome(w) = Plain("OK PUT") \/ Outcome(w) = Plain("OK UPDATE")
  BY DEF Outcome
<1>2. w[2] = Absent => Outcome(w) = Plain("OK DELETE") \/ Outcome(w) = Plain("NOT_FOUND")
  BY DEF Outcome
<1>3. w[2] = Absent /\ visible[w[1]] # Absent => Outcome(w) = Plain("OK DELETE")
  BY DEF Outcome, WasThere
<1>4. ASSUME NEW word \in {"OK PUT", "OK UPDATE", "OK DELETE", "NOT_FOUND"}
      PROVE  Plain(word) \in Seq(Text) /\ Len(Plain(word)) = 1 /\ Plain(word)[1][1] = word
  <2>1. word \in Word
    OBVIOUS
  <2> HIDE DEF Word
  <2>2. Plain(word)[1] = <<word>> /\ Plain(word) \in Seq(Text) /\ Len(Plain(word)) = 1
    BY <2>1, PlainIn
  <2>3. <<word>>[1] = word
    OBVIOUS
  <2>4. Plain(word)[1][1] = word
    BY <2>2, <2>3, Zenon
  <2> QED
    BY <2>2, <2>4
<1> QED
  BY <1>1, <1>2, <1>3, <1>4

\* What a benchmark client is answered at once.
LEMMA BenchReply ==
  ASSUME NEW c \in Client, Kind[c] = "bench", NEW i \in 1 .. Len(Script(c)),
         visible \in [Key -> Held], \A k \in Key : visible[k] \in MayHold(k),
         LET n == Len(Keys[c])
         IN 2 * n < i /\ i <= 3 * n => visible[Keys[c][i - 2 * n]] # Absent,
         NEW answer \in Reply(Script(c)[i])
  PROVE  Len(answer) = 1 /\ answer[1][1] \in Expected(Script(c)[i])
<1> DEFINE n == Len(Keys[c])
           request == Script(c)[i]
<1>1. n \in Nat \ {0} /\ i \in 1 .. 5 * n + 1 /\ \A j \in 1 .. n : Keys[c][j] \in Key
  BY ScriptHeads, ScriptPhases
<1>2. request \in BenchRequest /\ BenchValue \in Value /\ BenchValue \notin TwoLines
  BY ScriptRequest, BenchHasValue
<1>3. WellFormed(request) /\ Command(request) = Head(request)
  BY <1>2, BenchCommands
<1>4. \A k \in Key : Owner[k] = c => visible[k] \in {Absent, BenchValue} /\ visible[k] \notin TwoLines
  <2>1. Absent \notin TwoLines
    BY CommandAssumption
  <2> QED
    BY <1>2, <2>1 DEF MayHold
<1>5. \A j \in 1 .. n : Owner[Keys[c][j]] = c
  <2>1. DOMAIN Keys[c] = 1 .. n
    BY SessionsAssumption, LenProperties
  <2> QED
    BY <2>1, UsersAssumption
<1>6. CASE i <= n
  <2>1. request = <<"PING">> /\ Head(request) = "PING"
    BY <1>6, ScriptHeads
  <2>2. Is(request, "PING")
    BY <1>3, <2>1 DEF Is
  <2>3. answer = Plain("PONG") /\ "PONG" \in Word
    BY <2>2 DEF Reply, Is, Word
  <2>4. Len(answer) = 1 /\ answer[1] = <<"PONG">>
    BY <2>3, PlainIn
  <2>5. Expected(request) = {"PONG"}
    BY <1>3, <2>1 DEF Expected
  <2> QED
    BY <2>4, <2>5
<1>7. CASE n < i /\ i <= 2 * n
  <2>1. Head(request) = "PUT"
    BY <1>7, ScriptHeads
  <2> QED
    BY <1>3, <2>1 DEF Reply, Is
<1>8. CASE 2 * n < i /\ i <= 3 * n
  <2> DEFINE key == Keys[c][i - 2 * n]
  <2>1. request = <<"GET", key>> /\ Head(request) = "GET" /\ i - 2 * n \in 1 .. n
    BY <1>8, ScriptHeads
  <2>2. key \in Key /\ Owner[key] = c /\ visible[key] # Absent
    BY <1>1, <1>5, <1>8, <2>1
  <2>3. answer = Found(key)
    BY <2>1, <2>2, GetReply
  <2>4. Len(answer) = 1 /\ answer[1][1] = "VALUE"
    BY <1>4, <2>2, <2>3, FoundIn
  <2>5. Expected(request) = {"VALUE"}
    BY <1>3, <2>1 DEF Expected
  <2> QED
    BY <2>4, <2>5
<1>9. CASE 3 * n < i /\ i <= 4 * n
  <2> DEFINE low == Keys[c][1]
             high == Keys[c][n]
  <2>1. request = <<"SCAN", low, high>> /\ Head(request) = "SCAN"
    BY <1>9, ScriptHeads
  <2>2. low \in Key /\ high \in Key
    BY <1>1
  <2>3. Is(request, "SCAN")
    BY <1>3, <2>1 DEF Is
  <2>4. answer = Listed(low, high)
    BY <2>1, <2>3 DEF Reply, Is
  <2>5. \A k \in Key : low <= k /\ k <= high => visible[k] \notin TwoLines
    BY <1>4, UsersAssumption
  <2>6. Len(answer) = 1 /\ answer[1][1] = "RESULT"
    BY <2>2, <2>4, <2>5, ListedIn
  <2>7. Expected(request) = {"RESULT"}
    BY <1>3, <2>1 DEF Expected
  <2> QED
    BY <2>6, <2>7
<1>10. CASE 4 * n < i /\ i <= 5 * n
  <2>1. Head(request) = "DEL"
    BY <1>10, ScriptHeads
  <2> QED
    BY <1>3, <2>1 DEF Reply, Is
<1>11. CASE 5 * n < i
  <2>1. request = <<"QUIT">> /\ Head(request) = "QUIT"
    BY <1>11, ScriptHeads
  <2>2. Is(request, "QUIT")
    BY <1>3, <2>1 DEF Is
  <2>3. answer = Plain("BYE") /\ "BYE" \in Word
    BY <2>2 DEF Reply, Is, Word
  <2>4. Len(answer) = 1 /\ answer[1] = <<"BYE">>
    BY <2>3, PlainIn
  <2>5. Expected(request) = {"BYE"}
    BY <1>3, <2>1 DEF Expected
  <2> QED
    BY <2>4, <2>5
<1> HIDE DEF n
<1> QED
  BY <1>1, <1>6, <1>7, <1>8, <1>9, <1>10, <1>11

\* What it is answered to a write.
LEMMA BenchOutcome ==
  ASSUME NEW c \in Client, Kind[c] = "bench", NEW i \in 1 .. Len(Script(c)),
         IsWrite(Script(c)[i]),
         LET n == Len(Keys[c])
         IN 4 * n < i /\ i <= 5 * n => visible[Keys[c][i - 4 * n]] # Absent
  PROVE  /\ Len(Outcome(Entry(Script(c)[i]))) = 1
         /\ Outcome(Entry(Script(c)[i]))[1][1] \in Expected(Script(c)[i])
<1> DEFINE n == Len(Keys[c])
           request == Script(c)[i]
           w == Entry(request)
<1>1. request \in BenchRequest /\ BenchValue \in Value
  BY ScriptRequest
<1>2. Command(request) = Head(request)
  BY <1>1, BenchCommands
<1>3. CASE Head(request) = "PUT"
  <2>1. w[2] = BenchValue /\ w[2] # Absent
    BY <1>1, <1>3, BenchCommands, CommandAssumption
  <2>2. Expected(request) = {"OK PUT", "OK UPDATE"}
    BY <1>2, <1>3 DEF Expected
  <2> QED
    BY <2>1, <2>2, OutcomeIn
<1>4. CASE Head(request) = "DEL"
  <2>1. w[2] = Absent /\ w[1] = Keys[c][i - 4 * n] /\ i - 4 * n \in 1 .. n
    BY <1>4, ScriptWrites
  <2>2. n \in Nat \ {0} /\ i \in 1 .. 5 * n + 1
    BY ScriptHeads
  <2>3. 4 * n < i /\ i <= 5 * n
    <3> HIDE DEF n
    <3> QED
      BY <2>1, <2>2
  <2>4. visible[w[1]] # Absent
    BY <2>1, <2>3
  <2>5. Expected(request) = {"OK DELETE"}
    BY <1>2, <1>4 DEF Expected
  <2> QED
    BY <2>1, <2>4, <2>5, OutcomeIn
<1> QED
  BY <1>3, <1>4, ScriptWrites

\* The lines of an answer.
LEMMA LinesIn ==
  ASSUME NEW n \in Nat, NEW answer \in Seq(Text)
  PROVE  /\ Lines(n, answer) \in Seq(Line) /\ Len(Lines(n, answer)) = Len(answer)
         /\ Len(answer) \in Nat
         /\ \A i \in 1 .. Len(answer) :
              Lines(n, answer)[i] = [of |-> n, first |-> i = 1, last |-> i = Len(answer),
                                     text |-> answer[i]]
<1>1. Len(answer) \in Nat /\ \A i \in 1 .. Len(answer) : answer[i] \in Text
  BY LenProperties
<1>2. Lines(n, answer) \in [1 .. Len(answer) -> Line]
  BY <1>1 DEF Lines, Line
<1>3. Lines(n, answer) \in Seq(Line) /\ Len(Lines(n, answer)) = Len(answer)
  BY <1>1, <1>2, FunSeq
<1> QED
  BY <1>1, <1>3 DEF Lines

-----------------------------------------------------------------------------
(* A step of one client leaves the others alone.                            *)

LEMMA OtherClient ==
  ASSUME Types, NEW c \in Client, ClientInv(c), client'[c] = client[c], link'[c] = link[c],
         inbox'[c] = inbox[c], outbox'[c] = outbox[c], running => running',
         \A k \in Key : Owner[k] = c => /\ owed[k] \subseteq owed'[k]
                                        /\ running => visible'[k] = visible[k]
  PROVE  ClientInv(c)'
<1>1. Connected(c)'
  BY DEF ClientInv, Connected
<1>2. \A request \in Sendable(c) : request # Junk /\ IsWrite(request) =>
        Entry(request)[1] \in Key /\ Owner[Entry(request)[1]] = c
  BY SentIsProper
<1>3. InOrder(c)'
  <2>1. ASSUME NEW i \in 1 .. Len(inbox[c])
        PROVE  LET request == inbox[c][i].request
               IN /\ request \in Sendable(c)
                  /\ request # Junk /\ IsWrite(request) =>
                       Entry(request)[2] \in owed'[Entry(request)[1]]
    BY <1>2 DEF ClientInv, InOrder
  <2> QED
    BY <2>1 DEF ClientInv, InOrder
<1>4. Matching(c) => Matching(c)'
  BY DEF Matching, Settled
<1>5. ASSUME Truthful(c)
      PROVE  Truthful(c)'
  <2>1. ASSUME link[c] \in {"open", "quitting"}, Kind[c] = "raw" => Len(client[c].asked) = 1,
               NEW i \in 1 .. Len(client[c].asked) - Len(inbox[c]),
               client[c].asked[i] # Junk, IsWrite(client[c].asked[i])
        PROVE  visible'[Entry(client[c].asked[i])[1]] = Entry(client[c].asked[i])[2]
    <3>1. running /\ visible[Entry(client[c].asked[i])[1]] = Entry(client[c].asked[i])[2]
      BY <1>5, <2>1 DEF ClientInv, Connected, Truthful
    <3>2. i \in 1 .. Len(client[c].asked)
      <4> DEFINE a == Len(client[c].asked)
                 b == Len(inbox[c])
      <4>1. a \in Nat /\ b \in Nat
        BY LenProperties DEF Types
      <4>2. i \in 1 .. a - b
        BY <2>1
      <4> HIDE DEF a, b
      <4>3. i \in 1 .. a
        BY <4>1, <4>2
      <4> QED
        BY <4>3 DEF a
    <3>3. client[c].asked[i] \in Sendable(c)
      BY <3>2 DEF ClientInv, Connected
    <3> QED
      BY <1>2, <2>1, <3>1, <3>3
  <2>2. ASSUME NEW i \in 1 .. Len(outbox[c]), NEW k \in Key, outbox[c][i].first, Owner[k] = c,
               client[c].asked[outbox[c][i].of - Settled(c)] = <<"GET", k>>
        PROVE  Shown(outbox[c][i].text) \in owed'[k]
    BY <1>5, <2>2 DEF Truthful
  <2> QED
    BY <2>1, <2>2 DEF Truthful, Settled
<1>6. ASSUME Scripted(c), Kind[c] = "bench"
      PROVE  Scripted(c)'
  <2>1. \A j \in 1 .. Len(Keys[c]) : Keys[c][j] \in Key /\ Owner[Keys[c][j]] = c
    <3>1. DOMAIN Keys[c] = 1 .. Len(Keys[c])
      BY <1>6, SessionsAssumption, LenProperties
    <3> QED
      BY <1>6, <3>1, UsersAssumption, ScriptPhases
  <2>2. link[c] \in {"open", "quitting"} => \A j \in 1 .. Len(Keys[c]) : visible'[Keys[c][j]] = visible[Keys[c][j]]
    BY <2>1 DEF ClientInv, Connected
  <2> QED
    BY <1>6, <2>2 DEF Scripted, Settled
<1> QED
  BY <1>1, <1>3, <1>4, <1>5, <1>6 DEF ClientInv

-----------------------------------------------------------------------------
(* The server answers.                                                      *)

\* The request that is answered leaves, and its lines join those on their way.
LEMMA AnswersMove ==
  ASSUME Types, NEW c \in Client, inbox[c] # <<>>, link[c] \in {"open", "quitting", "gone"},
         NEW answer \in Seq(Text), Len(answer) \in Nat \ {0}, Answers(c, answer)
  PROVE  /\ Head(inbox[c]) = inbox[c][1] /\ Head(inbox[c]) \in Message /\ Len(inbox[c]) \in Nat \ {0}
         /\ inbox' \in [Client -> Seq(Message)] /\ outbox' \in [Client -> Seq(Line)]
         /\ link' \in [Client -> {"none", "open", "quitting", "closed", "gone"}]
         /\ Len(inbox'[c]) = Len(inbox[c]) - 1
         /\ \A i \in 1 .. Len(inbox[c]) - 1 : inbox'[c][i] = inbox[c][i + 1]
         /\ link[c] = "gone" => link'[c] = "gone" /\ outbox'[c] = outbox[c]
         /\ link[c] # "gone" =>
              /\ link'[c] \in {"open", "quitting"}
              /\ Len(outbox[c]) \in Nat /\ Len(outbox'[c]) = Len(outbox[c]) + Len(answer)
              /\ \A i \in 1 .. Len(outbox[c]) : outbox'[c][i] = outbox[c][i]
              /\ \A i \in 1 .. Len(answer) : outbox'[c][Len(outbox[c]) + i] =
                   [of |-> Head(inbox[c]).id, first |-> i = 1, last |-> i = Len(answer),
                    text |-> answer[i]]
         /\ \A d \in Client \ {c} : inbox'[d] = inbox[d] /\ outbox'[d] = outbox[d] /\ link'[d] = link[d]
<1> DEFINE q == inbox[c]
           o == outbox[c]
           lines == Lines(Head(q).id, answer)
<1>1. q \in Seq(Message) /\ o \in Seq(Line)
  BY DEF Types
<1>2. /\ Head(q) \in Message /\ Tail(q) \in Seq(Message) /\ Len(q) \in Nat \ {0}
      /\ Len(Tail(q)) = Len(q) - 1 /\ \A i \in 1 .. Len(q) - 1 : Tail(q)[i] = q[i + 1]
      /\ Head(q) = q[1]
  BY <1>1, HeadTailProperties, EmptySeq
<1>3. Head(q).id \in Nat
  BY <1>2 DEF Message
<1>4. /\ lines \in Seq(Line) /\ Len(lines) = Len(answer)
      /\ \A i \in 1 .. Len(answer) :
           lines[i] = [of |-> Head(q).id, first |-> i = 1, last |-> i = Len(answer), text |-> answer[i]]
  BY <1>3, LinesIn
<1>5. inbox' = [inbox EXCEPT ![c] = Tail(q)]
  BY DEF Answers
<1>6. inbox' \in [Client -> Seq(Message)] /\ inbox'[c] = Tail(q)
  BY <1>2, <1>5 DEF Types
<1>7. link' \in [Client -> {"none", "open", "quitting", "closed", "gone"}]
  BY DEF Answers, Types
<1>8. CASE link[c] = "gone"
  <2>1. link' = link /\ outbox' = outbox
    BY <1>8 DEF Answers
  <2> QED
    BY <1>2, <1>5, <1>6, <1>7, <1>8, <2>1 DEF Types
<1>9. CASE link[c] # "gone"
  <2>1. outbox' = [outbox EXCEPT ![c] = o \o lines]
    BY <1>9 DEF Answers, Behind
  <2>2. link'[c] \in {"open", "quitting"} /\ \A d \in Client \ {c} : link'[d] = link[d]
    BY <1>9 DEF Answers, Types
  <2>0. lines \in Seq(Line) /\ o \in Seq(Line)
    BY <1>1, <1>4
  <2> HIDE DEF lines, o
  <2>3. /\ o \o lines \in Seq(Line) /\ Len(o \o lines) = Len(o) + Len(lines)
        /\ Len(o) \in Nat /\ Len(lines) \in Nat
        /\ \A i \in 1 .. Len(o) : (o \o lines)[i] = o[i]
        /\ \A i \in Len(o) + 1 .. Len(o) + Len(lines) : (o \o lines)[i] = lines[i - Len(o)]
    BY <2>0, ConcatAt
  <2>4. \A i \in 1 .. Len(answer) : (o \o lines)[Len(o) + i] = lines[i]
    <3>1. ASSUME NEW i \in 1 .. Len(answer)
          PROVE  Len(o) + i \in Len(o) + 1 .. Len(o) + Len(lines) /\ (Len(o) + i) - Len(o) = i
      BY <1>4, <2>3
    <3> QED
      BY <2>3, <3>1
  <2>5. outbox' \in [Client -> Seq(Line)] /\ outbox'[c] = o \o lines
    BY <2>1, <2>3 DEF Types
  <2>6. \A d \in Client \ {c} : inbox'[d] = inbox[d] /\ outbox'[d] = outbox[d]
    BY <1>5, <2>1 DEF Types
  <2>7. /\ Len(o) \in Nat /\ Len(outbox'[c]) = Len(o) + Len(answer)
        /\ \A i \in 1 .. Len(o) : outbox'[c][i] = o[i]
        /\ \A i \in 1 .. Len(answer) : outbox'[c][Len(o) + i] =
             [of |-> Head(q).id, first |-> i = 1, last |-> i = Len(answer), text |-> answer[i]]
    BY <1>4, <2>3, <2>4, <2>5
  <2> QED
    BY <1>2, <1>6, <1>7, <1>9, <2>2, <2>5, <2>6, <2>7 DEF o
<1> QED
  BY <1>8, <1>9

\* A step that answers the request at the head of an inbox, and does what it asks.
Answered(c, answer) ==
  LET request == Head(inbox[c]).request IN
  /\ inbox[c] # <<>> /\ link[c] \in {"open", "quitting", "gone"} /\ request # Junk
  /\ answer \in Seq(Text) /\ Len(answer) \in Nat \ {0} /\ Answers(c, answer)
  /\ client' = client /\ owed' = owed /\ running' = running
  /\ visible' = IF IsWrite(request)
                THEN [visible EXCEPT ![Entry(request)[1]] = Entry(request)[2]] ELSE visible
  /\ \A k \in Key : request = <<"GET", k>> => Shown(answer[1]) \in owed[k]
  /\ Kind[c] = "bench" /\ link[c] # "gone" =>
       Len(answer) = 1 /\ answer[1][1] \in Expected(request)

LEMMA AnsweredInOrder ==
  ASSUME Types, NEW c \in Client, ClientInv(c), NEW answer, Answered(c, answer), link[c] # "gone"
  PROVE  InOrder(c)'
<1> DEFINE s == client[c].sent
           q == inbox[c]    n == Len(q)
           o == outbox[c]   m == Len(o)
           a == Len(answer)
<1>1. /\ n \in Nat \ {0} /\ m \in Nat /\ a \in Nat \ {0} /\ s \in Nat
      /\ Head(q) = q[1]
      /\ Len(inbox'[c]) = n - 1 /\ Len(outbox'[c]) = m + a
      /\ link'[c] \in {"open", "quitting"}
      /\ \A i \in 1 .. n - 1 : inbox'[c][i] = q[i + 1]
      /\ \A i \in 1 .. m : outbox'[c][i] = o[i]
      /\ \A i \in 1 .. a : outbox'[c][m + i] =
           [of |-> Head(q).id, first |-> i = 1, last |-> i = a, text |-> answer[i]]
  <2>1. s \in Nat
    BY DEF Types
  <2> QED
    BY <2>1, AnswersMove DEF Answered
<1>2. /\ n <= s /\ \A i \in 1 .. n : q[i].id = s - n + i
      /\ \A i \in 1 .. n :
           LET request == q[i].request
           IN /\ request \in Sendable(c)
              /\ request # Junk /\ IsWrite(request) => Entry(request)[2] \in owed[Entry(request)[1]]
      /\ \A i \in 1 .. m : o[i].of \in 1 .. s - n
      /\ \A i, j \in 1 .. m : i <= j => o[i].of <= o[j].of
  BY DEF ClientInv, InOrder, Answered
<1>3. client'[c].sent = s /\ owed' = owed
  BY DEF Answered
<1> HIDE DEF s, q, n, o, m, a
<1>0. n \in Nat \ {0} /\ m \in Nat /\ a \in Nat \ {0} /\ s \in Nat
  BY <1>1
<1>4. Head(q).id = s - n + 1
  BY <1>1, <1>2
<1>5. \A i \in 1 .. n - 1 :
        /\ i + 1 \in 1 .. n
        /\ s - (n - 1) + i = s - n + (i + 1)
  BY <1>0
<1>6. \A i \in 1 .. n - 1 :
        LET request == inbox'[c][i].request
        IN /\ inbox'[c][i].id = s - (n - 1) + i
           /\ request \in Sendable(c)
           /\ request # Junk /\ IsWrite(request) => Entry(request)[2] \in owed[Entry(request)[1]]
  <2>1. ASSUME NEW i \in 1 .. n - 1
        PROVE  inbox'[c][i] = q[i + 1] /\ i + 1 \in 1 .. n /\ q[i + 1].id = s - (n - 1) + i
    <3>1. inbox'[c][i] = q[i + 1]
      BY <1>1
    <3>2. i + 1 \in 1 .. n /\ s - (n - 1) + i = s - n + (i + 1)
      BY <1>5
    <3>3. q[i + 1].id = s - n + (i + 1)
      BY <1>2, <3>2
    <3> QED
      BY <3>1, <3>2, <3>3
  <2> QED
    BY <1>2, <2>1
<1>7. \A i \in 1 .. m : outbox'[c][i].of = o[i].of /\ o[i].of \in 1 .. s - n
  BY <1>1, <1>2
<1>8. \A i \in m + 1 .. m + a : outbox'[c][i].of = s - n + 1
  <2>1. ASSUME NEW i \in m + 1 .. m + a
        PROVE  i - m \in 1 .. a /\ i = m + (i - m)
    BY <1>1
  <2>2. ASSUME NEW j \in 1 .. a
        PROVE  outbox'[c][m + j].of = s - n + 1
    <3>1. outbox'[c][m + j] = [of |-> Head(q).id, first |-> j = 1, last |-> j = a, text |-> answer[j]]
      BY <1>1
    <3> QED
      BY <1>4, <3>1
  <2> QED
    BY <2>1, <2>2
<1>9. \A i \in 1 .. m + a : i \in 1 .. m \/ i \in m + 1 .. m + a
  BY <1>1
<1>10. /\ \A x \in 1 .. s - n : x \in 1 .. s - (n - 1) /\ x <= s - n + 1 /\ x \in Int
       /\ s - n + 1 \in 1 .. s - (n - 1)
  BY <1>1, <1>2
<1>11. \A i \in 1 .. m + a : outbox'[c][i].of \in 1 .. s - (n - 1)
  BY <1>7, <1>8, <1>9, <1>10
<1>12. ASSUME NEW i \in 1 .. m + a, NEW j \in 1 .. m + a, i <= j
       PROVE  outbox'[c][i].of <= outbox'[c][j].of
  <2>1. CASE j \in 1 .. m
    <3>1. i \in 1 .. m
      BY <1>1, <1>12, <2>1
    <3> QED
      BY <1>2, <1>7, <1>12, <2>1, <3>1
  <2>2. CASE i \in 1 .. m /\ j \in m + 1 .. m + a
    BY <1>7, <1>8, <1>10, <2>2
  <2>3. CASE i \in m + 1 .. m + a /\ j \in m + 1 .. m + a
    BY <1>1, <1>2, <1>8, <2>3
  <2> QED
    BY <1>9, <2>1, <2>2, <2>3
<1>13. n - 1 <= s
  BY <1>1, <1>2
<1> QED
  BY <1>1, <1>3, <1>6, <1>11, <1>12, <1>13 DEF InOrder

LEMMA AnsweredMatching ==
  ASSUME Types, NEW c \in Client, ClientInv(c), NEW answer, Answered(c, answer), link[c] # "gone",
         Matching(c)
  PROVE  Matching(c)'
<1> DEFINE s == client[c].sent
           k == Len(client[c].asked)
           q == inbox[c]    n == Len(q)
           o == outbox[c]   m == Len(o)
           a == Len(answer)
<1>1. /\ n \in Nat \ {0} /\ m \in Nat /\ a \in Nat \ {0} /\ s \in Nat /\ k \in Nat
      /\ Head(q) = q[1]
      /\ Len(inbox'[c]) = n - 1 /\ Len(outbox'[c]) = m + a
      /\ \A i \in 1 .. n - 1 : inbox'[c][i] = q[i + 1]
      /\ \A i \in 1 .. m : outbox'[c][i] = o[i]
      /\ \A i \in 1 .. a : outbox'[c][m + i] =
           [of |-> Head(q).id, first |-> i = 1, last |-> i = a, text |-> answer[i]]
  <2>1. s \in Nat /\ k \in Nat
    BY LenProperties DEF Types
  <2> QED
    BY <2>1, AnswersMove DEF Answered
<1>2. n <= s /\ k <= s /\ \A i \in 1 .. n : q[i].id = s - n + i
  BY DEF ClientInv, Connected, InOrder, Answered
<1>3. /\ \A i \in 1 .. m : o[i].of > s - k
      /\ o # <<>> => o[1].first /\ o[1].of = (s - k) + 1
      /\ \A i \in 1 .. m - 1 : o[i].last => o[i + 1].first /\ o[i + 1].of = o[i].of + 1
      /\ n <= k
      /\ \A i \in 1 .. n : q[i].request = client[c].asked[k - n + i]
      /\ o = <<>> => n = k
      /\ o # <<>> => o[m].last /\ o[m].of = s - n
  BY DEF Matching, Settled, Answered
<1>4. client' = client /\ (o = <<>> <=> m = 0)
  <2>1. o \in Seq(Line)
    BY DEF Types
  <2> QED
    BY <2>1, EmptySeq DEF Answered
<1>5. outbox'[c] # <<>>
  <2>1. Len(outbox'[c]) # 0
    BY <1>1
  <2> QED
    BY <2>1
<1> HIDE DEF s, q, n, o, m, a, k
<1>6. Head(q).id = s - n + 1
  BY <1>1, <1>2
<1>7. ASSUME NEW i \in 1 .. a
      PROVE  /\ outbox'[c][m + i].of = s - n + 1
             /\ outbox'[c][m + i].first <=> i = 1
             /\ outbox'[c][m + i].last <=> i = a
  <2>1. outbox'[c][m + i] = [of |-> Head(q).id, first |-> i = 1, last |-> i = a, text |-> answer[i]]
    BY <1>1
  <2>2. outbox'[c][m + i].of = Head(q).id
    BY <2>1
  <2>3. outbox'[c][m + i].first = (i = 1)
    BY <2>1
  <2>4. outbox'[c][m + i].last = (i = a)
    BY <2>1
  <2> QED
    BY <1>6, <2>2, <2>3, <2>4
<1>8. \A i \in 1 .. m + a : i \in 1 .. m \/ (i - m \in 1 .. a /\ i = m + (i - m))
  BY <1>1
<1>9. \A i \in 1 .. m + a : outbox'[c][i].of > s - k
  <2>1. s - n + 1 > s - k
    BY <1>1, <1>2, <1>3
  <2>2. \A i \in 1 .. a : outbox'[c][m + i].of > s - k
    BY <1>7, <2>1
  <2>3. \A i \in 1 .. m : outbox'[c][i].of > s - k
    BY <1>1, <1>3
  <2> QED
    BY <1>8, <2>2, <2>3
<1>10. outbox'[c][1].first /\ outbox'[c][1].of = (s - k) + 1
  <2>1. CASE m = 0
    <3>1. n = k
      BY <1>3, <1>4, <2>1
    <3>2. 1 \in 1 .. a /\ m + 1 = 1
      BY <1>1, <2>1
    <3>3. outbox'[c][m + 1].of = s - n + 1 /\ outbox'[c][m + 1].first
      BY <1>7, <3>2
    <3> QED
      BY <1>1, <3>1, <3>2, <3>3
  <2>2. CASE m # 0
    <3>1. 1 \in 1 .. m
      BY <1>1, <2>2
    <3> QED
      BY <1>1, <1>3, <1>4, <2>2, <3>1
  <2> QED
    BY <2>1, <2>2
<1>11. ASSUME NEW i \in 1 .. (m + a) - 1, outbox'[c][i].last
       PROVE  outbox'[c][i + 1].first /\ outbox'[c][i + 1].of = outbox'[c][i].of + 1
  <2>1. CASE i \in 1 .. m - 1
    <3>1. i \in 1 .. m /\ i + 1 \in 1 .. m
      BY <1>1, <2>1
    <3>2. outbox'[c][i] = o[i] /\ outbox'[c][i + 1] = o[i + 1]
      BY <1>1, <3>1
    <3> QED
      BY <1>3, <1>11, <2>1, <3>2
  <2>2. CASE i = m
    <3>1. i \in 1 .. m /\ m # 0 /\ 1 \in 1 .. a
      BY <1>1, <1>11, <2>2
    <3>2. outbox'[c][i].of = s - n
      BY <1>1, <1>3, <1>4, <2>2, <3>1
    <3> QED
      BY <1>1, <1>7, <2>2, <3>1, <3>2
  <2>3. CASE i > m
    <3>1. i - m \in 1 .. a /\ i = m + (i - m) /\ i - m # a
      BY <1>1, <2>3
    <3>2. outbox'[c][m + (i - m)].last <=> i - m = a
      BY <1>7, <3>1
    <3> QED
      BY <1>11, <3>1, <3>2
  <2> QED
    BY <1>1, <2>1, <2>2, <2>3
<1>12. \A i \in 1 .. n - 1 : inbox'[c][i].request = client[c].asked[k - (n - 1) + i]
  <2>1. n \in Nat \ {0} /\ k \in Nat
    BY <1>1
  <2>2. ASSUME NEW i \in 1 .. n - 1
        PROVE  inbox'[c][i].request = client[c].asked[k - (n - 1) + i]
    <3>1. i + 1 \in 1 .. n /\ k - n + (i + 1) = k - (n - 1) + i
      BY <2>1
    <3>2. inbox'[c][i] = q[i + 1]
      BY <1>1
    <3>3. q[i + 1].request = client[c].asked[k - n + (i + 1)]
      BY <1>3, <3>1
    <3> QED
      BY <3>1, <3>2, <3>3
  <2> QED
    BY <2>2
<1>13. outbox'[c][m + a].last /\ outbox'[c][m + a].of = s - (n - 1)
  <2>1. a \in 1 .. a /\ s - n + 1 = s - (n - 1)
    BY <1>1
  <2> QED
    BY <1>7, <2>1
<1>14. n - 1 <= k
  BY <1>1, <1>3
<1>15. Settled(c)' = s - k /\ client'[c].sent = s /\ client'[c].asked = client[c].asked
  BY <1>4 DEF Settled, s, k
<1> QED
  BY <1>1, <1>5, <1>9, <1>10, <1>11, <1>12, <1>13, <1>14, <1>15 DEF Matching, k

\* The client's requests that wait are requests it may send, of different keys if
\* they are written in one batch of the benchmark.
LEMMA AskedDiffer ==
  ASSUME Types, NEW c \in Client, ClientInv(c), client[c].exact, Kind[c] = "raw" => Len(client[c].asked) = 1,
         NEW i \in 1 .. Len(client[c].asked), NEW j \in 1 .. Len(client[c].asked),
         LET asked == client[c].asked IN
           /\ asked[i] # Junk /\ IsWrite(asked[i]) /\ asked[j] # Junk /\ IsWrite(asked[j])
           /\ Entry(asked[i])[1] = Entry(asked[j])[1]
  PROVE  i = j
<1> DEFINE asked == client[c].asked
           s == client[c].sent
           k == Len(asked)
<1>1. s \in Nat /\ k \in Nat /\ k <= s
  BY LenProperties DEF Types, ClientInv, Connected
<1>2. CASE Kind[c] = "bench"
  <2>1. /\ asked[i] = Script(c)[s - k + i] /\ asked[j] = Script(c)[s - k + j]
        /\ Head(asked[i]) = Head(asked[j]) /\ s <= Len(Script(c))
    BY <1>2 DEF ClientInv, Scripted, Settled
  <2>2. s - k + i \in 1 .. Len(Script(c)) /\ s - k + j \in 1 .. Len(Script(c))
    <3> HIDE DEF k, s
    <3>1. i \in 1 .. k /\ j \in 1 .. k
      BY DEF k
    <3>2. Len(Script(c)) \in Nat
      BY <1>2, ScriptPhases, LenProperties
    <3> QED
      BY <1>1, <2>1, <3>1, <3>2
  <2>3. s - k + i = s - k + j
    BY <1>2, <2>1, <2>2, WritesDiffer
  <2> HIDE DEF s, k
  <2> QED
    BY <1>1, <2>3
<1>3. CASE Kind[c] # "bench"
  <2>1. k <= 1
    BY <1>3, SessionsAssumption DEF ClientInv, Connected
  <2> QED
    BY <1>1, <2>1
<1> QED
  BY <1>2, <1>3

LEMMA AnsweredTruthful ==
  ASSUME Types, NEW c \in Client, ClientInv(c), NEW answer, Answered(c, answer), link[c] # "gone",
         client[c].exact, Matching(c), Truthful(c)
  PROVE  Truthful(c)'
<1> DEFINE s == client[c].sent
           asked == client[c].asked
           k == Len(asked)
           q == inbox[c]    n == Len(q)
           o == outbox[c]   m == Len(o)
           a == Len(answer)
           request == Head(q).request
<1>1. /\ n \in Nat \ {0} /\ m \in Nat /\ a \in Nat \ {0} /\ s \in Nat /\ k \in Nat
      /\ Head(q) = q[1]
      /\ Len(inbox'[c]) = n - 1 /\ Len(outbox'[c]) = m + a
      /\ \A i \in 1 .. m : outbox'[c][i] = o[i]
      /\ \A i \in 1 .. a : outbox'[c][m + i] =
           [of |-> Head(q).id, first |-> i = 1, last |-> i = a, text |-> answer[i]]
  <2>1. s \in Nat /\ k \in Nat
    BY LenProperties DEF Types
  <2> QED
    BY <2>1, AnswersMove DEF Answered
<1>0. link[c] \in {"open", "quitting"}
  BY DEF Answered
<1>2. n <= s /\ k <= s /\ q[1].id = s - n + 1
  <2>1. 1 \in 1 .. n
    BY <1>1
  <2> QED
    BY <1>0, <2>1 DEF ClientInv, Connected, InOrder
<1>3. n <= k /\ request = asked[k - n + 1]
  <2>1. 1 \in 1 .. n
    BY <1>1
  <2>2. n <= k /\ q[1].request = asked[k - n + 1]
    BY <1>0, <2>1 DEF Matching
  <2> QED
    BY <1>1, <2>2
<1>4. /\ client' = client /\ owed' = owed /\ request # Junk
      /\ visible' = IF IsWrite(request)
                    THEN [visible EXCEPT ![Entry(request)[1]] = Entry(request)[2]] ELSE visible
      /\ \A key \in Key : request = <<"GET", key>> => Shown(answer[1]) \in owed[key]
  BY DEF Answered
<1>5. \A i \in 1 .. k : asked[i] \in Sendable(c)
  BY DEF ClientInv, Connected
<1>6. visible \in [Key -> Held]
  BY DEF Types
<1>7. k - n + 1 \in 1 .. k
  <2> HIDE DEF k, n
  <2> QED
    BY <1>1, <1>3
<1>8. ASSUME Kind[c] = "raw" => k = 1,
             NEW i \in 1 .. k - (n - 1), asked[i] # Junk, IsWrite(asked[i])
      PROVE  visible'[Entry(asked[i])[1]] = Entry(asked[i])[2]
  <2> DEFINE e == Entry(asked[i])
  <2>1. i \in 1 .. k /\ (i = k - n + 1 \/ i \in 1 .. k - n)
    <3> HIDE DEF k, n
    <3> QED
      BY <1>1, <1>3
  <2>2. e[1] \in Key
    BY <1>5, <1>8, <2>1, SentIsProper
  <2>3. CASE i = k - n + 1
    <3>1. asked[i] = request /\ IsWrite(request)
      BY <1>3, <1>8, <2>3
    <3>2. visible' = [visible EXCEPT ![e[1]] = e[2]]
      BY <1>4, <3>1
    <3> QED
      BY <1>6, <2>2, <3>2
  <2>4. CASE i # k - n + 1
    <3>1. visible[e[1]] = e[2]
      BY <1>8, <2>1, <2>4 DEF Truthful, Answered
    <3>2. IsWrite(request) => Entry(request)[1] # e[1]
      BY <1>3, <1>4, <1>7, <1>8, <2>1, <2>4, AskedDiffer
    <3>3. CASE IsWrite(request)
      <4>1. visible' = [visible EXCEPT ![Entry(request)[1]] = Entry(request)[2]]
        BY <1>4, <3>3
      <4>2. Entry(request)[1] # e[1]
        BY <3>2, <3>3
      <4> HIDE DEF request
      <4> QED
        BY <1>6, <2>2, <3>1, <4>1, <4>2
    <3>4. CASE ~ IsWrite(request)
      <4>1. visible' = visible
        BY <1>4, <3>4
      <4> QED
        BY <3>1, <4>1
    <3> QED
      BY <3>3, <3>4
  <2> QED
    BY <2>3, <2>4
<1>9. ASSUME NEW i \in 1 .. m + a, NEW key \in Key, outbox'[c][i].first, Owner[key] = c,
             asked[outbox'[c][i].of - (s - k)] = <<"GET", key>>
      PROVE  Shown(outbox'[c][i].text) \in owed[key]
  <2>1. i \in 1 .. m \/ (i - m \in 1 .. a /\ i = m + (i - m))
    <3> HIDE DEF m, a
    <3> QED
      BY <1>1
  <2>2. CASE i \in 1 .. m
    <3>1. outbox'[c][i] = o[i]
      BY <1>1, <2>2
    <3> QED
      BY <1>9, <2>2, <3>1 DEF Truthful, Settled
  <2>3. CASE i - m \in 1 .. a /\ i = m + (i - m)
    <3> DEFINE j == i - m
    <3>1. outbox'[c][m + j] = [of |-> Head(q).id, first |-> j = 1, last |-> j = a, text |-> answer[j]]
      BY <1>1, <2>3
    <3>2. outbox'[c][i] = [of |-> Head(q).id, first |-> j = 1, last |-> j = a, text |-> answer[j]]
      BY <2>3, <3>1
    <3> HIDE DEF j
    <3>3. outbox'[c][i].first = (j = 1) /\ outbox'[c][i].text = answer[j] /\ outbox'[c][i].of = Head(q).id
      BY <3>2
    <3>4. j = 1
      BY <1>9, <3>3
    <3>5. Head(q).id - (s - k) = k - n + 1
      <4> HIDE DEF k, n, s
      <4> QED
        BY <1>1, <1>2
    <3>6. request = <<"GET", key>>
      <4>1. asked[outbox'[c][i].of - (s - k)] = asked[k - n + 1]
        BY <3>3, <3>5
      <4> QED
        BY <1>3, <1>9, <4>1
    <3> QED
      BY <1>4, <3>3, <3>4, <3>6
  <2> QED
    BY <2>1, <2>2, <2>3
<1>10. /\ client'[c].asked = asked /\ client'[c].sent = s /\ owed' = owed
       /\ Len(inbox'[c]) = n - 1 /\ Len(outbox'[c]) = m + a
  BY <1>1, <1>4
<1>11. Settled(c)' = s - k
  BY <1>10 DEF Settled
<1> HIDE DEF m, a, n, s, request
<1> QED
  BY <1>8, <1>9, <1>10, <1>11 DEF Truthful, k, asked

LEMMA AnsweredScripted ==
  ASSUME Types, NEW c \in Client, ClientInv(c), NEW answer, Answered(c, answer), link[c] # "gone",
         Kind[c] = "bench"
  PROVE  Scripted(c)'
<1> DEFINE s == client[c].sent
           asked == client[c].asked
           k == Len(asked)
           q == inbox[c]    n == Len(q)
           o == outbox[c]   m == Len(o)
           a == Len(answer)
           request == Head(q).request
           now == s - n + 1
           keys == Len(Keys[c])
<1>1. /\ n \in Nat \ {0} /\ m \in Nat /\ a = 1 /\ s \in Nat /\ k \in Nat
      /\ Head(q) = q[1]
      /\ Len(inbox'[c]) = n - 1 /\ Len(outbox'[c]) = m + a
      /\ \A i \in 1 .. m : outbox'[c][i] = o[i]
      /\ \A i \in 1 .. a : outbox'[c][m + i] =
           [of |-> Head(q).id, first |-> i = 1, last |-> i = a, text |-> answer[i]]
  <2>1. s \in Nat /\ k \in Nat
    BY LenProperties DEF Types
  <2>2. a = 1
    BY DEF Answered
  <2> QED
    BY <2>1, <2>2, AnswersMove DEF Answered
<1>2. Scripted(c) /\ Matching(c)
  BY DEF ClientInv, Scripted
<1>3. n <= s /\ k <= s /\ q[1].id = s - n + 1 /\ s <= Len(Script(c))
  <2>1. 1 \in 1 .. n /\ link[c] \in {"open", "quitting"}
    BY <1>1 DEF Answered
  <2>2. n <= s /\ q[1].id = s - n + 1
    BY <2>1 DEF ClientInv, InOrder
  <2>3. k <= s
    BY DEF ClientInv, Connected
  <2>4. s <= Len(Script(c))
    BY <1>2 DEF Scripted
  <2> QED
    BY <2>2, <2>3, <2>4
<1>4. n <= k /\ request = asked[k - n + 1]
  <2>1. 1 \in 1 .. n /\ link[c] \in {"open", "quitting"}
    BY <1>1 DEF Answered
  <2>2. n <= k /\ q[1].request = asked[k - n + 1]
    BY <1>2, <2>1 DEF Matching
  <2> QED
    BY <1>1, <2>2
<1>5. k - n + 1 \in 1 .. k /\ s - k + (k - n + 1) = now /\ now \in 1 .. Len(Script(c))
  <2>1. Len(Script(c)) \in Nat
    BY ScriptPhases, LenProperties
  <2>2. n \in Nat \ {0} /\ s \in Nat /\ k \in Nat
    BY <1>1
  <2>3. n <= s /\ n <= k /\ s <= Len(Script(c))
    BY <1>3, <1>4
  <2> DEFINE l == Len(Script(c))
  <2> HIDE DEF k, n, s, l
  <2>4. l \in Nat /\ s <= l
    BY <2>1, <2>3 DEF l
  <2>5. k - n + 1 \in 1 .. k /\ s - k + (k - n + 1) = now /\ now \in 1 .. l
    BY <2>2, <2>3, <2>4
  <2> QED
    BY <2>5 DEF l
<1>6. request = Script(c)[now]
  <2>1. asked[k - n + 1] = Script(c)[s - k + (k - n + 1)]
    BY <1>2, <1>5 DEF Scripted, Settled
  <2> QED
    BY <1>4, <1>5, <2>1
<1>7. /\ client' = client /\ request # Junk /\ answer[1][1] \in Expected(request)
      /\ visible' = IF IsWrite(request)
                    THEN [visible EXCEPT ![Entry(request)[1]] = Entry(request)[2]] ELSE visible
  BY DEF Answered
<1>8. ASSUME NEW i \in 1 .. m + a
      PROVE  LET line == outbox'[c][i]
             IN line.first /\ line.last /\ line.text[1] \in Expected(Script(c)[line.of])
  <2>1. CASE i \in 1 .. m
    <3>1. outbox'[c][i] = o[i]
      BY <1>1, <2>1
    <3>2. o[i].first /\ o[i].last /\ o[i].text[1] \in Expected(Script(c)[o[i].of])
      BY <1>2, <2>1 DEF Scripted
    <3> QED
      BY <3>1, <3>2
  <2>2. CASE i = m + 1
    <3>1. outbox'[c][m + 1] = [of |-> Head(q).id, first |-> 1 = 1, last |-> 1 = a, text |-> answer[1]]
      BY <1>1
    <3>2. /\ outbox'[c][i].of = now /\ outbox'[c][i].text = answer[1]
          /\ outbox'[c][i].first = (1 = 1) /\ outbox'[c][i].last = (1 = a)
      BY <1>1, <1>3, <2>2, <3>1
    <3> HIDE DEF request
    <3> QED
      BY <1>1, <1>6, <1>7, <3>2
  <2> HIDE DEF m, a
  <2> QED
    BY <1>1, <2>1, <2>2
<1>9. ASSUME NEW j \in 1 .. keys, keys + j <= s - (n - 1), s - (n - 1) < 4 * keys + j
      PROVE  visible'[Keys[c][j]] # Absent
  <2>1. keys \in Nat \ {0} /\ Keys[c][j] \in Key
    BY ScriptPhases
  <2>2. visible \in [Key -> Held] /\ BenchValue \in Value /\ Absent \notin Value
    BY BenchHasValue, CommandAssumption DEF Types
  <2>3. now = s - (n - 1) /\ (keys + j = now \/ (keys + j <= s - n /\ s - n < 4 * keys + j)) /\ now # 4 * keys + j
    <3> HIDE DEF s, n, keys
    <3> QED
      BY <1>1, <1>9, <2>1
  <2>4. CASE IsWrite(request)
    <3>1. \/ Entry(request)[2] # Absent
          \/ now - 4 * keys \in 1 .. keys /\ Entry(request) = <<Keys[c][now - 4 * keys], Absent>>
      <4>1. IsWrite(Script(c)[now]) /\ now \in 1 .. Len(Script(c)) /\ Kind[c] = "bench"
        BY <1>5, <1>6, <2>4
      <4>2. \/ Entry(Script(c)[now])[2] = BenchValue
            \/ /\ now - 4 * keys \in 1 .. keys
               /\ Entry(Script(c)[now]) = <<Keys[c][now - 4 * keys], Absent>>
        <5> HIDE DEF now
        <5> QED
          BY <4>1, ScriptWrites
      <4> HIDE DEF now
      <4> QED
        BY <1>6, <2>2, <4>2
    <3>2. keys + j # now => visible[Keys[c][j]] # Absent
      BY <1>2, <2>3 DEF Scripted, Answered
    <3>3. CASE Entry(request)[2] # Absent /\ keys + j # now
      <4> HIDE DEF request
      <4> QED
        BY <1>7, <2>1, <2>2, <2>4, <3>2, <3>3
    <3>4. CASE Entry(request)[2] # Absent /\ keys + j = now
      <4>1. keys < now /\ now <= 2 * keys /\ now - keys = j
        <5> HIDE DEF keys, now
        <5> QED
          BY <2>1, <3>4
      <4>2. Head(Script(c)[now]) = "PUT"
        BY <1>5, <4>1, ScriptHeads
      <4>3. Entry(request) = <<Keys[c][j], BenchValue>>
        BY <1>5, <1>6, <2>4, <4>1, <4>2, ScriptWrites, SMTT(30)
      <4> HIDE DEF request
      <4> QED
        BY <1>7, <2>1, <2>2, <2>4, <4>3
    <3>5. CASE now - 4 * keys \in 1 .. keys /\ Entry(request) = <<Keys[c][now - 4 * keys], Absent>>
      <4> DEFINE d == now - 4 * keys
      <4>1. d # j /\ d \in 1 .. keys /\ keys + j # now
        <5>1. now - 4 * keys \in 1 .. keys
          BY <3>5
        <5>2. now \in Int
          BY <1>5
        <5> HIDE DEF keys, now
        <5> QED
          BY <2>1, <2>3, <5>1, <5>2
      <4>2. Keys[c][d] # Keys[c][j]
        <5>1. DOMAIN Keys[c] = 1 .. keys
          BY SessionsAssumption, LenProperties
        <5> QED
          BY <4>1, <5>1, SessionsAssumption
      <4>3. visible[Keys[c][j]] # Absent
        BY <3>2, <4>1
      <4>4. Entry(request)[1] = Keys[c][d]
        BY <3>5
      <4> HIDE DEF request, d
      <4> QED
        BY <1>7, <2>1, <2>2, <2>4, <4>2, <4>3, <4>4
    <3> QED
      BY <3>1, <3>3, <3>4, <3>5
  <2>5. CASE ~ IsWrite(request)
    <3>1. keys + j # now
      <4>1. ASSUME keys + j = now
            PROVE  FALSE
        <5>1. keys < now /\ now <= 2 * keys
          <6> HIDE DEF keys, now
          <6> QED
            BY <2>1, <4>1
        <5>2. Head(Script(c)[now]) = "PUT"
          BY <1>5, <5>1, ScriptHeads
        <5> QED
          BY <1>5, <1>6, <2>5, <5>2, ScriptRequest, BenchCommands
      <4> QED
        BY <4>1
    <3>2. visible[Keys[c][j]] # Absent
      BY <1>2, <2>3, <3>1 DEF Scripted, Answered
    <3> QED
      BY <1>7, <2>5, <3>2
  <2> QED
    BY <2>4, <2>5
<1> QED
  BY <1>1, <1>2, <1>7, <1>8, <1>9 DEF Scripted, Settled

\* What a client sent before it ended is executed too, and answered to nobody.
LEMMA AnsweredGone ==
  ASSUME Types, NEW c \in Client, ClientInv(c), NEW answer, Answered(c, answer), link[c] = "gone"
  PROVE  ClientInv(c)'
<1>1. /\ client' = client /\ running' = running /\ owed' = owed
      /\ inbox[c] # <<>> /\ Answers(c, answer) /\ answer \in Seq(Text) /\ Len(answer) \in Nat \ {0}
  BY DEF Answered
<1>2. /\ link'[c] = "gone" /\ outbox'[c] = outbox[c] /\ Len(inbox[c]) \in Nat \ {0}
      /\ Len(inbox'[c]) = Len(inbox[c]) - 1
      /\ \A i \in 1 .. Len(inbox[c]) - 1 : inbox'[c][i] = inbox[c][i + 1]
  BY <1>1, AnswersMove
<1>3. outbox[c] = <<>> /\ running /\ client[c].mode \in {"off", "failed"} /\ client[c].asked = <<>>
  BY DEF ClientInv, Connected, Off
<1>4. Connected(c)'
  BY <1>1, <1>2, <1>3 DEF ClientInv, Connected
<1>5. InOrder(c)'
  <2>1. ASSUME NEW i \in 1 .. Len(inbox'[c])
        PROVE  i + 1 \in 1 .. Len(inbox[c]) /\ inbox'[c][i] = inbox[c][i + 1]
    BY <1>2
  <2>2. \A i \in 1 .. Len(inbox[c]) :
          LET request == inbox[c][i].request
          IN /\ request \in Sendable(c)
             /\ request # Junk /\ IsWrite(request) => Entry(request)[2] \in owed[Entry(request)[1]]
    BY DEF ClientInv, InOrder
  <2>3. \A i \in 1 .. Len(inbox'[c]) :
          LET request == inbox'[c][i].request
          IN /\ request \in Sendable(c)
             /\ request # Junk /\ IsWrite(request) => Entry(request)[2] \in owed'[Entry(request)[1]]
    BY <1>1, <2>1, <2>2
  <2>4. link'[c] = "gone" /\ outbox'[c] = <<>> /\ Len(outbox'[c]) = 0
    BY <1>2, <1>3
  <2> QED
    BY <2>3, <2>4 DEF InOrder
<1>6. Matching(c)' /\ Truthful(c)'
  BY <1>1, <1>2, <1>3 DEF Matching, Truthful
<1>7. Kind[c] = "bench" => Scripted(c)'
  BY <1>1, <1>2, <1>3 DEF ClientInv, Scripted, Settled
<1> QED
  BY <1>4, <1>5, <1>6, <1>7 DEF ClientInv

\* No client is confused by an answer.
LEMMA AnsweredKeeps ==
  ASSUME Types, \A d \in Client : ClientInv(d), NEW c \in Client, NEW answer, Answered(c, answer)
  PROVE  /\ \A d \in Client : ClientInv(d)'
         /\ inbox' \in [Client -> Seq(Message)] /\ outbox' \in [Client -> Seq(Line)]
         /\ link' \in [Client -> {"none", "open", "quitting", "closed", "gone"}]
<1> DEFINE request == Head(inbox[c]).request
<1>1. /\ client' = client /\ running' = running /\ owed' = owed
      /\ inbox[c] # <<>> /\ link[c] \in {"open", "quitting", "gone"} /\ request # Junk
      /\ Answers(c, answer) /\ answer \in Seq(Text) /\ Len(answer) \in Nat \ {0}
      /\ visible' = IF IsWrite(request)
                    THEN [visible EXCEPT ![Entry(request)[1]] = Entry(request)[2]] ELSE visible
  BY DEF Answered
<1>2. /\ inbox' \in [Client -> Seq(Message)] /\ outbox' \in [Client -> Seq(Line)]
      /\ link' \in [Client -> {"none", "open", "quitting", "closed", "gone"}]
      /\ Head(inbox[c]) = inbox[c][1] /\ Len(inbox[c]) \in Nat \ {0}
      /\ link[c] # "gone" => link'[c] \in {"open", "quitting"}
      /\ \A d \in Client \ {c} : inbox'[d] = inbox[d] /\ outbox'[d] = outbox[d] /\ link'[d] = link[d]
  BY <1>1, AnswersMove
<1>3. ClientInv(c)'
  <2>1. CASE link[c] = "gone"
    BY <2>1, AnsweredGone
  <2>2. CASE link[c] # "gone"
    <3>1. Connected(c)'
      BY <1>1, <1>2, <2>2 DEF ClientInv, Connected
    <3>2. InOrder(c)'
      BY <2>2, AnsweredInOrder
    <3>3. client[c].exact => Matching(c)' /\ Truthful(c)'
      <4>1. client[c].exact => Matching(c) /\ Truthful(c)
        BY DEF ClientInv
      <4> QED
        BY <2>2, <4>1, AnsweredMatching, AnsweredTruthful
    <3>4. Kind[c] = "bench" => Scripted(c)'
      BY <2>2, AnsweredScripted
    <3> QED
      BY <1>1, <3>1, <3>2, <3>3, <3>4 DEF ClientInv
  <2> QED
    BY <2>1, <2>2
<1>4. ASSUME NEW d \in Client \ {c}
      PROVE  ClientInv(d)'
  <2>1. 1 \in 1 .. Len(inbox[c])
    BY <1>2
  <2>2. request \in Sendable(c)
    BY <1>2, <2>1 DEF ClientInv, InOrder
  <2>3. IsWrite(request) => Owner[Entry(request)[1]] = c
    BY <1>1, <2>2, SentIsProper
  <2> HIDE DEF request
  <2>4. visible \in [Key -> Held]
    BY DEF Types
  <2>5. \A k \in Key : Owner[k] = d => visible'[k] = visible[k]
    BY <1>1, <2>3, <2>4
  <2> QED
    BY <1>1, <1>2, <2>5, OtherClient
<1> QED
  BY <1>2, <1>3, <1>4

-----------------------------------------------------------------------------
(* Connections end.                                                         *)

LEMMA WholeIsPrefix ==
  ASSUME NEW S, NEW s \in Seq(S)
  PROVE  s \in Prefixed(s)
<1>1. Len(s) \in Nat /\ SubSeq(s, 1, Len(s)) = s
  BY LenProperties, SubSeqProperties
<1>2. Len(s) \in 0 .. Len(s)
  BY <1>1
<1> QED
  BY <1>1, <1>2 DEF Prefixed

\* A client whose connection the server has closed reads a prefix of what was on its
\* way, and no more.
LEMMA HungKeeps ==
  ASSUME Types, NEW c \in Client, ClientInv(c), client'[c] = client[c], inbox'[c] = <<>>,
         link'[c] = (IF link[c] \in {"gone", "none"} THEN "none" ELSE "closed"),
         outbox'[c] \in Prefixed(outbox[c]), \A k \in Key : owed[k] \subseteq owed'[k]
  PROVE  ClientInv(c)' /\ outbox'[c] \in Seq(Line)
<1> DEFINE s == client[c].sent
           o == outbox[c]
           m == Len(outbox'[c])
<1>1. /\ o \in Seq(Line) /\ s \in Nat /\ Len(o) \in Nat /\ Len(inbox[c]) \in Nat
      /\ link[c] \in {"none", "open", "quitting", "closed", "gone"}
  BY LenProperties DEF Types
<1>2. /\ outbox'[c] \in Seq(Line) /\ m \in 0 .. Len(o)
      /\ \A i \in 1 .. m : outbox'[c][i] = o[i]
  BY <1>1, PrefixIn
<1>3. \A i \in 1 .. m : i \in 1 .. Len(o)
  <2> HIDE DEF m, o
  <2> QED
    BY <1>1, <1>2
<1>4. Connected(c)'
  <2>1. o = <<>> => outbox'[c] = <<>>
    BY EmptyPrefix
  <2> QED
    BY <1>1, <2>1 DEF ClientInv, Connected
<1>5. InOrder(c)'
  <2>1. \A i \in 1 .. Len(o) : o[i].of \in 1 .. s - Len(inbox[c])
    BY DEF ClientInv, InOrder
  <2>2. \A x \in 1 .. s - Len(inbox[c]) : x \in 1 .. s - 0
    <3> HIDE DEF s
    <3> QED
      BY <1>1
  <2>3. \A i \in 1 .. m : outbox'[c][i].of \in 1 .. s - 0
    BY <1>2, <1>3, <2>1, <2>2
  <2>4. \A i, j \in 1 .. m : i <= j => outbox'[c][i].of <= outbox'[c][j].of
    BY <1>2, <1>3 DEF ClientInv, InOrder
  <2>5. Len(inbox'[c]) = 0 /\ link'[c] \notin {"open", "quitting"}
    OBVIOUS
  <2> QED
    BY <2>3, <2>4, <2>5 DEF InOrder
<1>6. client[c].exact => Matching(c)'
  <2> SUFFICES ASSUME client[c].exact PROVE Matching(c)'
    OBVIOUS
  <2>1. /\ \A i \in 1 .. Len(o) : o[i].of > Settled(c)
        /\ o # <<>> => o[1].first /\ o[1].of = Settled(c) + 1
        /\ \A i \in 1 .. Len(o) - 1 : o[i].last => o[i + 1].first /\ o[i + 1].of = o[i].of + 1
    BY DEF ClientInv, Matching
  <2>2. Settled(c)' = Settled(c)
    BY DEF Settled
  <2>3. outbox'[c] # <<>> => 1 \in 1 .. m /\ o # <<>>
    <3>1. outbox'[c] # <<>> => m # 0 /\ m \in Nat
      BY <1>2, EmptySeq, LenProperties
    <3>2. o = <<>> => outbox'[c] = <<>>
      BY EmptyPrefix
    <3> HIDE DEF m
    <3> QED
      BY <3>1, <3>2
  <2>4. \A i \in 1 .. m - 1 : i \in 1 .. m /\ i + 1 \in 1 .. m /\ i \in 1 .. Len(o) - 1
    <3> HIDE DEF m, o
    <3> QED
      BY <1>1, <1>2
  <2>5. link'[c] \notin {"open", "quitting"}
    OBVIOUS
  <2>6. \A i \in 1 .. m : outbox'[c][i].of > Settled(c)
    BY <1>2, <1>3, <2>1
  <2>7. outbox'[c] # <<>> => outbox'[c][1].first /\ outbox'[c][1].of = Settled(c) + 1
    BY <1>2, <2>1, <2>3
  <2>8. \A i \in 1 .. m - 1 : outbox'[c][i].last =>
          outbox'[c][i + 1].first /\ outbox'[c][i + 1].of = outbox'[c][i].of + 1
    BY <1>2, <2>1, <2>4
  <2> QED
    BY <2>2, <2>5, <2>6, <2>7, <2>8 DEF Matching
<1>7. client[c].exact => Truthful(c)'
  <2> SUFFICES ASSUME client[c].exact PROVE Truthful(c)'
    OBVIOUS
  <2>1. \A i \in 1 .. Len(o) : \A k \in Key :
          /\ o[i].first /\ Owner[k] = c
          /\ client[c].asked[o[i].of - Settled(c)] = <<"GET", k>>
          => Shown(o[i].text) \in owed[k]
    BY DEF ClientInv, Truthful
  <2>2. Settled(c)' = Settled(c) /\ link'[c] \notin {"open", "quitting"}
    BY DEF Settled
  <2>3. \A i \in 1 .. m : \A k \in Key :
          /\ outbox'[c][i].first /\ Owner[k] = c
          /\ client[c].asked[outbox'[c][i].of - Settled(c)] = <<"GET", k>>
          => Shown(outbox'[c][i].text) \in owed'[k]
    <3>1. \A i \in 1 .. m : i \in 1 .. Len(o) /\ outbox'[c][i] = o[i]
      BY <1>2, <1>3
    <3> HIDE DEF m, o
    <3> QED
      BY <2>1, <3>1, ZenonT(40) DEF o
  <2> QED
    BY <2>2, <2>3 DEF Truthful
<1>8. Kind[c] = "bench" => Scripted(c)'
  <2> SUFFICES ASSUME Kind[c] = "bench" PROVE Scripted(c)'
    OBVIOUS
  <2>1. Scripted(c)
    BY DEF ClientInv
  <2>2. Settled(c)' = Settled(c) /\ link'[c] \notin {"open", "quitting"}
    BY DEF Settled
  <2> QED
    BY <1>2, <1>3, <2>1, <2>2, SMTT(30) DEF Scripted
<1> QED
  BY <1>2, <1>4, <1>5, <1>6, <1>7, <1>8 DEF ClientInv

\* A process that has ended leaves its requests to the server, and reads nothing.
LEMMA GoneKeeps ==
  ASSUME IInv, NEW c \in Client, client[c].mode \in {"prompt", "waiting"}, Gone(c, "off"),
         owed' = owed
  PROVE  IInv'
<1>1. /\ client' = [client EXCEPT ![c] = [Off EXCEPT !.mode = "off"]]
      /\ link' = [link EXCEPT ![c] = IF @ = "closed" THEN "none" ELSE "gone"]
      /\ outbox' = [outbox EXCEPT ![c] = <<>>]
      /\ UNCHANGED <<engineVars, logged, inbox, serving, left, stops>>
  BY DEF Gone, LeftOver
<1>2. kept' = kept /\ visible' = visible /\ writing' = writing /\ running' = running /\ damaged' = damaged
  BY <1>1 DEF engineVars
<1>3. Types /\ Busy /\ Holds /\ ClientInv(c)
  BY DEF IInv
<1>4. [Off EXCEPT !.mode = "off"] = Off /\ Off.asked = <<>> /\ Off.sent = 0 /\ Off.exact /\ Off.mode = "off"
  BY DEF Off
<1>5. Types'
  <2>1. Off \in [mode : {"off", "prompt", "waiting", "failed"}, sent : Nat,
                 asked : Seq(Request), exact : BOOLEAN]
    BY EmptySeq DEF Off
  <2>2. <<>> \in Seq(Line)
    BY EmptySeq
  <2> QED
    BY <1>1, <1>2, <1>3, <1>4, <2>1, <2>2 DEF Types
<1>6. Busy' /\ Holds'
  BY <1>1, <1>2, <1>3 DEF Busy, Holds
<1>7. link[c] \in {"open", "quitting", "closed"}
  BY <1>3 DEF Types, ClientInv, Connected
<1>8. /\ client'[c] = Off /\ outbox'[c] = <<>> /\ inbox'[c] = inbox[c]
      /\ link'[c] = (IF link[c] = "closed" THEN "none" ELSE "gone")
  BY <1>1, <1>3, <1>4 DEF Types
<1>9. ClientInv(c)'
  <2>1. Connected(c)'
    BY <1>2, <1>3, <1>4, <1>7, <1>8 DEF ClientInv, Connected
  <2>2. InOrder(c)'
    BY <1>3, <1>8 DEF ClientInv, InOrder
  <2>3. Matching(c)' /\ Truthful(c)'
    BY <1>8 DEF Matching, Truthful
  <2>4. Kind[c] = "bench" => Scripted(c)'
    <3>1. Kind[c] = "bench" => Len(Script(c)) \in Nat
      BY ScriptPhases, LenProperties
    <3> QED
      BY <1>4, <1>8, <3>1 DEF Scripted
  <2> QED
    BY <2>1, <2>2, <2>3, <2>4 DEF ClientInv
<1>10. ASSUME NEW d \in Client \ {c}
       PROVE  ClientInv(d)'
  <2>1. client'[d] = client[d] /\ link'[d] = link[d] /\ outbox'[d] = outbox[d] /\ inbox'[d] = inbox[d]
    BY <1>1, <1>3 DEF Types
  <2> QED
    BY <1>2, <1>3, <2>1, OtherClient DEF IInv
<1> QED
  BY <1>5, <1>6, <1>9, <1>10 DEF IInv

-----------------------------------------------------------------------------
(* Clients begin, and send.                                                 *)

LEMMA ConnectKeeps ==
  ASSUME IInv, NEW c \in Client, Connect(c), owed' = owed
  PROVE  IInv'
<1> DEFINE me == [Off EXCEPT !.mode = "prompt"]
<1>1. /\ client[c].mode = "off" /\ link[c] = "none" /\ running
      /\ client' = [client EXCEPT ![c] = me] /\ link' = [link EXCEPT ![c] = "open"]
      /\ UNCHANGED <<engineVars, logged, inbox, outbox, serving, left, stops>>
  BY DEF Connect
<1>2. kept' = kept /\ visible' = visible /\ writing' = writing /\ running' = running /\ damaged' = damaged
  BY <1>1 DEF engineVars
<1>3. Types /\ Busy /\ Holds /\ ClientInv(c)
  BY DEF IInv
<1>4. me.asked = <<>> /\ me.sent = 0 /\ me.exact /\ me.mode = "prompt"
  BY DEF Off
<1>5. Types'
  <2>1. me \in [mode : {"off", "prompt", "waiting", "failed"}, sent : Nat,
                asked : Seq(Request), exact : BOOLEAN]
    BY EmptySeq DEF Off
  <2> QED
    BY <1>1, <1>2, <1>3, <2>1 DEF Types
<1>6. Busy' /\ Holds'
  BY <1>1, <1>2, <1>3 DEF Busy, Holds
<1> HIDE DEF me
<1>7. client'[c] = me /\ link'[c] = "open" /\ inbox'[c] = <<>> /\ outbox'[c] = <<>>
  BY <1>1, <1>3 DEF Types, ClientInv, Connected
<1>8. ClientInv(c)'
  <2>1. Connected(c)'
    BY <1>1, <1>2, <1>4, <1>7 DEF Connected
  <2>2. InOrder(c)'
    BY <1>4, <1>7 DEF InOrder
  <2>3. Matching(c)' /\ Truthful(c)'
    BY <1>4, <1>7 DEF Matching, Truthful
  <2>4. Kind[c] = "bench" => Scripted(c)'
    <3>1. Kind[c] = "bench" => Len(Script(c)) \in Nat /\ Len(Keys[c]) \in Nat
      BY ScriptPhases, LenProperties
    <3>2. \A n \in Nat : \A j \in 1 .. n : ~ (n + j <= 0 - 0)
      OBVIOUS
    <3> QED
      BY <1>4, <1>7, <3>1, <3>2 DEF Scripted
  <2> QED
    BY <2>1, <2>2, <2>3, <2>4 DEF ClientInv
<1>9. ASSUME NEW d \in Client \ {c}
      PROVE  ClientInv(d)'
  <2>1. client'[d] = client[d] /\ link'[d] = link[d] /\ outbox'[d] = outbox[d] /\ inbox'[d] = inbox[d]
    BY <1>1, <1>3 DEF Types
  <2> QED
    BY <1>2, <1>3, <2>1, OtherClient DEF IInv
<1> QED
  BY <1>5, <1>6, <1>8, <1>9 DEF IInv

\* What clients send is what they may send.
LEMMA BatchesIn ==
  ASSUME Types, NEW c \in Client, ClientInv(c), NEW batch \in Batches(c)
  PROVE  /\ batch \in Seq(Request) /\ Len(batch) \in Nat
         /\ \A i \in 1 .. Len(batch) : batch[i] \in Sendable(c)
         /\ Kind[c] = "shell" => Len(batch) = 1
         /\ Kind[c] = "bench" =>
              LET s == client[c].sent IN
              /\ batch # <<>> /\ s + Len(batch) <= Len(Script(c))
              /\ \A i \in 1 .. Len(batch) : batch[i] = Script(c)[s + i]
              /\ \A i, j \in 1 .. Len(batch) : Head(batch[i]) = Head(batch[j])
<1>1. client[c].sent \in Nat
  BY DEF Types
<1>2. CASE Kind[c] = "bench"
  <2>1. batch \in NextBatch(c, client[c].sent)
    BY <1>2 DEF Batches
  <2>2. /\ batch \in Seq(Range(Script(c))) /\ Len(batch) \in Nat \ {0}
        /\ client[c].sent + Len(batch) <= Len(Script(c))
        /\ \A i \in 1 .. Len(batch) : batch[i] = Script(c)[client[c].sent + i]
        /\ \A i, j \in 1 .. Len(batch) : Head(batch[i]) = Head(batch[j])
    BY <1>1, <1>2, <2>1, NextBatchIn
  <2>3. Sendable(c) = Range(Script(c)) /\ Sendable(c) \subseteq Request
    BY <1>2 DEF Sendable, Request
  <2>4. batch \in Seq(Request) /\ \A i \in 1 .. Len(batch) : batch[i] \in Sendable(c)
    <3>1. \A i \in 1 .. Len(batch) : batch[i] \in Range(Script(c))
      BY <2>2, ElementOfSeq
    <3>2. batch \in [1 .. Len(batch) -> Request]
      BY <2>2, <2>3, <3>1, LenProperties
    <3> QED
      BY <2>2, <2>3, <3>1, <3>2, FunSeq
  <2>5. batch # <<>>
    BY <2>2, EmptySeq
  <2> QED
    BY <1>2, <2>2, <2>4, <2>5
<1>3. CASE Kind[c] # "bench"
  <2>1. batch \in Typed[c]
    BY <1>3 DEF Batches
  <2>2. batch \in Seq(Range(batch)) /\ (Kind[c] = "shell" => Len(batch) = 1)
    BY <1>3, <2>1, UsersAssumption
  <2>3. Range(batch) \subseteq Sendable(c) /\ Sendable(c) \subseteq Request
    BY <1>3, <2>1 DEF Sendable, Request
  <2>4. Len(batch) \in Nat /\ \A i \in 1 .. Len(batch) : batch[i] \in Range(batch)
    BY <2>2, LenProperties, ElementOfSeq
  <2>5. batch \in Seq(Request)
    <3>1. batch \in [1 .. Len(batch) -> Request]
      BY <2>2, <2>3, <2>4, LenProperties
    <3> QED
      BY <2>4, <3>1, FunSeq
  <2> QED
    BY <1>3, <2>2, <2>3, <2>4, <2>5
<1> QED
  BY <1>2, <1>3

\* What is sent is owed from then on.
LEMMA WrittenIn ==
  ASSUME NEW c \in Client, NEW batch, NEW i \in 1 .. Len(batch), batch[i] \in Sendable(c),
         batch[i] # Junk, IsWrite(batch[i])
  PROVE  Entry(batch[i])[2] \in Written(batch, Entry(batch[i])[1])
<1>1. Entry(batch[i]) \in Key \X Held
  BY SentIsProper
<1>2. Entry(batch[i]) = <<Entry(batch[i])[1], Entry(batch[i])[2]>> /\ Entry(batch[i])[2] \in Held
  BY <1>1
<1> QED
  BY <1>2 DEF Written

LEMMA SubmitInOrder ==
  ASSUME Types, NEW c \in Client, ClientInv(c), client[c].mode = "prompt", NEW batch \in Batches(c),
         client'[c] = [client[c] EXCEPT !.mode = "waiting", !.asked = batch,
                                        !.sent = client[c].sent + Len(batch)],
         inbox'[c] = (IF link[c] = "closed" THEN inbox[c]
                      ELSE inbox[c] \o [i \in 1 .. Len(batch) |->
                                          [id |-> client[c].sent + i, request |-> batch[i]]]),
         link' = link, outbox' = outbox, running' = running, visible' = visible,
         owed' = [k \in Key |-> owed[k] \union Written(client'[c].asked, k)]
  PROVE  /\ inbox'[c] \in Seq(Message) /\ Connected(c)' /\ InOrder(c)'
         /\ client[c].exact => Matching(c)' /\ Truthful(c)'
         /\ Kind[c] = "bench" => Scripted(c)'
<1> DEFINE s == client[c].sent
           b == Len(batch)
           q == inbox[c]    n == Len(q)
           o == outbox[c]   m == Len(o)
           new == [i \in 1 .. b |-> [id |-> s + i, request |-> batch[i]]]
<1>1. /\ s \in Nat /\ n \in Nat /\ m \in Nat /\ q \in Seq(Message) /\ o \in Seq(Line)
  BY LenProperties DEF Types
<1>2. /\ batch \in Seq(Request) /\ b \in Nat /\ \A i \in 1 .. b : batch[i] \in Sendable(c)
      /\ Kind[c] = "shell" => b = 1
      /\ Kind[c] = "bench" =>
           /\ batch # <<>> /\ s + b <= Len(Script(c))
           /\ \A i \in 1 .. b : batch[i] = Script(c)[s + i]
           /\ \A i, j \in 1 .. b : Head(batch[i]) = Head(batch[j])
  BY BatchesIn
<1>3. /\ client'[c].mode = "waiting" /\ client'[c].asked = batch /\ client'[c].sent = s + b
      /\ client'[c].exact = client[c].exact
  BY DEF Types
<1>4. /\ link[c] \in {"open", "quitting", "closed"} /\ client[c].asked = <<>>
      /\ link[c] = "closed" => q = <<>>
      /\ link[c] # "closed" => running
  BY DEF Types, ClientInv, Connected
<1>5. new \in Seq(Message) /\ Len(new) = b
  <2>1. \A i \in 1 .. b : batch[i] \in Request
    BY <1>2, ElementOfSeq
  <2>2. new \in [1 .. b -> Message]
    BY <1>1, <1>2, <2>1 DEF Message
  <2> HIDE DEF new, b
  <2> QED
    BY <1>2, <2>2, FunSeq
<1>6. \A i \in 1 .. b : new[i].id = s + i /\ new[i].request = batch[i]
  OBVIOUS
<1>7. link[c] # "closed" => inbox'[c] = q \o new
  OBVIOUS
<1>8. link[c] = "closed" => inbox'[c] = q
  OBVIOUS
<1> HIDE DEF new
<1>9. link[c] # "closed" =>
        /\ inbox'[c] \in Seq(Message) /\ Len(inbox'[c]) = n + b
        /\ \A i \in 1 .. n : inbox'[c][i] = q[i]
        /\ \A i \in n + 1 .. n + b : inbox'[c][i] = new[i - n]
  <2> SUFFICES ASSUME link[c] # "closed"
               PROVE  /\ inbox'[c] \in Seq(Message) /\ Len(inbox'[c]) = n + b
                      /\ \A i \in 1 .. n : inbox'[c][i] = q[i]
                      /\ \A i \in n + 1 .. n + b : inbox'[c][i] = new[i - n]
    OBVIOUS
  <2>1. inbox'[c] = q \o new
    BY <1>7
  <2>2. /\ q \o new \in Seq(Message) /\ Len(q \o new) = n + Len(new)
        /\ \A i \in 1 .. n : (q \o new)[i] = q[i]
        /\ \A i \in n + 1 .. n + Len(new) : (q \o new)[i] = new[i - n]
    <3>1. q \in Seq(Message) /\ new \in Seq(Message)
      BY <1>1, <1>5
    <3> HIDE DEF q
    <3> QED
      BY <3>1, ConcatAt
  <2> QED
    BY <1>5, <2>1, <2>2
<1> HIDE DEF s, b, n, m, q, o
<1>10. inbox'[c] \in Seq(Message)
  BY <1>1, <1>8, <1>9
<1>11. \A k \in Key : owed[k] \subseteq owed'[k] /\ Written(batch, k) \subseteq owed'[k]
  BY <1>3
<1>12. \A i \in 1 .. b : batch[i] # Junk /\ IsWrite(batch[i]) =>
         Entry(batch[i])[2] \in owed'[Entry(batch[i])[1]]
  <2>1. ASSUME NEW i \in 1 .. b, batch[i] # Junk, IsWrite(batch[i])
        PROVE  Entry(batch[i])[2] \in owed'[Entry(batch[i])[1]]
    <3>1. batch[i] \in Sendable(c)
      BY <1>2
    <3>2. Entry(batch[i])[1] \in Key
      BY <2>1, <3>1, SentIsProper
    <3>3. Entry(batch[i])[2] \in Written(batch, Entry(batch[i])[1])
      BY <2>1, <3>1, WrittenIn DEF b
    <3> QED
      BY <1>11, <3>2, <3>3
  <2> QED
    BY <2>1
<1>13. Connected(c)'
  <2>1. b <= s + b
    BY <1>1, <1>2
  <2>2. Kind[c] = "shell" => b <= 1
    BY <1>2
  <2> QED
    BY <1>2, <1>3, <1>4, <1>8, <2>1, <2>2 DEF Connected, b, q
<1>14. ASSUME link[c] \in {"open", "quitting"}
       PROVE  /\ n <= s /\ \A i \in 1 .. n : q[i].id = s - n + i
  BY <1>14 DEF ClientInv, InOrder, q, n, s
<1>15. ASSUME NEW i \in 1 .. n
       PROVE  LET request == q[i].request
              IN /\ request \in Sendable(c)
                 /\ request # Junk /\ IsWrite(request) => Entry(request)[2] \in owed'[Entry(request)[1]]
  <2>1. LET request == q[i].request
        IN /\ request \in Sendable(c)
           /\ request # Junk /\ IsWrite(request) => Entry(request)[2] \in owed[Entry(request)[1]]
    BY <1>15 DEF ClientInv, InOrder, q, n
  <2>2. q[i].request # Junk /\ IsWrite(q[i].request) => Entry(q[i].request)[1] \in Key
    BY <2>1, SentIsProper
  <2> QED
    BY <1>11, <2>1, <2>2
<1>16. InOrder(c)'
  <2>1. CASE link[c] = "closed"
    <3>1. inbox'[c] = <<>> /\ link'[c] = "closed" /\ n = 0
      BY <1>4, <1>8, <2>1 DEF n
    <3>2. /\ \A i \in 1 .. m : o[i].of \in 1 .. s - n
          /\ \A i, j \in 1 .. m : i <= j => o[i].of <= o[j].of
      BY DEF ClientInv, InOrder, q, n, s, o, m
    <3>3. \A x \in 1 .. s - n : x \in 1 .. (s + b) - 0
      BY <1>1, <1>2, <3>1
    <3> QED
      BY <1>3, <3>1, <3>2, <3>3 DEF InOrder, o, m
  <2>2. CASE link[c] # "closed"
    <3>1. n <= s /\ \A i \in 1 .. n : q[i].id = s - n + i
      BY <1>4, <1>14, <2>2
    <3>2. \A i \in 1 .. n + b : i \in 1 .. n \/ (i \in n + 1 .. n + b /\ i - n \in 1 .. b)
      BY <1>1, <1>2
    <3>3. n + b <= s + b
      BY <1>1, <1>2, <3>1
    <3>4. ASSUME NEW i \in 1 .. n + b
          PROVE  LET request == inbox'[c][i].request
                 IN /\ inbox'[c][i].id = (s + b) - (n + b) + i
                    /\ request \in Sendable(c)
                    /\ request # Junk /\ IsWrite(request)
                         => Entry(request)[2] \in owed'[Entry(request)[1]]
      <4>1. CASE i \in 1 .. n
        <5>1. inbox'[c][i] = q[i] /\ q[i].id = s - n + i
          BY <1>9, <2>2, <3>1, <4>1
        <5>2. s - n + i = (s + b) - (n + b) + i
          BY <1>1, <1>2
        <5> QED
          BY <1>15, <4>1, <5>1, <5>2
      <4>2. CASE i \in n + 1 .. n + b /\ i - n \in 1 .. b
        <5>1. inbox'[c][i] = new[i - n]
          BY <1>9, <2>2, <4>2
        <5>2. s + (i - n) = (s + b) - (n + b) + i
          BY <1>1, <1>2
        <5>3. inbox'[c][i].id = s + (i - n) /\ inbox'[c][i].request = batch[i - n]
          BY <1>6, <4>2, <5>1
        <5> QED
          BY <1>2, <1>12, <4>2, <5>2, <5>3
      <4> QED
        BY <3>2, <4>1, <4>2
    <3>5. /\ \A i \in 1 .. m : o[i].of \in 1 .. s - n
          /\ \A i, j \in 1 .. m : i <= j => o[i].of <= o[j].of
      BY DEF ClientInv, InOrder, q, n, s, o, m
    <3>6. (s + b) - (n + b) = s - n
      BY <1>1, <1>2
    <3> QED
      BY <1>3, <1>9, <2>2, <3>3, <3>4, <3>5, <3>6 DEF InOrder, o, m
  <2> QED
    BY <2>1, <2>2
<1>17. ASSUME client[c].exact
       PROVE  o = <<>> /\ (link[c] # "closed" => n = 0)
  <2>1. Len(client[c].asked) = 0 /\ Settled(c) = s
    BY <1>1, <1>4 DEF Settled, s
  <2>2. /\ \A i \in 1 .. m : o[i].of > s
        /\ link[c] # "closed" => n <= 0
    BY <1>4, <1>17, <2>1 DEF ClientInv, Matching, m, o, n, q
  <2>3. \A i \in 1 .. m : o[i].of \in 1 .. s - n
    BY DEF ClientInv, InOrder, q, n, s, o, m
  <2>4. m = 0
    <3>1. \A x \in 1 .. s - n : ~ (x > s)
      BY <1>1
    <3>2. 1 \notin 1 .. m
      BY <2>2, <2>3, <3>1
    <3> QED
      BY <1>1, <3>2
  <2> QED
    BY <1>1, <2>2, <2>4, EmptySeq DEF m
<1>18. ASSUME client[c].exact
       PROVE  Matching(c)' /\ Truthful(c)'
  <2>1. outbox'[c] = <<>> /\ Len(outbox'[c]) = 0
    BY <1>17, <1>18 DEF o
  <2>2. link[c] # "closed" => /\ Len(inbox'[c]) = b
                              /\ \A i \in 1 .. b : inbox'[c][i].request = batch[b - b + i]
    <3> SUFFICES ASSUME link[c] # "closed"
                 PROVE  /\ Len(inbox'[c]) = b
                        /\ \A i \in 1 .. b : inbox'[c][i].request = batch[b - b + i]
      OBVIOUS
    <3>1. n = 0
      BY <1>17, <1>18
    <3>2. Len(inbox'[c]) = b
      BY <1>2, <1>9, <3>1
    <3>3. \A i \in 1 .. b : i \in n + 1 .. n + b /\ i - n = i /\ b - b + i = i
      BY <1>2, <3>1
    <3>4. ASSUME NEW i \in 1 .. b
          PROVE  inbox'[c][i].request = batch[b - b + i]
      <4>1. i \in n + 1 .. n + b /\ i - n = i /\ b - b + i = i
        BY <3>3
      <4>2. inbox'[c][i] = new[i]
        BY <1>9, <4>1
      <4>3. new[i].request = batch[i]
        BY <1>6
      <4> QED
        BY <4>1, <4>2, <4>3
    <3> QED
      BY <3>2, <3>4
  <2>3. \A x : ~ (x \in 1 .. 0)
    OBVIOUS
  <2>4. link'[c] \in {"open", "quitting"} => link[c] # "closed"
    BY <1>4
  <2>5. Matching(c)'
    BY <1>2, <1>3, <2>1, <2>2, <2>3, <2>4 DEF Matching, b
  <2>6. b - b = 0
    BY <1>2
  <2>7. Truthful(c)'
    BY <1>3, <2>1, <2>2, <2>3, <2>4, <2>6 DEF Truthful, b
  <2> QED
    BY <2>5, <2>7
<1>19. ASSUME Kind[c] = "bench"
       PROVE  Scripted(c)'
  <2>1. Scripted(c)
    BY <1>19 DEF ClientInv
  <2>2. client[c].exact /\ client'[c].exact
    BY <1>3, <2>1 DEF Scripted
  <2>3. outbox'[c] = <<>> /\ Len(outbox'[c]) = 0
    BY <1>17, <2>2 DEF o
  <2>4. Settled(c)' = s
    <3>1. (s + b) - b = s
      BY <1>1, <1>2
    <3> QED
      BY <1>3, <3>1 DEF Settled, b
  <2>5. link[c] # "closed" => client'[c].sent - Len(inbox'[c]) = s - n
    <3>1. n = 0 => (s + b) - (n + b) = s - n
      BY <1>1, <1>2
    <3> QED
      BY <1>3, <1>9, <1>17, <2>2, <3>1
  <2> QED
    <3>1. /\ client'[c].exact /\ client'[c].sent <= Len(Script(c)) /\ client'[c].mode # "failed"
          /\ client'[c].asked # <<>>
          /\ \A i \in 1 .. Len(client'[c].asked) : client'[c].asked[i] = Script(c)[s + i]
          /\ \A i, j \in 1 .. Len(client'[c].asked) :
               Head(client'[c].asked[i]) = Head(client'[c].asked[j])
      BY <1>2, <1>3, <1>19, <2>2 DEF b
    <3>2. link[c] # "closed" =>
            \A j \in 1 .. Len(Keys[c]) :
              Len(Keys[c]) + j <= s - n /\ s - n < 4 * Len(Keys[c]) + j => visible[Keys[c][j]] # Absent
      BY <1>4, <2>1 DEF Scripted, s, n, q
    <3>3. visible' = visible
      OBVIOUS
    <3>4. link'[c] \in {"open", "quitting"} =>
            LET k == Len(Keys[c]) done == client'[c].sent - Len(inbox'[c])
            IN \A j \in 1 .. k : k + j <= done /\ done < 4 * k + j => visible'[Keys[c][j]] # Absent
      BY <2>5, <3>2, <3>3
    <3>5. \A i \in 1 .. Len(outbox'[c]) : FALSE
      BY <2>3
    <3> QED
      BY <2>4, <3>1, <3>4, <3>5 DEF Scripted
<1> QED
  BY <1>10, <1>13, <1>16, <1>18, <1>19

LEMMA SubmitKeeps ==
  ASSUME IInv, NEW c \in Client, Submit(c),
         owed' = [k \in Key |-> owed[k] \union Written(client'[c].asked, k)]
  PROVE  IInv'
<1> DEFINE After(batch) == [client[c] EXCEPT !.mode = "waiting", !.asked = batch,
                                             !.sent = client[c].sent + Len(batch)]
           Queue(batch) == inbox[c] \o [i \in 1 .. Len(batch) |->
                                          [id |-> client[c].sent + i, request |-> batch[i]]]
<1>1. Types /\ Busy /\ Holds /\ ClientInv(c)
  BY DEF IInv
<1>2. /\ client[c].mode = "prompt" /\ left[c] > 0 /\ left' = [left EXCEPT ![c] = @ - 1]
      /\ UNCHANGED <<engineVars, logged, link, outbox, serving, stops>>
  BY DEF Submit
<1>3. kept' = kept /\ visible' = visible /\ writing' = writing /\ running' = running /\ damaged' = damaged
  BY <1>2 DEF engineVars
<1>4. PICK batch \in Batches(c) :
        /\ client' = [client EXCEPT ![c].mode = "waiting", ![c].asked = batch,
                                    ![c].sent = @ + Len(batch)]
        /\ inbox' = IF link[c] = "closed" THEN inbox ELSE [inbox EXCEPT ![c] = Queue(batch)]
  BY DEF Submit
<1>5. client' = [client EXCEPT ![c] = After(batch)]
  BY <1>1, <1>4 DEF Types
<1>6. /\ batch \in Seq(Request) /\ Len(batch) \in Nat
  BY <1>1, BatchesIn
<1>7. /\ client' \in [Client -> [mode : {"off", "prompt", "waiting", "failed"}, sent : Nat,
                                 asked : Seq(Request), exact : BOOLEAN]]
      /\ client'[c] = After(batch) /\ \A d \in Client \ {c} : client'[d] = client[d]
  <2>1. After(batch) \in [mode : {"off", "prompt", "waiting", "failed"}, sent : Nat,
                          asked : Seq(Request), exact : BOOLEAN]
    <3>1. client[c] \in [mode : {"off", "prompt", "waiting", "failed"}, sent : Nat,
                         asked : Seq(Request), exact : BOOLEAN]
      BY <1>1 DEF Types
    <3>2. client[c].sent + Len(batch) \in Nat
      BY <1>6, <3>1
    <3> QED
      BY <1>6, <3>1, <3>2
  <2> HIDE DEF After
  <2> QED
    BY <1>1, <1>5, <2>1 DEF Types
<1>8. /\ inbox'[c] = (IF link[c] = "closed" THEN inbox[c] ELSE Queue(batch))
      /\ \A d \in Client \ {c} : inbox'[d] = inbox[d]
      /\ inbox' = [inbox EXCEPT ![c] = inbox'[c]]
  <2> HIDE DEF Queue
  <2>1. inbox \in [Client -> Seq(Message)]
    BY <1>1 DEF Types
  <2> QED
    BY <1>4, <2>1
<1>9. /\ inbox'[c] \in Seq(Message) /\ Connected(c)' /\ InOrder(c)'
      /\ client[c].exact => Matching(c)' /\ Truthful(c)'
      /\ Kind[c] = "bench" => Scripted(c)'
  BY <1>1, <1>2, <1>3, <1>7, <1>8, SubmitInOrder
<1>10. ClientInv(c)'
  <2>1. client'[c].exact = client[c].exact
    BY <1>1, <1>7 DEF Types
  <2> QED
    BY <1>9, <2>1 DEF ClientInv
<1> HIDE DEF After, Queue
<1>11. \A k \in Key : owed[k] \subseteq owed'[k] /\ owed'[k] \subseteq Held
  BY <1>1 DEF Types, Written
<1>12. Types'
  <2>1. inbox' \in [Client -> Seq(Message)]
    BY <1>1, <1>8, <1>9 DEF Types
  <2>2. left' \in [Client -> Nat]
    BY <1>1, <1>2 DEF Types
  <2>3. owed' \in [Key -> SUBSET Held]
    BY <1>11
  <2> QED
    BY <1>1, <1>2, <1>3, <1>7, <2>1, <2>2, <2>3 DEF Types
<1>13. Busy'
  <2>1. CASE serving = c
    <3>1. /\ inbox[c] # <<>> /\ Len(inbox[c]) \in Nat \ {0} /\ link[c] # "closed"
      BY <1>1, <2>1, SessionsAssumption, EmptySeq, LenProperties DEF Busy, Types, ClientInv, Connected
    <3>2. inbox'[c] = Queue(batch) /\ Head(Queue(batch)) = Head(inbox[c]) /\ Queue(batch) # <<>>
      <4> DEFINE q == inbox[c]
                 new == [i \in 1 .. Len(batch) |-> [id |-> client[c].sent + i, request |-> batch[i]]]
      <4>1. q \in Seq(Message) /\ new \in Seq([id : Nat, request : Request])
        <5>1. \A i \in 1 .. Len(batch) : batch[i] \in Request
          BY <1>6, ElementOfSeq
        <5>2. new \in [1 .. Len(batch) -> [id : Nat, request : Request]]
          BY <1>1, <1>6, <5>1 DEF Types
        <5> HIDE DEF new
        <5> QED
          BY <1>1, <1>6, <5>2, FunSeq DEF Types
      <4>2. Queue(batch) = q \o new
        BY DEF Queue
      <4>3. inbox'[c] = Queue(batch)
        BY <1>8, <3>1
      <4> HIDE DEF new, q
      <4>4. /\ q \o new \in Seq(Message) /\ Len(q \o new) = Len(q) + Len(new)
            /\ Len(q) \in Nat /\ Len(new) \in Nat
            /\ \A i \in 1 .. Len(q) : (q \o new)[i] = q[i]
        <5>1. Message = [id : Nat, request : Request]
          BY DEF Message
        <5> QED
          BY <4>1, <5>1, ConcatAt
      <4>5. Len(q) \in Nat \ {0}
        BY <3>1 DEF q
      <4>6. 1 \in 1 .. Len(q) /\ Len(q \o new) # 0
        BY <4>4, <4>5
      <4>7. q \o new # <<>> /\ q # <<>>
        BY <4>5, <4>6, EmptySeq
      <4>8. Head(q \o new) = (q \o new)[1] /\ Head(q) = q[1]
        BY <4>1, <4>4, <4>7, HeadTailProperties
      <4>9. Head(q \o new) = Head(q)
        BY <4>4, <4>6, <4>8
      <4> QED
        BY <4>2, <4>3, <4>7, <4>9 DEF q
    <3> QED
      BY <1>1, <1>2, <1>3, <2>1, <3>2 DEF Busy
  <2>2. CASE serving # c
    <3>1. serving # Nobody => inbox'[serving] = inbox[serving]
      BY <1>1, <1>8, <2>2 DEF Types
    <3> QED
      BY <1>1, <1>2, <1>3, <3>1 DEF Busy
  <2> QED
    BY <2>1, <2>2
<1>14. Holds'
  BY <1>1, <1>2, <1>3, <1>11 DEF Holds
<1>15. ASSUME NEW d \in Client \ {c}
       PROVE  ClientInv(d)'
  <2>1. ClientInv(d)
    BY DEF IInv
  <2>2. client'[d] = client[d] /\ link'[d] = link[d] /\ outbox'[d] = outbox[d] /\ inbox'[d] = inbox[d]
    BY <1>2, <1>7, <1>8
  <2> QED
    BY <1>1, <1>3, <1>11, <2>1, <2>2, OtherClient
<1> QED
  BY <1>10, <1>12, <1>13, <1>14, <1>15 DEF IInv

-----------------------------------------------------------------------------
(* The server works on a request.                                           *)

\* The next request of a benchmark client is the next of its script, and what it
\* reads or removes is there.
LEMMA BenchNext ==
  ASSUME Types, NEW c \in Client, ClientInv(c), Kind[c] = "bench", link[c] \in {"open", "quitting"},
         inbox[c] # <<>>
  PROVE  LET now == client[c].sent - Len(inbox[c]) + 1
             n   == Len(Keys[c])
         IN /\ now \in 1 .. Len(Script(c)) /\ Head(inbox[c]).request = Script(c)[now]
            /\ 2 * n < now /\ now <= 3 * n => visible[Keys[c][now - 2 * n]] # Absent
            /\ 4 * n < now /\ now <= 5 * n => visible[Keys[c][now - 4 * n]] # Absent
<1> DEFINE s == client[c].sent
           k == Len(client[c].asked)
           q == Len(inbox[c])
           n == Len(Keys[c])
           now == s - q + 1
<1>1. /\ s \in Nat /\ k \in Nat /\ q \in Nat \ {0} /\ Head(inbox[c]) = inbox[c][1]
  <2>1. inbox[c] \in Seq(Message) /\ client[c].asked \in Seq(Request) /\ s \in Nat
    BY DEF Types
  <2> QED
    BY <2>1, LenProperties, EmptySeq, HeadTailProperties
<1>2. Scripted(c) /\ Matching(c)
  BY DEF ClientInv, Scripted
<1>3. q <= k /\ \A i \in 1 .. q : inbox[c][i].request = client[c].asked[k - q + i]
  BY <1>2 DEF Matching
<1>4. k <= s /\ s <= Len(Script(c))
  BY <1>2 DEF ClientInv, Connected, Scripted
<1>5. Len(Script(c)) \in Nat /\ n \in Nat \ {0}
  BY ScriptPhases, LenProperties
<1>6. \A i \in 1 .. k : client[c].asked[i] = Script(c)[s - k + i]
  BY <1>2 DEF Scripted, Settled
<1>7. \A j \in 1 .. n : n + j <= s - q /\ s - q < 4 * n + j => visible[Keys[c][j]] # Absent
  BY <1>2 DEF Scripted
<1> HIDE DEF s, k, q, n
<1>8. /\ 1 \in 1 .. q /\ k - q + 1 \in 1 .. k /\ s - k + (k - q + 1) = now
      /\ now \in 1 .. Len(Script(c))
  BY <1>1, <1>3, <1>4, <1>5
<1>9. Head(inbox[c]).request = Script(c)[now]
  <2>1. inbox[c][1].request = client[c].asked[k - q + 1]
    BY <1>3, <1>8
  <2>2. client[c].asked[k - q + 1] = Script(c)[s - k + (k - q + 1)]
    BY <1>6, <1>8
  <2> QED
    BY <1>1, <1>8, <2>1, <2>2
<1>10. ASSUME 2 * n < now, now <= 3 * n
       PROVE  visible[Keys[c][now - 2 * n]] # Absent
  <2>1. now - 2 * n \in 1 .. n /\ n + (now - 2 * n) <= s - q /\ s - q < 4 * n + (now - 2 * n)
    BY <1>1, <1>5, <1>10
  <2> QED
    BY <1>7, <2>1
<1>11. ASSUME 4 * n < now, now <= 5 * n
       PROVE  visible[Keys[c][now - 4 * n]] # Absent
  <2>1. now - 4 * n \in 1 .. n /\ n + (now - 4 * n) <= s - q /\ s - q < 4 * n + (now - 4 * n)
    BY <1>1, <1>5, <1>11
  <2> QED
    BY <1>7, <2>1
<1> QED
  BY <1>8, <1>9, <1>10, <1>11 DEF s, q, n

\* What is known of the request at the head of an inbox.
LEMMA HeadRequest ==
  ASSUME Types, NEW c \in Client, ClientInv(c), inbox[c] # <<>>, Head(inbox[c]).request # Junk
  PROVE  LET request == Head(inbox[c]).request IN
         /\ request \in Sendable(c) /\ link[c] \in {"open", "quitting", "gone"} /\ running
         /\ IsWrite(request) => /\ Entry(request) \in Key \X Held
                                /\ Owner[Entry(request)[1]] = c
                                /\ Entry(request)[2] \in MayHold(Entry(request)[1])
                                /\ Entry(request)[2] \in owed[Entry(request)[1]]
<1>1. inbox[c] \in Seq(Message)
  BY DEF Types
<1>2. Head(inbox[c]) = inbox[c][1] /\ 1 \in 1 .. Len(inbox[c])
  <2>1. Len(inbox[c]) \in Nat /\ Len(inbox[c]) # 0 /\ Head(inbox[c]) = inbox[c][1]
    BY <1>1, LenProperties, EmptySeq, HeadTailProperties
  <2> QED
    BY <2>1
<1>3. link[c] \in {"open", "quitting", "gone"} /\ running
  BY DEF Types, ClientInv, Connected
<1>4. LET request == Head(inbox[c]).request IN
      /\ request \in Sendable(c)
      /\ IsWrite(request) => Entry(request)[2] \in owed[Entry(request)[1]]
  BY <1>2 DEF ClientInv, InOrder
<1> QED
  BY <1>3, <1>4, SentIsProper

\* An answer at once.
LEMMA ReplyIsAnswer ==
  ASSUME IInv, NEW c \in Client, inbox[c] # <<>>, Head(inbox[c]).request # Junk,
         NEW answer \in Reply(Head(inbox[c]).request), Answers(c, answer),
         UNCHANGED <<engineVars, client, owed>>
  PROVE  Answered(c, answer)
<1> DEFINE request == Head(inbox[c]).request
<1>1. Types /\ Holds /\ ClientInv(c)
  BY DEF IInv
<1>2. request \in Sendable(c) /\ link[c] \in {"open", "quitting", "gone"} /\ running
  BY <1>1, HeadRequest
<1>3. visible \in [Key -> Held] /\ visible' = visible /\ running' = running
  BY <1>1 DEF Types, engineVars
<1>4. answer \in Seq(Text) /\ Len(answer) \in Nat \ {0} /\ ~ IsWrite(request)
  BY <1>2, <1>3, ReplyIn
<1>5. ASSUME NEW k \in Key, request = <<"GET", k>>
      PROVE  Shown(answer[1]) \in owed[k]
  <2>1. visible[k] \in owed[k]
    BY <1>1, <1>2 DEF Holds
  <2> QED
    BY <1>3, <1>5, <2>1, GetReply
<1>6. ASSUME Kind[c] = "bench", link[c] # "gone"
      PROVE  Len(answer) = 1 /\ answer[1][1] \in Expected(request)
  <2> DEFINE now == client[c].sent - Len(inbox[c]) + 1
  <2>1. /\ now \in 1 .. Len(Script(c)) /\ request = Script(c)[now]
        /\ LET n == Len(Keys[c])
           IN 2 * n < now /\ now <= 3 * n => visible[Keys[c][now - 2 * n]] # Absent
    BY <1>1, <1>2, <1>6, BenchNext
  <2>2. \A k \in Key : visible[k] \in MayHold(k)
    BY <1>1 DEF Holds
  <2> HIDE DEF now
  <2>3. answer \in Reply(Script(c)[now])
    BY <2>1
  <2> QED
    BY <1>3, <1>6, <2>1, <2>2, <2>3, BenchReply
<1> QED
  BY <1>2, <1>3, <1>4, <1>5, <1>6 DEF Answered

\* The answer to a write, when the index has it.
LEMMA OutcomeIsAnswer ==
  ASSUME IInv, NEW c \in Client, inbox[c] # <<>>, Head(inbox[c]).request # Junk,
         IsWrite(Head(inbox[c]).request), Answers(c, Outcome(Entry(Head(inbox[c]).request))),
         visible' = [visible EXCEPT ![Entry(Head(inbox[c]).request)[1]]
                                      = Entry(Head(inbox[c]).request)[2]],
         running' = running, UNCHANGED <<client, owed>>
  PROVE  Answered(c, Outcome(Entry(Head(inbox[c]).request)))
<1> DEFINE request == Head(inbox[c]).request
           answer  == Outcome(Entry(request))
<1>1. Types /\ Holds /\ ClientInv(c)
  BY DEF IInv
<1>2. request \in Sendable(c) /\ link[c] \in {"open", "quitting", "gone"} /\ running
  BY <1>1, HeadRequest
<1>3. answer \in Seq(Text) /\ Len(answer) = 1
  BY OutcomeIn
<1>4. \A k \in Key : request # <<"GET", k>>
  <2>1. \A k \in Key : Command(<<"GET", k>>) = "GET"
    <3>1. \A k \in Key : <<"GET", k>> # <<>> /\ Head(<<"GET", k>>) = "GET"
      OBVIOUS
    <3> QED
      BY <3>1 DEF Command, Upper
  <2>2. Command(request) \in {"PUT", "DEL"}
    BY DEF IsWrite, Is
  <2> QED
    BY <2>1, <2>2
<1>5. ASSUME Kind[c] = "bench", link[c] # "gone"
      PROVE  Len(answer) = 1 /\ answer[1][1] \in Expected(request)
  <2> DEFINE now == client[c].sent - Len(inbox[c]) + 1
  <2>1. /\ now \in 1 .. Len(Script(c)) /\ request = Script(c)[now]
        /\ LET n == Len(Keys[c])
           IN 4 * n < now /\ now <= 5 * n => visible[Keys[c][now - 4 * n]] # Absent
    BY <1>1, <1>2, <1>5, BenchNext
  <2> HIDE DEF now
  <2>2. IsWrite(Script(c)[now])
    BY <2>1
  <2>3. Len(Outcome(Entry(Script(c)[now]))) = 1 /\ Outcome(Entry(Script(c)[now]))[1][1] \in Expected(Script(c)[now])
    BY <1>5, <2>1, <2>2, BenchOutcome
  <2> QED
    BY <2>1, <2>3
<1>6. Len(answer) \in Nat \ {0}
  BY <1>3
<1> QED
  BY <1>2, <1>3, <1>4, <1>5, <1>6 DEF Answered

\* What the engine does while no answer is given leaves the clients alone.
LEMMA NothingMoves ==
  ASSUME IInv, UNCHANGED <<client, link, inbox, outbox>>, running => running',
         \A k \in Key : owed[k] \subseteq owed'[k] /\ (running => visible'[k] = visible[k])
  PROVE  \A c \in Client : ClientInv(c)'
BY OtherClient DEF IInv

\* What a restart finds, when only the last state counts, is the newest.
LEMMA NewState ==
  ASSUME NEW S, NEW states \in Seq(S), Len(states) = 1, NEW next \in S,
         NEW after \in Engine!Suffixes(Append(states, next)), Len(after) = 1
  PROVE  after \in Seq(S) /\ after[1] = next
<1> DEFINE both == Append(states, next)
<1>1. both \in Seq(S) /\ Len(both) = Len(states) + 1 /\ both[Len(states) + 1] = next
  BY AppendProperties, ZenonT(40)
<1> HIDE DEF both
<1>2. both \in Seq(S) /\ Len(both) = 2 /\ both[2] = next
  BY <1>1
<1>3. PICK n \in 1 .. 2 : after = SubSeq(both, n, 2)
  BY <1>2 DEF Engine!Suffixes, both
<1>4. \A i \in n .. 2 : both[i] \in S
  <2>1. \A i \in n .. 2 : i \in 1 .. Len(both)
    BY <1>2
  <2> QED
    BY <1>2, <2>1, ElementOfSeq
<1>5. after \in Seq(S) /\ Len(after) = 2 - n + 1 /\ \A i \in 1 .. 2 - n + 1 : after[i] = both[n + i - 1]
  BY <1>3, <1>4, SubSeqProperties
<1>6. 2 - n + 1 = 1
  BY <1>5
<1>7. n = 2
  BY <1>6
<1> QED
  BY <1>2, <1>5, <1>7

LEMMA LogWriteKeeps ==
  ASSUME IInv, NEW c \in Client, serving = Nobody, inbox[c] # <<>>, Head(inbox[c]).request # Junk,
         IsWrite(Head(inbox[c]).request), logged, LogWrite(Head(inbox[c]).request), serving' = c,
         UNCHANGED <<logged, client, link, inbox, outbox, left, stops, owed>>
  PROVE  IInv'
<1> DEFINE request == Head(inbox[c]).request
           w == Entry(request)
<1>1. Types /\ Busy /\ Holds /\ ClientInv(c)
  BY DEF IInv
<1>2. /\ running /\ w \in Key \X Held /\ w[2] \in MayHold(w[1]) /\ w[2] \in owed[w[1]]
  BY <1>1, HeadRequest
<1>3. /\ visible' = visible /\ running' = running /\ damaged' = damaged /\ writing' = {w}
      /\ Len(kept') = 1
      /\ kept' \in Engine!Suffixes(Append(kept, IF damaged THEN Engine!Last
                                                ELSE [Engine!Last EXCEPT ![w[1]] = w[2]]))
  <2>1. PICK k \in Key, v \in Value \union {Absent} :
          /\ writing' = {<<k, v>>}
          /\ kept' \in Engine!Suffixes(Append(kept, IF damaged THEN Engine!Last
                                                    ELSE [Engine!Last EXCEPT ![k] = v]))
    BY DEF LogWrite, Engine!Write
  <2>2. writing' = {w}
    BY DEF LogWrite
  <2>3. w = <<k, v>> /\ w[1] = k /\ w[2] = v
    BY <2>1, <2>2
  <2> HIDE DEF w
  <2> QED
    BY <2>1, <2>2, <2>3 DEF LogWrite, Engine!Write
<1> HIDE DEF w, request
<1>4. kept \in Seq([Key -> Held]) /\ Len(kept) = 1 /\ kept[1] \in [Key -> Held] /\ Engine!Last = kept[1]
  <2>1. kept \in Seq([Key -> Held]) /\ Len(kept) = 1
    BY <1>1 DEF Types
  <2>2. Engine!Last = kept[1]
    BY <2>1 DEF Engine!Last
  <2>3. 1 \in 1 .. Len(kept)
    BY <2>1
  <2> QED
    BY <2>1, <2>2, <2>3, ElementOfSeq
<1> DEFINE next == IF damaged THEN kept[1] ELSE [kept[1] EXCEPT ![w[1]] = w[2]]
<1>5. next \in [Key -> Held]
  BY <1>2, <1>4
<1>6. kept' \in Seq([Key -> Held]) /\ kept'[1] = next
  <2>1. kept' \in Engine!Suffixes(Append(kept, next))
    BY <1>3, <1>4
  <2> HIDE DEF next
  <2> QED
    BY <1>3, <1>4, <1>5, <2>1, NewState
<1>7. Types'
  BY <1>1, <1>2, <1>3, <1>6 DEF Types
<1>8. Busy'
  <2>1. serving' # Nobody /\ serving' \in Client
    BY SessionsAssumption
  <2> QED
    BY <1>1, <1>2, <1>3, <2>1 DEF Busy, w, request
<1>9. Holds'
  <2>1. \A k \in Key : kept'[1][k] \in MayHold(k)
    BY <1>1, <1>2, <1>4, <1>6 DEF Holds
  <2>2. ~ damaged => kept'[1] = [visible EXCEPT ![w[1]] = w[2]]
    BY <1>1, <1>2, <1>6 DEF Holds, Busy
  <2>3. ASSUME ~ damaged, NEW k \in Key
        PROVE  kept'[1][k] \in owed[k]
    <3>1. visible[k] \in owed[k] /\ visible \in [Key -> Held]
      BY <1>1, <1>2 DEF Holds, Types
    <3> QED
      BY <1>2, <2>2, <2>3, <3>1
  <2> QED
    BY <1>1, <1>2, <1>3, <2>1, <2>2, <2>3 DEF Holds
<1>10. \A d \in Client : ClientInv(d)'
  BY <1>3, NothingMoves
<1> QED
  BY <1>7, <1>8, <1>9, <1>10 DEF IInv

LEMMA BeginCheckpointKeeps ==
  ASSUME IInv, NEW c \in Client, serving = Nobody, inbox[c] # <<>>, Head(inbox[c]).request # Junk,
         Is(Head(inbox[c]).request, "CHECKPOINT"), BeginCheckpoint, serving' = c,
         UNCHANGED <<logged, client, link, inbox, outbox, left, stops, owed>>
  PROVE  IInv'
<1>1. Types /\ Busy /\ Holds
  BY DEF IInv
<1>2. /\ running /\ damaged /\ logged /\ writing = {}
      /\ visible' = visible /\ writing' = writing /\ running' = running /\ damaged' = damaged
  BY DEF BeginCheckpoint, Engine!BeginRepair, Engine!None
<1>3. PICK m \in [Key -> Value \union {Absent}] :
        /\ \A k \in Key : m[k] \in {visible[k], kept[1][k]}
        /\ kept' = <<m>>
  <2>1. Engine!Last = kept[1]
    BY <1>1 DEF Types, Engine!Last
  <2> QED
    BY <2>1 DEF BeginCheckpoint, Engine!BeginRepair
<1>4. kept' \in Seq([Key -> Held]) /\ Len(kept') = 1 /\ kept'[1] = m
  BY <1>3 DEF Held
<1>5. Types'
  BY <1>1, <1>2, <1>4 DEF Types
<1>6. Busy'
  <2>1. serving' # Nobody
    BY SessionsAssumption
  <2> QED
    BY <1>1, <1>2, <2>1 DEF Busy
<1>7. Holds'
  BY <1>1, <1>2, <1>3, <1>4 DEF Holds
<1>8. \A d \in Client : ClientInv(d)'
  BY <1>2, NothingMoves
<1> QED
  BY <1>5, <1>6, <1>7, <1>8 DEF IInv

\* A write in the index.
LEMMA AppliedKeeps ==
  ASSUME IInv, NEW c \in Client, inbox[c] # <<>>, Head(inbox[c]).request # Junk,
         IsWrite(Head(inbox[c]).request), Answers(c, Outcome(Entry(Head(inbox[c]).request))),
         visible' = [visible EXCEPT ![Entry(Head(inbox[c]).request)[1]]
                                      = Entry(Head(inbox[c]).request)[2]],
         \/ ~ logged /\ serving = Nobody
         \/ logged /\ serving = c /\ writing = {Entry(Head(inbox[c]).request)},
         writing' = {}, serving' = Nobody,
         UNCHANGED <<kept, running, damaged, logged, client, left, stops, owed>>
  PROVE  IInv'
<1> DEFINE request == Head(inbox[c]).request
           w == Entry(request)
<1>1. Types /\ Busy /\ Holds /\ ClientInv(c)
  BY DEF IInv
<1>2. /\ running /\ w \in Key \X Held /\ w[2] \in MayHold(w[1]) /\ w[2] \in owed[w[1]]
  BY <1>1, HeadRequest
<1>3. Answered(c, Outcome(w))
  BY OutcomeIsAnswer
<1>4. /\ \A d \in Client : ClientInv(d)'
      /\ inbox' \in [Client -> Seq(Message)] /\ outbox' \in [Client -> Seq(Line)]
      /\ link' \in [Client -> {"none", "open", "quitting", "closed", "gone"}]
  BY <1>3, AnsweredKeeps DEF IInv
<1>5. visible' = [visible EXCEPT ![w[1]] = w[2]] /\ (logged => writing = {w})
  OBVIOUS
<1> HIDE DEF w, request
<1>6. visible \in [Key -> Held] /\ visible' \in [Key -> Held]
  BY <1>1, <1>2, <1>5 DEF Types
<1>7. Types'
  BY <1>1, <1>4, <1>6 DEF Types
<1>8. Busy'
  BY <1>2 DEF Busy
<1>9. Holds'
  <2>1. \A k \in Key : visible'[k] \in MayHold(k) /\ visible'[k] \in owed[k]
    BY <1>1, <1>2, <1>5, <1>6 DEF Holds
  <2>2. logged /\ ~ damaged => kept[1] = visible'
    BY <1>1, <1>2, <1>5 DEF Holds
  <2> QED
    BY <1>1, <1>2, <2>1, <2>2 DEF Holds
<1> QED
  BY <1>4, <1>7, <1>8, <1>9 DEF IInv

LEMMA BeginKeeps ==
  ASSUME IInv, NEW c \in Client, Begin(c), owed' = owed
  PROVE  IInv'
<1> DEFINE request == Head(inbox[c]).request
<1>1. /\ running /\ serving = Nobody /\ inbox[c] # <<>> /\ request # Junk
      /\ UNCHANGED <<logged, client, left, stops>>
  BY DEF Begin
<1>2. Types /\ Busy /\ Holds
  BY DEF IInv
<1>3. CASE /\ \E answer \in Reply(request) : Answers(c, answer)
           /\ UNCHANGED <<engineVars, serving>>
  <2>1. PICK answer \in Reply(request) : Answers(c, answer)
    BY <1>3
  <2>2. Answered(c, answer)
    BY <1>1, <1>3, <2>1, ReplyIsAnswer
  <2>3. /\ \A d \in Client : ClientInv(d)'
        /\ inbox' \in [Client -> Seq(Message)] /\ outbox' \in [Client -> Seq(Line)]
        /\ link' \in [Client -> {"none", "open", "quitting", "closed", "gone"}]
    BY <2>2, AnsweredKeeps DEF IInv
  <2>4. Types' /\ Busy' /\ Holds'
    BY <1>1, <1>2, <1>3, <2>3 DEF Types, Busy, Holds, engineVars
  <2> QED
    BY <2>3, <2>4 DEF IInv
<1>4. CASE /\ IsWrite(request) /\ logged /\ LogWrite(request)
           /\ serving' = c /\ UNCHANGED <<link, inbox, outbox>>
  BY <1>1, <1>4, LogWriteKeeps
<1>5. CASE /\ IsWrite(request) /\ ~ logged /\ ApplyUnlogged(request)
           /\ Answers(c, Outcome(Entry(request))) /\ UNCHANGED serving
  BY <1>1, <1>2, <1>5, AppliedKeeps DEF ApplyUnlogged, Busy
<1>6. CASE /\ Is(request, "CHECKPOINT") /\ BeginCheckpoint
           /\ serving' = c /\ UNCHANGED <<link, inbox, outbox>>
  BY <1>1, <1>6, BeginCheckpointKeeps
<1> QED
  BY <1>3, <1>4, <1>5, <1>6 DEF Begin

LEMMA CheckpointIsElse ==
  ASSUME NEW request, Is(request, "CHECKPOINT")
  PROVE  ~ IsWrite(request) /\ \A k \in Key : request # <<"GET", k>>
<1>1. Command(request) = "CHECKPOINT" /\ ~ IsWrite(request)
  BY DEF Is, IsWrite
<1>2. ASSUME NEW k \in Key
      PROVE  Command(<<"GET", k>>) = "GET"
  <2>1. Head(<<"GET", k>>) = "GET"
    OBVIOUS
  <2> QED
    BY <2>1 DEF Command, Upper
<1> QED
  BY <1>1, <1>2

LEMMA CheckpointAnswers ==
  \A answer \in {Plain("OK CHECKPOINT"), Plain("ERROR failed")} :
    answer \in Seq(Text) /\ Len(answer) \in Nat \ {0}
<1>1. "OK CHECKPOINT" \in Word /\ "ERROR failed" \in Word
  BY DEF Word
<1>2. ASSUME NEW word \in Word
      PROVE  Plain(word) \in Seq(Text) /\ Len(Plain(word)) \in Nat \ {0}
  BY PlainIn
<1> QED
  BY <1>1, <1>2

LEMMA OneElement ==
  ASSUME NEW S, NEW e \in S
  PROVE  <<e>> \in Seq(S) /\ Len(<<e>>) = 1 /\ <<e>>[1] = e
OBVIOUS

LEMMA EndKeeps ==
  ASSUME IInv, NEW c \in Client, End(c), owed' = owed
  PROVE  IInv'
<1> DEFINE request == Head(inbox[c]).request
<1>1. serving = c /\ serving' = Nobody /\ UNCHANGED <<logged, client, left, stops>>
  BY DEF End
<1>2. Types /\ Busy /\ Holds /\ ClientInv(c)
  BY DEF IInv
<1>3. /\ inbox[c] # <<>> /\ logged /\ request # Junk
      /\ IF writing = {} THEN Is(request, "CHECKPOINT")
                         ELSE IsWrite(request) /\ writing = {Entry(request)}
  BY <1>1, <1>2, SessionsAssumption DEF Busy
<1>4. CASE \E w \in writing : ApplyWrite /\ Answers(c, Outcome(w))
  <2>1. PICK w \in writing : ApplyWrite /\ Answers(c, Outcome(w))
    BY <1>4
  <2>2. w = Entry(request) /\ IsWrite(request) /\ writing = {w}
    BY <1>3, <2>1
  <2>3. /\ visible' = [visible EXCEPT ![w[1]] = w[2]] /\ writing' = {}
        /\ kept' = kept /\ running' = running /\ damaged' = damaged
    BY <2>1, <2>2 DEF ApplyWrite, Engine!Acknowledge, Engine!None
  <2> QED
    BY <1>1, <1>3, <2>1, <2>2, <2>3, AppliedKeeps
<1>5. CASE writing = {} /\ \E answer \in {Plain("OK CHECKPOINT"), Plain("ERROR failed")} :
             EndCheckpoint(answer) /\ Answers(c, answer)
  <2>1. PICK answer \in {Plain("OK CHECKPOINT"), Plain("ERROR failed")} :
          EndCheckpoint(answer) /\ Answers(c, answer)
    BY <1>5
  <2>2. Is(request, "CHECKPOINT") /\ writing = {}
    BY <1>3, <1>5
  <2>3. ~ IsWrite(request) /\ \A k \in Key : request # <<"GET", k>>
    BY <2>2, CheckpointIsElse
  <2>4. /\ request \in Sendable(c) /\ link[c] \in {"open", "quitting", "gone"} /\ running
    BY <1>2, <1>3, HeadRequest
  <2>5. Kind[c] # "bench"
    <3>1. ASSUME Kind[c] = "bench" PROVE FALSE
      <4>1. PICK i \in DOMAIN Script(c) : request = Script(c)[i]
        BY <2>4, <3>1 DEF Sendable, Range
      <4>2. i \in 1 .. Len(Script(c))
        BY <3>1, <4>1, ScriptPhases, LenProperties
      <4> HIDE DEF request
      <4>3. request \in BenchRequest /\ BenchValue \in Value
        BY <3>1, <4>1, <4>2, ScriptRequest
      <4> QED
        BY <2>2, <4>3, BenchCommands
    <3> QED
      BY <3>1
  <2>6. answer \in Seq(Text) /\ Len(answer) \in Nat \ {0}
    BY <2>1, CheckpointAnswers
  <2>7. /\ visible' = visible /\ writing' = writing /\ running' = running
        /\ \/ kept' = <<visible>> /\ damaged' = FALSE
           \/ kept' = kept /\ damaged' = damaged
    BY <2>1 DEF EndCheckpoint, Engine!Repair, engineVars
  <2>8. Answered(c, answer)
    BY <1>1, <1>3, <2>1, <2>3, <2>4, <2>5, <2>6, <2>7 DEF Answered
  <2>9. /\ \A d \in Client : ClientInv(d)'
        /\ inbox' \in [Client -> Seq(Message)] /\ outbox' \in [Client -> Seq(Line)]
        /\ link' \in [Client -> {"none", "open", "quitting", "closed", "gone"}]
    BY <2>8, AnsweredKeeps DEF IInv
  <2>10. kept' \in Seq([Key -> Held]) /\ Len(kept') = 1 /\ (kept' = <<visible>> => kept'[1] = visible)
    <3>1. visible \in [Key -> Held] /\ kept \in Seq([Key -> Held]) /\ Len(kept) = 1
      BY <1>2 DEF Types
    <3>2. <<visible>> \in Seq([Key -> Held]) /\ Len(<<visible>>) = 1 /\ <<visible>>[1] = visible
      BY <3>1, OneElement
    <3> QED
      BY <2>7, <3>1, <3>2
  <2>11. Types'
    BY <1>1, <1>2, <2>7, <2>9, <2>10 DEF Types
  <2>12. Busy'
    BY <1>1, <2>2, <2>4, <2>7 DEF Busy
  <2>13. Holds'
    BY <1>1, <1>2, <1>3, <2>2, <2>4, <2>7, <2>10 DEF Holds
  <2> QED
    BY <2>9, <2>11, <2>12, <2>13 DEF IInv
<1> QED
  BY <1>4, <1>5 DEF End

-----------------------------------------------------------------------------
(* The server closes connections, stops and starts.                         *)

LEMMA HangsKeeps ==
  ASSUME IInv, NEW c \in Client, Hangs(c), serving # c, link[c] \in {"open", "quitting", "gone"},
         NEW s \in Prefixed(outbox[c]), outbox' = [outbox EXCEPT ![c] = s], owed' = owed
  PROVE  IInv'
<1>1. /\ inbox' = [inbox EXCEPT ![c] = <<>>]
      /\ link' = [link EXCEPT ![c] = IF @ = "gone" THEN "none" ELSE "closed"]
      /\ UNCHANGED <<engineVars, logged, client, serving, left, stops>>
  BY DEF Hangs
<1>2. kept' = kept /\ visible' = visible /\ writing' = writing /\ running' = running /\ damaged' = damaged
  BY <1>1 DEF engineVars
<1>3. Types /\ Busy /\ Holds /\ ClientInv(c)
  BY DEF IInv
<1>4. /\ inbox'[c] = <<>> /\ outbox'[c] = s
      /\ link'[c] = (IF link[c] \in {"gone", "none"} THEN "none" ELSE "closed")
      /\ \A d \in Client \ {c} : link'[d] = link[d] /\ outbox'[d] = outbox[d] /\ inbox'[d] = inbox[d]
  BY <1>1, <1>3 DEF Types
<1>5. ClientInv(c)' /\ outbox'[c] \in Seq(Line)
  BY <1>1, <1>3, <1>4, HungKeeps
<1>6. Types'
  <2>1. outbox' \in [Client -> Seq(Line)]
    BY <1>3, <1>4, <1>5 DEF Types
  <2>2. inbox' \in [Client -> Seq(Message)]
    BY <1>1, <1>3, EmptySeq DEF Types
  <2>3. link' \in [Client -> {"none", "open", "quitting", "closed", "gone"}]
    BY <1>1, <1>3 DEF Types
  <2> QED
    BY <1>1, <1>2, <1>3, <2>1, <2>2, <2>3 DEF Types
<1>7. Busy'
  <2>1. serving # Nobody => inbox'[serving] = inbox[serving]
    BY <1>3, <1>4 DEF Types
  <2> QED
    BY <1>1, <1>2, <1>3, <2>1 DEF Busy
<1>8. Holds'
  BY <1>1, <1>2, <1>3 DEF Holds
<1>9. ASSUME NEW d \in Client \ {c}
      PROVE  ClientInv(d)'
  BY <1>1, <1>2, <1>3, <1>4, OtherClient DEF IInv
<1> QED
  BY <1>5, <1>6, <1>7, <1>8, <1>9 DEF IInv

LEMMA RefuseKeeps ==
  ASSUME IInv, NEW c \in Client, Refuse(c), owed' = owed
  PROVE  IInv'
<1>1. serving # c
  BY SessionsAssumption DEF Refuse
<1>2. PICK s \in Prefixed(outbox[c]) : outbox' = [outbox EXCEPT ![c] = s]
  BY DEF Refuse
<1> QED
  BY <1>1, <1>2, HangsKeeps DEF Refuse

LEMMA DropKeeps ==
  ASSUME IInv, NEW c \in Client, Drop(c), owed' = owed
  PROVE  IInv'
<1>1. PICK s \in IF inbox[c] = <<>> THEN {outbox[c]} ELSE Prefixed(outbox[c]) :
        outbox' = [outbox EXCEPT ![c] = s]
  BY DEF Drop
<1>2. outbox[c] \in Prefixed(outbox[c])
  <2>1. outbox[c] \in Seq(Line)
    BY DEF IInv, Types
  <2> QED
    BY <2>1, WholeIsPrefix
<1>3. s \in Prefixed(outbox[c])
  BY <1>1, <1>2
<1> QED
  BY <1>1, <1>3, HangsKeeps DEF Drop

LEMMA StartKeeps ==
  ASSUME IInv, NEW wal \in BOOLEAN, StartServer(wal),
         owed' = IF wal THEN owed ELSE [k \in Key |-> owed[k] \union {Absent}]
  PROVE  IInv'
<1>1. Types /\ Busy /\ Holds
  BY DEF IInv
<1>2. logged' = wal /\ UNCHANGED <<client, connVars, left, stops>>
  BY DEF StartServer
<1>3. link' = link /\ inbox' = inbox /\ outbox' = outbox /\ serving' = serving
  BY <1>2 DEF connVars
<1>4. Len(kept) = 1 /\ kept[1] \in [Key -> Held] /\ Engine!Last = kept[1]
  <2>1. kept \in Seq([Key -> Held]) /\ Len(kept) = 1
    BY <1>1 DEF Types
  <2>2. Engine!Last = kept[1]
    BY <2>1 DEF Engine!Last
  <2>3. 1 \in 1 .. Len(kept)
    BY <2>1
  <2> QED
    BY <2>1, <2>2, <2>3, ElementOfSeq
<1>5. /\ ~ running /\ writing' = writing /\ damaged' = damaged
      /\ kept' \in {kept, <<kept[1]>>}
      /\ \/ wal /\ running' = TRUE /\ visible' = kept[1]
         \/ wal /\ running' = running /\ visible' = visible
         \/ ~ wal /\ running' = TRUE /\ visible' = [k \in Key |-> Absent]
  BY <1>4 DEF StartServer, Engine!Restart, Engine!Empty
<1>6. kept' \in Seq([Key -> Held]) /\ Len(kept') = 1 /\ kept'[1] = kept[1]
  <2>1. <<kept[1]>> \in Seq([Key -> Held]) /\ Len(<<kept[1]>>) = 1 /\ <<kept[1]>>[1] = kept[1]
    BY <1>4, OneElement
  <2> QED
    BY <1>1, <1>5, <2>1 DEF Types
<1>7. owed' \in [Key -> SUBSET Held] /\ \A k \in Key : owed[k] \subseteq owed'[k] /\ (~ wal => Absent \in owed'[k])
  BY <1>1 DEF Types, Held
<1>8. visible' \in [Key -> Held] /\ running' \in BOOLEAN /\ logged' \in BOOLEAN
  BY <1>1, <1>2, <1>4, <1>5 DEF Types, Held
<1>9. Types'
  BY <1>1, <1>2, <1>3, <1>5, <1>6, <1>7, <1>8 DEF Types
<1>10. serving = Nobody /\ writing = {}
  BY <1>1, <1>5 DEF Busy
<1>11. Busy'
  BY <1>3, <1>5, <1>10 DEF Busy
<1>12. \A k \in Key : kept[1][k] \in owed'[k] /\ kept[1][k] \in MayHold(k) /\ visible[k] \in MayHold(k)
  BY <1>1, <1>5, <1>7 DEF Holds
<1>13. Holds'
  <2>1. \A k \in Key : Absent \in MayHold(k)
    BY DEF MayHold, Held
  <2>2. \A k \in Key : visible'[k] \in MayHold(k) /\ (running' => visible'[k] \in owed'[k])
    BY <1>5, <1>7, <1>12, <2>1
  <2>3. running' /\ logged' => kept'[1] = visible'
    BY <1>2, <1>5, <1>6
  <2> QED
    BY <1>5, <1>6, <1>10, <1>12, <2>2, <2>3 DEF Holds
<1>14. \A c \in Client : ClientInv(c)'
  BY <1>2, <1>3, <1>5, <1>7, NothingMoves
<1> QED
  BY <1>9, <1>11, <1>13, <1>14 DEF IInv

LEMMA StopKeeps ==
  ASSUME IInv, KillServer \/ StopServer,
         owed' = IF logged /\ ~ damaged THEN owed ELSE [k \in Key |-> Held]
  PROVE  IInv'
<1>1. Types /\ Busy /\ Holds
  BY DEF IInv
<1>2. AllHang
  BY DEF KillServer, StopServer
<1>3. /\ stops > 0 /\ stops' = stops - 1 /\ serving' = Nobody
      /\ logged' = logged /\ client' = client /\ left' = left
      /\ inbox' = [c \in Client |-> <<>>]
      /\ link' = [c \in Client |-> IF link[c] \in {"gone", "none"} THEN "none" ELSE "closed"]
      /\ outbox' \in [Client -> UNION {Prefixed(outbox[c]) : c \in Client}]
      /\ \A c \in Client : outbox'[c] \in Prefixed(outbox[c])
  BY <1>2 DEF AllHang
<1>4. Len(kept) = 1 /\ kept \in Seq([Key -> Held]) /\ kept[1] \in [Key -> Held] /\ Engine!Last = kept[1]
  <2>1. kept \in Seq([Key -> Held]) /\ Len(kept) = 1
    BY <1>1 DEF Types
  <2>2. Engine!Last = kept[1]
    BY <2>1 DEF Engine!Last
  <2>3. 1 \in 1 .. Len(kept)
    BY <2>1
  <2> QED
    BY <2>1, <2>2, <2>3, ElementOfSeq
<1>5. /\ running /\ running' = FALSE /\ visible' = [k \in Key |-> Absent] /\ writing' = {}
      /\ damaged' \in {damaged, TRUE}
      /\ kept' = kept \/ (Len(kept') = 1 /\ kept' \in Engine!Suffixes(kept) \union
                                                     Engine!Suffixes(Append(kept, kept[1])))
         \/ kept' = <<kept[1]>>
  <2>1. CASE Unlogged
    BY <2>1 DEF Unlogged, Engine!Stop, Engine!Empty, Engine!None
  <2>2. CASE Engine!Kill /\ Len(kept') = 1
    BY <1>4, <2>2 DEF Engine!Kill, Engine!Stop, Engine!Empty, Engine!None
  <2>3. CASE Engine!Shutdown
    BY <1>4, <2>3 DEF Engine!Shutdown, Engine!Stop, Engine!Empty, Engine!None
  <2> QED
    BY <2>1, <2>2, <2>3 DEF KillServer, StopServer
<1>6. kept' \in Seq([Key -> Held]) /\ Len(kept') = 1 /\ kept'[1] = kept[1]
  <2>1. <<kept[1]>> \in Seq([Key -> Held]) /\ Len(<<kept[1]>>) = 1 /\ <<kept[1]>>[1] = kept[1]
    BY <1>4, OneElement
  <2>2. ASSUME Len(kept') = 1, kept' \in Engine!Suffixes(kept)
        PROVE  kept' \in Seq([Key -> Held]) /\ kept'[1] = kept[1]
    <3>1. PICK n \in 1 .. 1 : kept' = SubSeq(kept, n, 1)
      BY <1>4, <2>2 DEF Engine!Suffixes
    <3>2. n = 1
      OBVIOUS
    <3>3. kept' = SubSeq(kept, 1, 1)
      BY <3>1, <3>2
    <3> QED
      BY <1>4, <3>3, SubSeqProperties
  <2>3. ASSUME Len(kept') = 1, kept' \in Engine!Suffixes(Append(kept, kept[1]))
        PROVE  kept' \in Seq([Key -> Held]) /\ kept'[1] = kept[1]
    BY <1>4, <2>3, NewState
  <2> QED
    BY <1>4, <1>5, <2>1, <2>2, <2>3
<1>7. owed' \in [Key -> SUBSET Held] /\ \A k \in Key : owed[k] \subseteq owed'[k]
  BY <1>1 DEF Types
<1>8. \A k \in Key : kept[1][k] \in owed'[k]
  <2>1. CASE logged /\ ~ damaged
    BY <1>1, <1>7, <2>1 DEF Holds
  <2>2. CASE ~ (logged /\ ~ damaged)
    BY <1>4, <2>2
  <2> QED
    BY <2>1, <2>2
<1>9. \A c \in Client : ClientInv(c)' /\ outbox'[c] \in Seq(Line)
  <2>1. ASSUME NEW c \in Client
        PROVE  /\ client'[c] = client[c] /\ inbox'[c] = <<>>
               /\ link'[c] = (IF link[c] \in {"gone", "none"} THEN "none" ELSE "closed")
               /\ outbox'[c] \in Prefixed(outbox[c])
    BY <1>3
  <2> QED
    BY <1>1, <1>7, <2>1, HungKeeps DEF IInv
<1>10. Types'
  <2>1. outbox' \in [Client -> Seq(Line)]
    BY <1>3, <1>9
  <2>2. inbox' \in [Client -> Seq(Message)] /\ link' \in [Client -> {"none", "open", "quitting", "closed", "gone"}]
    BY <1>3, EmptySeq
  <2>3. stops' \in Nat
    <3>1. stops \in Nat /\ stops > 0 /\ stops' = stops - 1
      BY <1>1, <1>3 DEF Types
    <3> QED
      BY <3>1
  <2>4. visible' \in [Key -> Held] /\ damaged' \in BOOLEAN
    BY <1>1, <1>5 DEF Types, Held
  <2> QED
    BY <1>1, <1>3, <1>5, <1>6, <1>7, <2>1, <2>2, <2>3, <2>4 DEF Types
<1>11. Busy'
  BY <1>3, <1>5 DEF Busy
<1>12. Holds'
  <2>1. \A k \in Key : Absent \in MayHold(k)
    BY DEF MayHold, Held
  <2> QED
    BY <1>1, <1>5, <1>6, <1>8, <2>1 DEF Holds
<1> QED
  BY <1>9, <1>10, <1>11, <1>12 DEF IInv

-----------------------------------------------------------------------------
(* Clients read.                                                            *)

\* While a client knows what it reads, the line that has come begins the answer to
\* the first request that it waits for.
LEMMA AnswerComing ==
  ASSUME Types, NEW c \in Client, ClientInv(c), client[c].exact, outbox[c] # <<>>
  PROVE  /\ client[c].asked # <<>> /\ Len(inbox[c]) + 1 <= Len(client[c].asked)
         /\ Head(outbox[c]) = outbox[c][1] /\ Head(client[c].asked) = client[c].asked[1]
         /\ outbox[c][1].first /\ outbox[c][1].of = Settled(c) + 1
         /\ Settled(c) + 1 \in 1 .. client[c].sent
<1> DEFINE s == client[c].sent
           k == Len(client[c].asked)
           n == Len(inbox[c])
           m == Len(outbox[c])
<1>1. /\ s \in Nat /\ k \in Nat /\ n \in Nat /\ m \in Nat \ {0}
      /\ client[c].asked \in Seq(Request) /\ outbox[c] \in Seq(Line)
  <2>1. /\ s \in Nat /\ client[c].asked \in Seq(Request) /\ outbox[c] \in Seq(Line)
        /\ inbox[c] \in Seq(Message)
    BY DEF Types
  <2> QED
    BY <2>1, LenProperties, EmptySeq
<1>2. outbox[c][1].first /\ outbox[c][1].of = Settled(c) + 1 /\ Settled(c) = s - k
  BY DEF ClientInv, Matching, Settled
<1>3. k <= s /\ \A i \in 1 .. m : outbox[c][i].of \in 1 .. s - n
  BY DEF ClientInv, Connected, InOrder
<1>4. Head(outbox[c]) = outbox[c][1]
  BY <1>1, HeadTailProperties
<1> HIDE DEF s, k, n, m
<1>5. 1 \in 1 .. m
  BY <1>1
<1>6. s - k + 1 \in 1 .. s - n
  BY <1>2, <1>3, <1>5
<1>7. n + 1 <= k /\ k # 0 /\ s - k + 1 \in 1 .. s
  BY <1>1, <1>3, <1>6
<1>8. client[c].asked # <<>>
  BY <1>7 DEF k
<1>9. Head(client[c].asked) = client[c].asked[1]
  BY <1>1, <1>8, HeadTailProperties
<1> QED
  BY <1>2, <1>4, <1>7, <1>8, <1>9 DEF s, k, n

\* A benchmark client is answered what it expects.
LEMMA BenchExpects ==
  ASSUME Types, NEW c \in Client, ClientInv(c), Kind[c] = "bench", outbox[c] # <<>>
  PROVE  Head(outbox[c]).text[1] \in Expected(Head(client[c].asked))
<1>1. Scripted(c) /\ client[c].exact
  BY DEF ClientInv, Scripted
<1>2. /\ Head(outbox[c]) = outbox[c][1] /\ Head(client[c].asked) = client[c].asked[1]
      /\ outbox[c][1].of = Settled(c) + 1 /\ client[c].asked # <<>>
  BY <1>1, AnswerComing
<1>3. 1 \in 1 .. Len(client[c].asked) /\ 1 \in 1 .. Len(outbox[c])
  <2>1. client[c].asked \in Seq(Request) /\ outbox[c] \in Seq(Line)
    BY DEF Types
  <2>2. /\ Len(client[c].asked) \in Nat /\ Len(client[c].asked) # 0
        /\ Len(outbox[c]) \in Nat /\ Len(outbox[c]) # 0
    BY <1>2, <2>1, LenProperties, EmptySeq
  <2> QED
    BY <2>2
<1>4. client[c].asked[1] = Script(c)[Settled(c) + 1]
  BY <1>1, <1>3 DEF Scripted
<1>5. outbox[c][1].text[1] \in Expected(Script(c)[outbox[c][1].of])
  BY <1>1, <1>3 DEF Scripted
<1> QED
  BY <1>2, <1>4, <1>5

\* A request of one command writes one value.
LEMMA WrittenOnce ==
  ASSUME NEW request, NEW k \in Key, Written(<<request>>, k) # {}
  PROVE  /\ request # Junk /\ IsWrite(request) /\ Entry(request)[1] = k
         /\ Entry(request)[2] \in Held /\ Written(<<request>>, k) = {Entry(request)[2]}
<1>1. Len(<<request>>) = 1 /\ <<request>>[1] = request
  OBVIOUS
<1>2. PICK v \in Held : \E i \in 1 .. 1 :
        <<request>>[i] # Junk /\ IsWrite(<<request>>[i]) /\ Entry(<<request>>[i]) = <<k, v>>
  BY <1>1 DEF Written
<1>3. \A i \in 1 .. 1 : i = 1
  OBVIOUS
<1>4. request # Junk /\ IsWrite(request) /\ Entry(request) = <<k, v>>
  BY <1>1, <1>2, <1>3
<1>5. Entry(request)[1] = k /\ Entry(request)[2] = v
  BY <1>4
<1>6. ASSUME NEW u \in Held, Entry(request) = <<k, u>>
      PROVE  u = v
  BY <1>4, <1>6
<1>7. Written(<<request>>, k) = {v}
  <2>1. Written(<<request>>, k) = {u \in Held : \E i \in 1 .. 1 :
          <<request>>[i] # Junk /\ IsWrite(<<request>>[i]) /\ Entry(<<request>>[i]) = <<k, u>>}
    BY <1>1 DEF Written
  <2>2. Written(<<request>>, k) = {u \in Held : request # Junk /\ IsWrite(request) /\ Entry(request) = <<k, u>>}
    BY <1>1, <1>3, <2>1
  <2> QED
    BY <1>2, <1>4, <1>6, <2>2
<1> QED
  BY <1>4, <1>5, <1>7

\* When a client reads that its write is done, the key holds it, and none of the
\* requests on their way writes that key again.
LEMMA ConfirmedWrite ==
  ASSUME IInv, NEW c \in Client, outbox[c] # <<>>, NEW k \in Key, Confirms(c, k)
  PROVE  LET w == Entry(Asked(c)) IN
         /\ Asked(c) # Junk /\ IsWrite(Asked(c)) /\ Owner[k] = c /\ w[2] \in Held
         /\ Written(<<Asked(c)>>, k) = {w[2]}
         /\ running /\ visible[k] = w[2] /\ (logged /\ ~ damaged => kept[1][k] = w[2])
         /\ \A i \in 1 .. Len(inbox[c]) :
              LET request == inbox[c][i].request
              IN request # Junk /\ IsWrite(request) => Entry(request)[1] # k
<1> DEFINE asked == client[c].asked
           m == Len(asked)
           n == Len(inbox[c])
           w == Entry(Asked(c))
<1>1. Types /\ Busy /\ Holds /\ ClientInv(c)
  BY DEF IInv
<1>2. /\ client[c].exact /\ asked # <<>> /\ link[c] # "closed"
      /\ Kind[c] = "raw" => m = 1
      /\ Written(<<Asked(c)>>, k) # {}
  BY DEF Confirms, Attributed
<1>3. /\ Asked(c) # Junk /\ IsWrite(Asked(c)) /\ w[1] = k /\ w[2] \in Held
      /\ Written(<<Asked(c)>>, k) = {w[2]}
  BY <1>2, WrittenOnce
<1>4. link[c] \in {"open", "quitting"} /\ running
  BY <1>1, <1>2 DEF Types, ClientInv, Connected
<1>5. /\ n + 1 <= m /\ Asked(c) = asked[1]
  BY <1>1, <1>2, AnswerComing DEF Asked
<1>6. m \in Nat /\ n \in Nat
  <2>1. asked \in Seq(Request) /\ inbox[c] \in Seq(Message)
    BY <1>1 DEF Types
  <2> QED
    BY <2>1, LenProperties
<1>7. Matching(c) /\ Truthful(c)
  BY <1>1, <1>2 DEF ClientInv
<1>8. \A i \in 1 .. n : inbox[c][i].request = asked[m - n + i]
  BY <1>4, <1>7 DEF Matching
<1>9. \A i \in 1 .. m - n : asked[i] # Junk /\ IsWrite(asked[i]) =>
        visible[Entry(asked[i])[1]] = Entry(asked[i])[2]
  BY <1>2, <1>4, <1>7 DEF Truthful
<1>10. 1 \in 1 .. m - n /\ 1 \in 1 .. m /\ \A i \in 1 .. n : m - n + i \in 1 .. m /\ m - n + i # 1
  <2> HIDE DEF m, n
  <2> QED
    BY <1>5, <1>6
<1>11. asked[1] # Junk /\ IsWrite(asked[1]) /\ Entry(asked[1])[1] = k /\ w = Entry(asked[1])
  BY <1>3, <1>5
<1>12. visible[k] = w[2]
  BY <1>9, <1>10, <1>11
<1>13. asked[1] \in Sendable(c)
  BY <1>1, <1>10 DEF ClientInv, Connected
<1>14. Owner[k] = c
  BY <1>11, <1>13, SentIsProper
<1>15. ASSUME NEW i \in 1 .. n, inbox[c][i].request # Junk, IsWrite(inbox[c][i].request)
       PROVE  Entry(inbox[c][i].request)[1] # k
  <2> DEFINE j == m - n + i
  <2>1. j \in 1 .. m /\ j # 1 /\ inbox[c][i].request = asked[j]
    BY <1>8, <1>10
  <2> HIDE DEF j
  <2>2. asked[j] # Junk /\ IsWrite(asked[j])
    BY <1>15, <2>1
  <2>3. Entry(asked[j])[1] # Entry(asked[1])[1]
    BY <1>1, <1>2, <1>10, <1>11, <2>1, <2>2, AskedDiffer
  <2> QED
    BY <1>11, <2>1, <2>3
<1>16. ASSUME logged, ~ damaged
       PROVE  kept[1][k] = w[2]
  <2>1. visible \in [Key -> Held]
    BY <1>1 DEF Types
  <2>2. CASE writing = {}
    BY <1>1, <1>4, <1>12, <1>16, <2>2 DEF Holds
  <2>3. CASE writing # {}
    <3> DEFINE request == Head(inbox[serving]).request
    <3>1. serving # Nobody /\ serving \in Client
      BY <1>1, <2>3 DEF Busy, Types
    <3>2. /\ inbox[serving] # <<>> /\ request # Junk /\ IsWrite(request)
          /\ writing = {Entry(request)}
      BY <1>1, <2>3, <3>1 DEF Busy
    <3>3. Entry(request) \in Key \X Held /\ Owner[Entry(request)[1]] = serving
      BY <1>1, <3>1, <3>2, HeadRequest DEF IInv
    <3>4. Entry(request)[1] # k
      <4>1. CASE serving = c
        <5>1. inbox[c] \in Seq(Message)
          BY <1>1 DEF Types
        <5>2. Head(inbox[c]) = inbox[c][1] /\ Len(inbox[c]) # 0
          BY <3>2, <4>1, <5>1, HeadTailProperties, EmptySeq
        <5>3. 1 \in 1 .. n
          BY <1>6, <5>2
        <5> QED
          BY <1>15, <3>2, <4>1, <5>2, <5>3
      <4>2. CASE serving # c
        BY <1>14, <3>3, <4>2
      <4> QED
        BY <4>1, <4>2
    <3>5. kept[1] = [visible EXCEPT ![Entry(request)[1]] = Entry(request)[2]]
      BY <1>1, <1>4, <1>16, <3>2 DEF Holds
    <3> HIDE DEF request
    <3> QED
      BY <1>12, <2>1, <3>3, <3>4, <3>5
  <2> QED
    BY <2>2, <2>3
<1> QED
  BY <1>3, <1>4, <1>12, <1>14, <1>15, <1>16

\* What a client knows after it has read a line, and waits for.
Rest(c) == IF Kind[c] = "bench" THEN Tail(client[c].asked) ELSE <<>>

ReadsOn(c) ==
  /\ client[c].mode = "waiting" /\ outbox[c] # <<>>
  /\ client'[c].mode = (IF Rest(c) = <<>> THEN "prompt" ELSE "waiting")
  /\ client'[c].asked = Rest(c) /\ client'[c].sent = client[c].sent
  /\ client'[c].exact = (/\ client[c].exact /\ Head(outbox[c]).last
                         /\ Kind[c] = "raw" => Len(client[c].asked) = 1)
  /\ outbox'[c] = Tail(outbox[c]) /\ link' = link /\ inbox' = inbox /\ running' = running
  /\ visible' = visible
  /\ owed' = [k \in Key |-> IF Confirms(c, k) THEN Written(<<Asked(c)>>, k) ELSE owed[k]]

LEMMA RestIn ==
  ASSUME Types, NEW c \in Client, ClientInv(c), outbox[c] # <<>>
  PROVE  /\ Rest(c) \in Seq(Request) /\ Len(Rest(c)) <= Len(client[c].asked)
         /\ Len(Rest(c)) \in Nat /\ Len(client[c].asked) \in Nat
         /\ Kind[c] = "bench" =>
              /\ client[c].exact /\ Len(Rest(c)) = Len(client[c].asked) - 1
              /\ \A i \in 1 .. Len(Rest(c)) : Rest(c)[i] = client[c].asked[i + 1]
         /\ Kind[c] # "bench" => Rest(c) = <<>> /\ Len(Rest(c)) = 0
<1> DEFINE asked == client[c].asked
<1>1. asked \in Seq(Request)
  BY DEF Types
<1>2. Len(asked) \in Nat
  BY <1>1, LenProperties
<1>3. CASE Kind[c] = "bench"
  <2>1. client[c].exact
    BY <1>3 DEF ClientInv, Scripted
  <2>2. asked # <<>>
    BY <2>1, AnswerComing
  <2> HIDE DEF asked
  <2>3. /\ Tail(asked) \in Seq(Request) /\ Len(Tail(asked)) = Len(asked) - 1
        /\ \A i \in 1 .. Len(Tail(asked)) : Tail(asked)[i] = asked[i + 1]
    BY <1>1, <2>2, HeadTailProperties
  <2>4. Len(asked) # 0
    BY <1>1, <2>2, EmptySeq
  <2>5. Rest(c) = Tail(asked)
    BY <1>3 DEF Rest, asked
  <2>6. Len(asked) - 1 \in Nat /\ Len(asked) - 1 <= Len(asked)
    BY <1>2, <2>4
  <2> QED
    BY <1>2, <1>3, <2>1, <2>3, <2>5, <2>6 DEF asked
<1>4. CASE Kind[c] # "bench"
  <2>1. Rest(c) = <<>> /\ <<>> \in Seq(Request) /\ Len(<<>>) = 0
    BY <1>4 DEF Rest
  <2> QED
    BY <1>2, <1>4, <2>1
<1> QED
  BY <1>3, <1>4

LEMMA ReadsOnInOrder ==
  ASSUME IInv, NEW c \in Client, ReadsOn(c)
  PROVE  Connected(c)' /\ InOrder(c)' /\ outbox'[c] \in Seq(Line)
<1> DEFINE s == client[c].sent
           n == Len(inbox[c])
           o == outbox[c]   m == Len(o)
<1>1. Types /\ ClientInv(c)
  BY DEF IInv
<1>2. /\ client[c].mode = "waiting" /\ o # <<>>
      /\ client'[c].mode = (IF Rest(c) = <<>> THEN "prompt" ELSE "waiting")
      /\ client'[c].asked = Rest(c) /\ client'[c].sent = s
      /\ outbox'[c] = Tail(o) /\ link' = link /\ inbox' = inbox /\ running' = running
  BY DEF ReadsOn
<1>3. owed' = [k \in Key |-> IF Confirms(c, k) THEN Written(<<Asked(c)>>, k) ELSE owed[k]]
  BY DEF ReadsOn
<1>4. o \in Seq(Line) /\ s \in Nat /\ inbox[c] \in Seq(Message) /\ client[c].asked \in Seq(Request)
  BY <1>1 DEF Types
<1>5. /\ Tail(o) \in Seq(Line) /\ Len(Tail(o)) = m - 1 /\ m \in Nat \ {0} /\ n \in Nat
      /\ \A i \in 1 .. m - 1 : Tail(o)[i] = o[i + 1]
  BY <1>2, <1>4, HeadTailProperties, LenProperties, EmptySeq
<1>6. /\ Len(Rest(c)) <= Len(client[c].asked) /\ Len(Rest(c)) \in Nat /\ Len(client[c].asked) \in Nat
      /\ Kind[c] = "bench" =>
           /\ Len(Rest(c)) = Len(client[c].asked) - 1
           /\ \A i \in 1 .. Len(Rest(c)) : Rest(c)[i] = client[c].asked[i + 1]
      /\ Kind[c] # "bench" => Rest(c) = <<>> /\ Len(Rest(c)) = 0
  BY <1>1, <1>2, RestIn
<1>7. link[c] \in {"open", "quitting", "closed"}
  BY <1>1, <1>2 DEF Types, ClientInv, Connected
<1>8. Connected(c)'
  <2>1. Len(Rest(c)) <= s
    <3>1. Len(client[c].asked) <= s
      BY <1>1 DEF ClientInv, Connected
    <3> QED
      BY <1>4, <1>6, <3>1
  <2>2. Kind[c] = "shell" => Len(Rest(c)) <= 1
    BY <1>6
  <2>3. ASSUME NEW i \in 1 .. Len(Rest(c))
        PROVE  Rest(c)[i] \in Sendable(c)
    <3>1. Kind[c] = "bench"
      BY <1>6
    <3>2. i + 1 \in 1 .. Len(client[c].asked)
      BY <1>6, <3>1
    <3> QED
      BY <1>1, <1>6, <3>1, <3>2 DEF ClientInv, Connected
  <2> QED
    BY <1>1, <1>2, <1>7, <2>1, <2>2, <2>3 DEF ClientInv, Connected
<1>9. ASSUME NEW i \in 1 .. n, LET request == inbox[c][i].request
                               IN request # Junk /\ IsWrite(request)
      PROVE  LET request == inbox[c][i].request
             IN Entry(request)[2] \in owed'[Entry(request)[1]]
  <2> DEFINE request == inbox[c][i].request
             k == Entry(request)[1]
  <2>1. request \in Sendable(c) /\ Entry(request)[2] \in owed[k]
    BY <1>1, <1>9 DEF ClientInv, InOrder
  <2>2. k \in Key
    BY <1>9, <2>1, SentIsProper
  <2>3. ~ Confirms(c, k)
    <3>1. ASSUME Confirms(c, k) PROVE FALSE
      <4>1. k # k
        BY <1>2, <1>9, <2>2, <3>1, ConfirmedWrite
      <4> QED
        BY <4>1
    <3> QED
      BY <3>1
  <2> HIDE DEF request, k
  <2>4. owed'[k] = owed[k]
    BY <1>3, <2>2, <2>3
  <2> QED
    BY <2>1, <2>4 DEF request, k
<1>10. InOrder(c)'
  <2>1. /\ link[c] \in {"open", "quitting"} =>
             \A i \in 1 .. n : inbox[c][i].id = s - n + i
        /\ link[c] \in {"open", "quitting"} => n <= s
        /\ \A i \in 1 .. n : inbox[c][i].request \in Sendable(c)
        /\ \A i \in 1 .. m : o[i].of \in 1 .. s - n
        /\ \A i, j \in 1 .. m : i <= j => o[i].of <= o[j].of
    BY <1>1 DEF ClientInv, InOrder
  <2>2. \A i \in 1 .. m - 1 : i + 1 \in 1 .. m /\ \A j \in 1 .. m - 1 : i <= j => i + 1 <= j + 1
    <3> HIDE DEF m
    <3> QED
      BY <1>5
  <2>3. \A i \in 1 .. Len(outbox'[c]) : i \in 1 .. m - 1 /\ outbox'[c][i] = o[i + 1]
    BY <1>2, <1>5
  <2>4. \A i \in 1 .. Len(outbox'[c]) : outbox'[c][i].of \in 1 .. s - n
    BY <2>1, <2>2, <2>3
  <2>5. \A i, j \in 1 .. Len(outbox'[c]) : i <= j => outbox'[c][i].of <= outbox'[c][j].of
    BY <2>1, <2>2, <2>3
  <2> HIDE DEF o, m
  <2> QED
    BY <1>2, <1>9, <2>1, <2>4, <2>5 DEF InOrder
<1> QED
  BY <1>2, <1>5, <1>8, <1>10

\* A terminal that still knows what it reads has read everything.
LEMMA TerminalReads ==
  ASSUME IInv, NEW c \in Client, Kind[c] # "bench", ReadsOn(c), client'[c].exact
  PROVE  Matching(c)' /\ Truthful(c)'
<1> DEFINE s == client[c].sent
           k == Len(client[c].asked)
           n == Len(inbox[c])
           o == outbox[c]   m == Len(o)
<1>1. Types /\ ClientInv(c)
  BY DEF IInv
<1>2. /\ client[c].mode = "waiting" /\ o # <<>> /\ client'[c].asked = Rest(c)
      /\ client'[c].sent = s /\ outbox'[c] = Tail(o) /\ link' = link /\ inbox' = inbox
      /\ client[c].exact /\ Head(o).last /\ (Kind[c] = "raw" => k = 1)
  BY DEF ReadsOn
<1>3. o \in Seq(Line) /\ s \in Nat /\ inbox[c] \in Seq(Message) /\ client[c].asked \in Seq(Request)
  BY <1>1 DEF Types
<1>4. Rest(c) = <<>> /\ Len(Rest(c)) = 0
  BY <1>1, <1>2, RestIn
<1>5. n + 1 <= k /\ Head(o) = o[1] /\ o[1].of = Settled(c) + 1 /\ Settled(c) = s - k
  BY <1>1, <1>2, AnswerComing DEF Settled
<1>6. /\ Tail(o) \in Seq(Line) /\ Len(Tail(o)) = m - 1 /\ m \in Nat \ {0} /\ n \in Nat /\ k \in Nat
  BY <1>2, <1>3, HeadTailProperties, LenProperties, EmptySeq
<1>7. k = 1
  <2>1. Kind[c] \in {"shell", "raw"}
    BY SessionsAssumption
  <2>2. Kind[c] = "shell" => k <= 1
    BY <1>1 DEF ClientInv, Connected
  <2> HIDE DEF k, n
  <2> QED
    BY <1>2, <1>5, <1>6, <2>1, <2>2
<1>8. n = 0
  <2> HIDE DEF k, n
  <2> QED
    BY <1>5, <1>6, <1>7
<1>9. m = 1
  <2>1. /\ \A i \in 1 .. m - 1 : o[i].last => o[i + 1].first /\ o[i + 1].of = o[i].of + 1
    BY <1>1, <1>2 DEF ClientInv, Matching
  <2>2. \A i \in 1 .. m : o[i].of \in 1 .. s - n
    BY <1>1 DEF ClientInv, InOrder
  <2>3. ASSUME m # 1 PROVE FALSE
    <3>1. 1 \in 1 .. m - 1 /\ 1 + 1 \in 1 .. m
      <4> HIDE DEF m
      <4> QED
        BY <1>6, <2>3
    <3>2. o[1 + 1].of = o[1].of + 1
      BY <1>2, <1>5, <2>1, <3>1
    <3>3. o[1 + 1].of \in 1 .. s - n
      BY <2>2, <3>1
    <3>4. (s - k) + 1 + 1 \in 1 .. s - n
      BY <1>5, <3>2, <3>3
    <3> HIDE DEF s, k, n
    <3> QED
      BY <1>3, <1>7, <1>8, <3>4
  <2> QED
    BY <2>3
<1>10. outbox'[c] = <<>> /\ Len(outbox'[c]) = 0
  <2>1. Len(Tail(o)) = 0
    <3> HIDE DEF m
    <3> QED
      BY <1>6, <1>9
  <2> HIDE DEF o
  <2> QED
    BY <1>2, <1>6, <2>1, EmptySeq
<1>11. Len(inbox'[c]) = 0 /\ client'[c].asked = <<>> /\ Len(client'[c].asked) = 0
  BY <1>2, <1>4, <1>8
<1>12. \A i : i \notin 1 .. 0 /\ i \notin 1 .. 0 - 0 /\ i \notin 1 .. 0 - 1
  OBVIOUS
<1>13. Matching(c)'
  BY <1>10, <1>11, <1>12 DEF Matching
<1>14. Truthful(c)'
  BY <1>10, <1>11, <1>12 DEF Truthful
<1> QED
  BY <1>13, <1>14

\* The benchmark goes on to the next request of the batch.
LEMMA BenchReads ==
  ASSUME IInv, NEW c \in Client, Kind[c] = "bench", ReadsOn(c)
  PROVE  Matching(c)' /\ Truthful(c)' /\ Scripted(c)'
<1> DEFINE s == client[c].sent
           asked == client[c].asked
           k == Len(asked)
           q == inbox[c]    n == Len(q)
           o == outbox[c]   m == Len(o)
<1>1. Types /\ ClientInv(c)
  BY DEF IInv
<1>2. /\ client[c].mode = "waiting" /\ o # <<>> /\ client'[c].asked = Rest(c)
      /\ client'[c].mode = (IF Rest(c) = <<>> THEN "prompt" ELSE "waiting")
      /\ client'[c].sent = s /\ outbox'[c] = Tail(o) /\ link' = link /\ inbox' = inbox
      /\ visible' = visible
      /\ client'[c].exact = (client[c].exact /\ Head(o).last /\ (Kind[c] = "raw" => k = 1))
  BY DEF ReadsOn
<1>3. owed' = [x \in Key |-> IF Confirms(c, x) THEN Written(<<Asked(c)>>, x) ELSE owed[x]]
  BY DEF ReadsOn
<1>4. o \in Seq(Line) /\ s \in Nat /\ q \in Seq(Message) /\ asked \in Seq(Request)
  BY <1>1 DEF Types
<1>5. /\ Tail(o) \in Seq(Line) /\ Len(Tail(o)) = m - 1 /\ m \in Nat \ {0} /\ n \in Nat /\ k \in Nat
      /\ \A i \in 1 .. m - 1 : Tail(o)[i] = o[i + 1]
  BY <1>2, <1>4, HeadTailProperties, LenProperties, EmptySeq
<1>6. /\ Len(Rest(c)) = k - 1 /\ client[c].exact /\ Rest(c) \in Seq(Request)
      /\ \A i \in 1 .. k - 1 : Rest(c)[i] = asked[i + 1]
  BY <1>1, <1>2, RestIn
<1>7. /\ n + 1 <= k /\ Head(o) = o[1] /\ o[1].of = (s - k) + 1 /\ Settled(c) = s - k
  BY <1>1, <1>2, <1>6, AnswerComing DEF Settled
<1>8. Scripted(c) /\ Matching(c) /\ Truthful(c)
  BY <1>1, <1>6 DEF ClientInv
<1>9. \A i \in 1 .. m :
        /\ o[i].first /\ o[i].last /\ o[i].text[1] \in Expected(Script(c)[o[i].of])
        /\ o[i].of \in 1 .. s - n /\ o[i].of >= (s - k) + 1
  <2>1. \A i \in 1 .. m : o[i].first /\ o[i].last /\ o[i].text[1] \in Expected(Script(c)[o[i].of])
    BY <1>8 DEF Scripted
  <2>2. \A i \in 1 .. m : o[i].of \in 1 .. s - n
    BY <1>1 DEF ClientInv, InOrder
  <2>3. \A i \in 1 .. m : o[i].of > s - k
    BY <1>7, <1>8 DEF Matching
  <2>4. \A x \in 1 .. s - n : x > s - k => x >= (s - k) + 1
    <3> HIDE DEF s, n, k
    <3> QED
      BY <1>4, <1>5
  <2> QED
    BY <2>1, <2>2, <2>3, <2>4
<1>10. \A i, j \in 1 .. m : i <= j => o[i].of <= o[j].of
  BY <1>1 DEF ClientInv, InOrder
<1>11. \A i \in 1 .. m - 1 : o[i + 1].first /\ o[i + 1].of = o[i].of + 1
  <2>1. \A i \in 1 .. m - 1 : i \in 1 .. m
    <3> HIDE DEF m
    <3> QED
      BY <1>5
  <2>2. \A i \in 1 .. m - 1 : o[i].last
    BY <1>9, <2>1
  <2>3. \A i \in 1 .. m - 1 : o[i].last => o[i + 1].first /\ o[i + 1].of = o[i].of + 1
    BY <1>8 DEF Matching
  <2> QED
    BY <2>2, <2>3
<1>12. 1 \in 1 .. m
  <2> HIDE DEF m
  <2> QED
    BY <1>5
<1>13. /\ \A i \in 1 .. Len(outbox'[c]) : i \in 1 .. m - 1 /\ i + 1 \in 1 .. m /\ outbox'[c][i] = o[i + 1]
       /\ Len(outbox'[c]) = m - 1
  <2>1. \A i \in 1 .. m - 1 : i + 1 \in 1 .. m
    <3> HIDE DEF m
    <3> QED
      BY <1>5
  <2> QED
    BY <1>2, <1>5, <2>1
<1>14. Settled(c)' = s - (k - 1) /\ s - (k - 1) = (s - k) + 1
  <2>1. Settled(c)' = s - (k - 1)
    BY <1>2, <1>6 DEF Settled
  <2> HIDE DEF s, k
  <2> QED
    BY <1>4, <1>5, <2>1
<1>15. Head(o).last /\ client'[c].exact
  BY <1>2, <1>6, <1>7, <1>9, <1>12
<1>16. Len(inbox'[c]) = n /\ inbox'[c] = q /\ Len(client'[c].asked) = k - 1
  BY <1>2, <1>6
<1>17. outbox'[c] = <<>> <=> m = 1
  <2>1. outbox'[c] = <<>> <=> Len(outbox'[c]) = 0
    BY <1>2, <1>5, EmptySeq
  <2> HIDE DEF m
  <2> QED
    BY <1>5, <1>13, <2>1
<1>21. s \in Nat
  BY <1>4
<1>22. link[c] \in {"open", "quitting"} =>
         /\ \A i \in 1 .. n : q[i].request = asked[k - n + i]
         /\ o[m].last /\ o[m].of = s - n
  BY <1>2, <1>8 DEF Matching
<1>18. Matching(c)'
  <2> HIDE DEF s, k, n, m
  <2>1. ASSUME m # 1
        PROVE  1 \in 1 .. m - 1 /\ o[2].first /\ o[2].of = (s - k) + 1 + 1
    <3>1. 1 \in 1 .. m - 1 /\ 1 + 1 = 2
      BY <1>5, <2>1
    <3> QED
      BY <1>7, <1>11, <3>1
  <2>2. ASSUME NEW i \in 1 .. m - 1
        PROVE  o[i + 1].of > (s - k) + 1
    <3>1. m # 1 /\ 2 \in 1 .. m /\ i + 1 \in 1 .. m /\ 2 <= i + 1
      BY <1>5, <2>2
    <3>2. o[2].of = (s - k) + 1 + 1 /\ o[2].of <= o[i + 1].of
      BY <1>10, <2>1, <3>1
    <3>3. o[i + 1].of \in 1 .. s - n
      BY <1>9, <3>1
    <3> QED
      BY <1>5, <1>21, <3>2, <3>3
  <2>3. \A i \in 1 .. Len(outbox'[c]) : outbox'[c][i].of > Settled(c)'
    BY <1>13, <1>14, <2>2
  <2>4. outbox'[c] # <<>> => outbox'[c][1].first /\ outbox'[c][1].of = Settled(c)' + 1
    <3>1. 1 + 1 = 2
      OBVIOUS
    <3> QED
      BY <1>13, <1>14, <1>17, <2>1, <3>1
  <2>5. ASSUME NEW i \in 1 .. Len(outbox'[c]) - 1
        PROVE  outbox'[c][i + 1].first /\ outbox'[c][i + 1].of = outbox'[c][i].of + 1
    <3>1. i \in 1 .. m - 1 /\ i + 1 \in 1 .. m - 1
      BY <1>5, <1>13, <2>5
    <3>2. outbox'[c][i] = o[i + 1] /\ outbox'[c][i + 1] = o[(i + 1) + 1]
      BY <1>13, <3>1
    <3> QED
      BY <1>11, <3>1, <3>2
  <2>6. ASSUME link'[c] \in {"open", "quitting"}
        PROVE  /\ n <= k - 1
               /\ \A i \in 1 .. n : q[i].request = Rest(c)[(k - 1) - n + i]
               /\ m = 1 => n = k - 1
               /\ m # 1 => outbox'[c][m - 1].last /\ outbox'[c][m - 1].of = s - n
    <3>1. /\ \A i \in 1 .. n : q[i].request = asked[k - n + i]
          /\ o[m].last /\ o[m].of = s - n
      BY <1>2, <1>22, <2>6
    <3>2. n <= k - 1
      BY <1>5, <1>7
    <3>3. ASSUME NEW i \in 1 .. n
          PROVE  q[i].request = Rest(c)[(k - 1) - n + i]
      <4>1. (k - 1) - n + i \in 1 .. k - 1 /\ ((k - 1) - n + i) + 1 = k - n + i
        BY <1>5, <3>2
      <4>2. Rest(c)[(k - 1) - n + i] = asked[k - n + i]
        BY <1>6, <4>1
      <4> QED
        BY <3>1, <4>2
    <3>4. m = 1 => n = k - 1
      <4>1. m = 1 => s - n = (s - k) + 1
        BY <1>7, <3>1
      <4> QED
        BY <1>5, <1>21, <4>1
    <3>5. m # 1 => outbox'[c][m - 1] = o[m]
      <4>1. m # 1 => m - 1 \in 1 .. m - 1 /\ (m - 1) + 1 = m
        BY <1>5
      <4> QED
        BY <1>13, <4>1
    <3> QED
      BY <3>1, <3>2, <3>3, <3>4, <3>5
  <2>7. /\ link'[c] \in {"open", "quitting"} =>
             /\ Len(inbox'[c]) <= Len(client'[c].asked)
             /\ \A i \in 1 .. Len(inbox'[c]) :
                  inbox'[c][i].request = client'[c].asked[Len(client'[c].asked) - Len(inbox'[c]) + i]
             /\ outbox'[c] = <<>> => Len(inbox'[c]) = Len(client'[c].asked)
             /\ outbox'[c] # <<>> => /\ outbox'[c][Len(outbox'[c])].last
                                     /\ outbox'[c][Len(outbox'[c])].of = client'[c].sent - Len(inbox'[c])
    BY <1>2, <1>13, <1>16, <1>17, <2>6
  <2> QED
    BY <2>3, <2>4, <2>5, <2>7 DEF Matching
<1>19. Truthful(c)'
  <2>1. ASSUME link'[c] \in {"open", "quitting"}, NEW i \in 1 .. (k - 1) - n,
               Rest(c)[i] # Junk, IsWrite(Rest(c)[i])
        PROVE  visible[Entry(Rest(c)[i])[1]] = Entry(Rest(c)[i])[2]
    <3>1. i \in 1 .. k - 1 /\ i + 1 \in 1 .. k - n
      <4> HIDE DEF k, n
      <4> QED
        BY <1>5
    <3>2. Rest(c)[i] = asked[i + 1]
      BY <1>6, <3>1
    <3> QED
      BY <1>2, <1>8, <2>1, <3>1, <3>2 DEF Truthful
  <2>2. ASSUME NEW i \in 1 .. m - 1, NEW x \in Key, o[i + 1].first, Owner[x] = c,
               Rest(c)[o[i + 1].of - ((s - k) + 1)] = <<"GET", x>>
        PROVE  Shown(o[i + 1].text) \in owed'[x]
    <3> DEFINE j == o[i + 1].of - ((s - k) + 1)
    <3>1. i + 1 \in 1 .. m /\ i + 1 >= 2 /\ 2 \in 1 .. m /\ 1 \in 1 .. m - 1 /\ 1 + 1 = 2
      <4> HIDE DEF m
      <4> QED
        BY <1>5
    <3>2. o[2].of = (s - k) + 1 + 1 /\ o[2].of <= o[i + 1].of /\ o[i + 1].of \in 1 .. s - n
      BY <1>7, <1>9, <1>10, <1>11, <3>1
    <3>3. j \in 1 .. k - 1 /\ j + 1 = o[i + 1].of - (s - k) /\ j + 1 \in 1 .. k /\ 1 \in 1 .. k
      <4> HIDE DEF s, k, n
      <4>1. \A y \in 1 .. s - n : (s - k) + 1 + 1 <= y =>
              /\ y - ((s - k) + 1) \in 1 .. k - 1 /\ (y - ((s - k) + 1)) + 1 = y - (s - k)
              /\ (y - ((s - k) + 1)) + 1 \in 1 .. k /\ 1 \in 1 .. k
        BY <1>5, <1>21
      <4> QED
        BY <3>2, <4>1
    <3>4. asked[o[i + 1].of - (s - k)] = <<"GET", x>> /\ asked[j + 1] = <<"GET", x>>
      BY <1>6, <2>2, <3>3
    <3>5. Shown(o[i + 1].text) \in owed[x]
      BY <1>7, <1>8, <2>2, <3>1, <3>4 DEF Truthful
    <3>6. ASSUME Confirms(c, x)
          PROVE  FALSE
      <4>1. IsWrite(Asked(c)) /\ Asked(c) = asked[1]
        BY <1>1, <1>2, <1>6, <3>6, ConfirmedWrite, AnswerComing DEF Asked
      <4>2. Head(asked[1]) = Head(asked[j + 1])
        BY <1>8, <3>3 DEF Scripted
      <4>3. Head(<<"GET", x>>) = "GET"
        OBVIOUS
      <4>4. asked[1] = Script(c)[(s - k) + 1] /\ (s - k) + 1 \in 1 .. Len(Script(c))
        <5>1. asked[1] = Script(c)[(s - k) + 1]
          BY <1>7, <1>8, <3>3 DEF Scripted
        <5>2. s <= Len(Script(c)) /\ k <= s
          BY <1>1, <1>8 DEF Scripted, ClientInv, Connected
        <5>3. Len(Script(c)) \in Nat
          BY ScriptPhases, LenProperties
        <5> HIDE DEF s, k
        <5>4. (s - k) + 1 \in 1 .. Len(Script(c))
          BY <1>5, <1>21, <3>3, <5>2, <5>3
        <5> QED
          BY <5>1, <5>4
      <4>5. asked[1] \in BenchRequest /\ BenchValue \in Value
        BY <4>4, ScriptRequest
      <4>6. Head(asked[1]) \in {"PUT", "DEL"}
        BY <4>1, <4>5, BenchCommands
      <4> QED
        BY <3>4, <4>2, <4>3, <4>6
    <3> QED
      BY <1>3, <3>5, <3>6
  <2>3. \A i \in 1 .. Len(outbox'[c]) : \A x \in Key :
          /\ outbox'[c][i].first /\ Owner[x] = c
          /\ client'[c].asked[outbox'[c][i].of - Settled(c)'] = <<"GET", x>>
          => Shown(outbox'[c][i].text) \in owed'[x]
    BY <1>2, <1>13, <1>14, <2>2
  <2>4. link'[c] \in {"open", "quitting"} /\ (Kind[c] = "raw" => Len(client'[c].asked) = 1) =>
          \A i \in 1 .. Len(client'[c].asked) - Len(inbox'[c]) :
            client'[c].asked[i] # Junk /\ IsWrite(client'[c].asked[i]) =>
              visible'[Entry(client'[c].asked[i])[1]] = Entry(client'[c].asked[i])[2]
    BY <1>2, <1>16, <2>1
  <2> QED
    BY <2>3, <2>4 DEF Truthful
<1>20. Scripted(c)'
  <2>1. \A i \in 1 .. k - 1 : i + 1 \in 1 .. k /\ (s - k) + (i + 1) = s - (k - 1) + i
    <3> HIDE DEF s, k
    <3> QED
      BY <1>5, <1>21
  <2>2. \A i \in 1 .. k - 1 : Rest(c)[i] = Script(c)[s - (k - 1) + i]
    <3>1. \A i \in 1 .. k : asked[i] = Script(c)[(s - k) + i]
      BY <1>7, <1>8 DEF Scripted
    <3> QED
      BY <1>6, <2>1, <3>1
  <2>3. \A i, j \in 1 .. k - 1 : Head(Rest(c)[i]) = Head(Rest(c)[j])
    <3>1. \A i, j \in 1 .. k : Head(asked[i]) = Head(asked[j])
      BY <1>8 DEF Scripted
    <3>2. ASSUME NEW i \in 1 .. k - 1, NEW j \in 1 .. k - 1
          PROVE  Head(Rest(c)[i]) = Head(Rest(c)[j])
      <4>1. Rest(c)[i] = asked[i + 1] /\ Rest(c)[j] = asked[j + 1]
        BY <1>6
      <4>2. Head(asked[i + 1]) = Head(asked[j + 1])
        BY <2>1, <3>1
      <4> QED
        BY <4>1, <4>2
    <3> QED
      BY <3>2
  <2>4. \A i \in 1 .. Len(outbox'[c]) :
          LET line == outbox'[c][i]
          IN line.first /\ line.last /\ line.text[1] \in Expected(Script(c)[line.of])
    BY <1>9, <1>13
  <2>5. s <= Len(Script(c))
    BY <1>8 DEF Scripted
  <2>6. link[c] \in {"open", "quitting"} =>
          LET z == Len(Keys[c]) done == s - n
          IN \A j \in 1 .. z : z + j <= done /\ done < 4 * z + j => visible[Keys[c][j]] # Absent
    BY <1>8 DEF Scripted
  <2>7. link'[c] \in {"open", "quitting"} =>
          LET z == Len(Keys[c]) done == client'[c].sent - Len(inbox'[c])
          IN \A j \in 1 .. z : z + j <= done /\ done < 4 * z + j => visible'[Keys[c][j]] # Absent
    BY <1>2, <2>6
  <2>8. /\ client'[c].mode # "failed"
        /\ client'[c].mode = "waiting" => client'[c].asked # <<>>
    BY <1>2
  <2>9. Settled(c)' = s - (k - 1)
    BY <1>14
  <2>10. /\ client'[c].exact /\ client'[c].sent <= Len(Script(c))
         /\ \A i \in 1 .. Len(client'[c].asked) : client'[c].asked[i] = Script(c)[Settled(c)' + i]
         /\ \A i, j \in 1 .. Len(client'[c].asked) : Head(client'[c].asked[i]) = Head(client'[c].asked[j])
    BY <1>2, <1>15, <1>16, <2>2, <2>3, <2>5, <2>9
  <2> QED
    BY <2>4, <2>7, <2>8, <2>10 DEF Scripted
<1> QED
  BY <1>18, <1>19, <1>20

\* QUIT writes nothing.
LEMMA QuitConfirmsNothing ==
  ASSUME IInv, NEW c \in Client, outbox[c] # <<>>, Quits(c) \/ Done(c), NEW k \in Key
  PROVE  ~ Confirms(c, k)
<1> SUFFICES ASSUME Confirms(c, k) PROVE FALSE
  OBVIOUS
<1>1. IsWrite(Asked(c)) /\ client[c].exact
  BY ConfirmedWrite DEF Confirms, Attributed
<1>2. Asked(c) = client[c].asked[1]
  BY <1>1, AnswerComing DEF IInv, Asked
<1>3. Head(client[c].asked[1]) = "QUIT"
  <2>1. CASE Quits(c)
    BY <2>1 DEF Quits
  <2>2. CASE Done(c)
    <3>1. client[c].asked[1] = <<"QUIT">>
      BY <2>2 DEF Done
    <3>2. Head(<<"QUIT">>) = "QUIT"
      OBVIOUS
    <3> QED
      BY <3>1, <3>2
  <2> QED
    BY <2>1, <2>2
<1>4. Command(Asked(c)) = "QUIT"
  <2>1. Command(<<>>) = ""
    BY DEF Command
  <2>2. Asked(c) # <<>>
    BY <1>1, <2>1 DEF IsWrite, Is
  <2> QED
    BY <1>2, <1>3, <2>2 DEF Command, Upper
<1> QED
  BY <1>1, <1>4 DEF IsWrite, Is

LEMMA ReadsOnKeeps ==
  ASSUME IInv, NEW c \in Client, ReadsOn(c), outbox' = [outbox EXCEPT ![c] = outbox'[c]],
         client' = [client EXCEPT ![c] = client'[c]],
         client'[c] \in [mode : {"off", "prompt", "waiting", "failed"}, sent : Nat,
                         asked : Seq(Request), exact : BOOLEAN],
         UNCHANGED <<engineVars, logged, serving, left, stops>>
  PROVE  IInv'
<1>1. Types /\ Busy /\ Holds /\ ClientInv(c)
  BY DEF IInv
<1>2. /\ kept' = kept /\ visible' = visible /\ writing' = writing /\ running' = running
      /\ damaged' = damaged
  BY DEF engineVars
<1>3. link' = link /\ inbox' = inbox /\ outbox[c] # <<>>
      /\ owed' = [k \in Key |-> IF Confirms(c, k) THEN Written(<<Asked(c)>>, k) ELSE owed[k]]
  BY DEF ReadsOn
<1>4. \A k \in Key : Confirms(c, k) =>
        LET w == Entry(Asked(c)) IN
        /\ Owner[k] = c /\ w[2] \in Held /\ owed'[k] = {w[2]}
        /\ running /\ visible[k] = w[2] /\ (logged /\ ~ damaged => kept[1][k] = w[2])
  BY <1>3, ConfirmedWrite
<1>5. owed' \in [Key -> SUBSET Held]
  <2>1. ASSUME NEW k \in Key
        PROVE  (IF Confirms(c, k) THEN Written(<<Asked(c)>>, k) ELSE owed[k]) \in SUBSET Held
    BY <1>1 DEF Types, Written
  <2> QED
    BY <1>3, <2>1
<1>6. \A k \in Key : ~ Confirms(c, k) => owed'[k] = owed[k]
  BY <1>3
<1>7. Connected(c)' /\ InOrder(c)' /\ outbox'[c] \in Seq(Line)
  BY ReadsOnInOrder
<1>8. Types'
  <2>1. outbox' \in [Client -> Seq(Line)]
    BY <1>1, <1>7 DEF Types
  <2>2. client' \in [Client -> [mode : {"off", "prompt", "waiting", "failed"}, sent : Nat,
                                asked : Seq(Request), exact : BOOLEAN]]
    BY <1>1 DEF Types
  <2> QED
    BY <1>1, <1>2, <1>3, <1>5, <2>1, <2>2 DEF Types
<1>9. Busy'
  BY <1>1, <1>2, <1>3 DEF Busy
<1>10. Holds'
  <2>1. \A k \in Key : running => visible[k] \in owed'[k]
    <3>1. \A k \in Key : running => visible[k] \in owed[k]
      BY <1>1 DEF Holds
    <3> QED
      BY <1>4, <1>6, <3>1
  <2>2. \A k \in Key : ~ running \/ (logged /\ ~ damaged) => kept[1][k] \in owed'[k]
    <3>1. \A k \in Key : ~ running \/ (logged /\ ~ damaged) => kept[1][k] \in owed[k]
      BY <1>1 DEF Holds
    <3> QED
      BY <1>4, <1>6, <3>1
  <2> QED
    BY <1>1, <1>2, <2>1, <2>2 DEF Holds
<1>11. ClientInv(c)'
  <2>1. CASE Kind[c] = "bench"
    BY <1>7, <2>1, BenchReads DEF ClientInv
  <2>2. CASE Kind[c] # "bench"
    BY <1>7, <2>2, TerminalReads DEF ClientInv
  <2> QED
    BY <2>1, <2>2
<1>12. ASSUME NEW d \in Client \ {c}
       PROVE  ClientInv(d)'
  <2>1. client'[d] = client[d] /\ outbox'[d] = outbox[d]
    BY <1>1 DEF Types
  <2>2. \A k \in Key : Owner[k] = d => owed[k] \subseteq owed'[k]
    BY <1>4, <1>6
  <2> QED
    BY <1>1, <1>2, <1>3, <2>1, <2>2, OtherClient DEF IInv
<1> QED
  BY <1>8, <1>9, <1>10, <1>11, <1>12 DEF IInv

LEMMA ReadLineKeeps ==
  ASSUME IInv, NEW c \in Client, ReadLine(c),
         owed' = [k \in Key |-> IF Confirms(c, k) THEN Written(<<Asked(c)>>, k) ELSE owed[k]]
  PROVE  IInv'
<1> DEFINE me == client[c]
<1>1. Types /\ ClientInv(c)
  BY DEF IInv
<1>2. client[c].mode = "waiting" /\ outbox[c] # <<>>
  BY DEF ReadLine
<1>3. ~ (Kind[c] = "bench" /\ Head(outbox[c]).text[1] \notin Expected(Head(client[c].asked)))
  BY <1>1, <1>2, BenchExpects
<1>4. CASE Quits(c) \/ Done(c)
  <2>1. Gone(c, "off")
    BY <1>3, <1>4 DEF ReadLine
  <2>2. owed' = owed
    <3>1. \A k \in Key : ~ Confirms(c, k)
      BY <1>2, <1>4, QuitConfirmsNothing
    <3>2. owed' = [k \in Key |-> owed[k]]
      BY <3>1
    <3> QED
      BY <1>1, <3>2 DEF Types
  <2> QED
    BY <1>2, <2>1, <2>2, GoneKeeps
<1>5. CASE ~ (Quits(c) \/ Done(c))
  <2> DEFINE after == [me EXCEPT !.mode = IF Rest(c) = <<>> THEN "prompt" ELSE "waiting",
                                 !.asked = Rest(c),
                                 !.exact = /\ me.exact /\ Head(outbox[c]).last
                                           /\ Kind[c] = "raw" => Len(me.asked) = 1]
  <2>1. /\ client' = [client EXCEPT
             ![c].mode = IF Rest(c) = <<>> THEN "prompt" ELSE "waiting",
             ![c].asked = Rest(c),
             ![c].exact = @ /\ Head(outbox[c]).last /\ (Kind[c] = "raw" => Len(me.asked) = 1)]
        /\ outbox' = [outbox EXCEPT ![c] = Tail(outbox[c])]
        /\ UNCHANGED <<engineVars, logged, link, inbox, serving, left, stops>>
    BY <1>3, <1>5 DEF ReadLine, Rest, AfterLine
  <2>2. client' = [client EXCEPT ![c] = after]
    BY <2>1
  <2>3. client[c] \in [mode : {"off", "prompt", "waiting", "failed"}, sent : Nat,
                       asked : Seq(Request), exact : BOOLEAN]
    BY <1>1 DEF Types
  <2>4. Rest(c) \in Seq(Request) /\ Head(outbox[c]).last \in BOOLEAN
    <3>1. outbox[c] \in Seq(Line)
      BY <1>1 DEF Types
    <3>2. Head(outbox[c]) \in Line
      BY <1>2, <3>1, HeadTailProperties
    <3> QED
      BY <1>1, <1>2, <3>2, RestIn DEF Line
  <2>5. after \in [mode : {"off", "prompt", "waiting", "failed"}, sent : Nat,
                   asked : Seq(Request), exact : BOOLEAN]
    BY <2>3, <2>4
  <2>6. /\ after.mode = (IF Rest(c) = <<>> THEN "prompt" ELSE "waiting")
        /\ after.asked = Rest(c) /\ after.sent = client[c].sent
        /\ after.exact = (/\ client[c].exact /\ Head(outbox[c]).last
                          /\ Kind[c] = "raw" => Len(client[c].asked) = 1)
    BY <2>3
  <2> HIDE DEF after
  <2>7. client'[c] = after /\ outbox'[c] = Tail(outbox[c])
    BY <1>1, <2>1, <2>2 DEF Types
  <2>8. ReadsOn(c)
    BY <1>2, <2>1, <2>6, <2>7 DEF ReadsOn, engineVars
  <2> QED
    BY <2>1, <2>2, <2>5, <2>7, <2>8, ReadsOnKeeps
<1> QED
  BY <1>4, <1>5

-----------------------------------------------------------------------------
(* The invariant holds, and with it what users rely on.                     *)

LEMMA IInvInit == HInit => IInv
<1> SUFFICES ASSUME HInit PROVE IInv
  OBVIOUS
<1>1. /\ kept = <<Engine!Empty>> /\ visible = Engine!Empty /\ writing = {} /\ running = FALSE
      /\ damaged = FALSE /\ logged = TRUE
  BY DEF HInit, Init, Engine!Init, Engine!None
<1>2. /\ client = [c \in Client |-> Off] /\ link = [c \in Client |-> "none"]
      /\ inbox = [c \in Client |-> <<>>] /\ outbox = [c \in Client |-> <<>>]
      /\ serving = Nobody /\ owed = [k \in Key |-> {Absent}]
  BY DEF HInit, Init
<1>3. left \in [Client -> Nat] /\ stops \in Nat
  BY SessionsAssumption DEF HInit, Init
<1>4. Engine!Empty \in [Key -> Held] /\ \A k \in Key : Engine!Empty[k] = Absent
  BY DEF Engine!Empty, Held
<1> HIDE DEF Engine!Empty
<1>5. kept \in Seq([Key -> Held]) /\ Len(kept) = 1 /\ kept[1] = Engine!Empty
  BY <1>1, <1>4, OneElement
<1>6. Types
  <2>1. Off \in [mode : {"off", "prompt", "waiting", "failed"}, sent : Nat,
                 asked : Seq(Request), exact : BOOLEAN]
    BY EmptySeq DEF Off
  <2>2. \A S : <<>> \in Seq(S)
    BY EmptySeq
  <2>3. owed \in [Key -> SUBSET Held]
    BY <1>2 DEF Held
  <2> QED
    BY <1>1, <1>2, <1>3, <1>4, <1>5, <2>1, <2>2, <2>3 DEF Types
<1>7. Busy
  BY <1>1, <1>2 DEF Busy
<1>8. Holds
  BY <1>1, <1>2, <1>4, <1>5 DEF Holds, MayHold, Held
<1>9. ASSUME NEW c \in Client
      PROVE  ClientInv(c)
  <2>1. /\ client[c] = Off /\ link[c] = "none" /\ inbox[c] = <<>> /\ outbox[c] = <<>>
        /\ Off.asked = <<>> /\ Off.sent = 0 /\ Off.exact /\ Off.mode = "off"
        /\ [Off EXCEPT !.mode = "off"] = Off
    BY <1>2 DEF Off
  <2>2. Connected(c)
    BY <2>1 DEF Connected
  <2>3. InOrder(c)
    BY <2>1 DEF InOrder
  <2>4. Matching(c) /\ Truthful(c)
    BY <2>1 DEF Matching, Truthful
  <2>5. Kind[c] = "bench" => Scripted(c)
    <3>1. Kind[c] = "bench" => Len(Script(c)) \in Nat
      BY ScriptPhases, LenProperties
    <3> QED
      BY <2>1, <3>1 DEF Scripted
  <2> QED
    BY <2>2, <2>3, <2>4, <2>5 DEF ClientInv
<1> QED
  BY <1>6, <1>7, <1>8, <1>9 DEF IInv

LEMMA IInvStep ==
  ASSUME IInv, [HNext]_hvars
  PROVE  IInv'
<1>1. ASSUME NEW c \in Client, Submit(c),
             owed' = [k \in Key |-> owed[k] \union Written(client'[c].asked, k)]
      PROVE  IInv'
  BY <1>1, SubmitKeeps
<1>2. ASSUME NEW c \in Client, ReadLine(c),
             owed' = [k \in Key |-> IF Confirms(c, k) THEN Written(<<Asked(c)>>, k) ELSE owed[k]]
      PROVE  IInv'
  BY <1>2, ReadLineKeeps
<1>3. ASSUME NEW c \in Client, UNCHANGED owed,
             Connect(c) \/ Leave(c) \/ EndOfFile(c) \/ ServerStep(c) \/ Drop(c)
      PROVE  IInv'
  <2>1. CASE Connect(c)
    BY <1>3, <2>1, ConnectKeeps
  <2>2. CASE Leave(c)
    BY <1>3, <2>2, GoneKeeps DEF Leave
  <2>3. CASE EndOfFile(c)
    BY <1>3, <2>3, GoneKeeps DEF EndOfFile
  <2>4. CASE Begin(c)
    BY <1>3, <2>4, BeginKeeps
  <2>5. CASE End(c)
    BY <1>3, <2>5, EndKeeps
  <2>6. CASE Refuse(c)
    BY <1>3, <2>6, RefuseKeeps
  <2>7. CASE Drop(c)
    BY <1>3, <2>7, DropKeeps
  <2> QED
    BY <1>3, <2>1, <2>2, <2>3, <2>4, <2>5, <2>6, <2>7 DEF ServerStep
<1>4. ASSUME NEW wal \in BOOLEAN, StartServer(wal),
             owed' = IF wal THEN owed ELSE [k \in Key |-> owed[k] \union {Absent}]
      PROVE  IInv'
  BY <1>4, StartKeeps
<1>5. ASSUME KillServer \/ StopServer,
             owed' = IF logged /\ ~ damaged THEN owed ELSE [k \in Key |-> Held]
      PROVE  IInv'
  BY <1>5, StopKeeps
<1>6. CASE UNCHANGED hvars
  <2>1. /\ UNCHANGED <<kept, visible, writing, running, damaged, logged, client, link, inbox, outbox>>
        /\ UNCHANGED <<serving, left, stops, owed>>
    BY <1>6 DEF hvars, vars, engineVars, connVars
  <2>2. Types' /\ Busy' /\ Holds'
    BY <2>1 DEF IInv, Types, Busy, Holds
  <2>3. \A c \in Client : ClientInv(c)'
    BY <2>1, NothingMoves
  <2> QED
    BY <2>2, <2>3 DEF IInv
<1> QED
  BY <1>1, <1>2, <1>3, <1>4, <1>5, <1>6 DEF HNext

\* The invariant behind the results below: who waits for what, what is on its way
\* between a client and the server, and what the keys may hold.
THEOREM SessionsInvariantHolds == FairHSpec => []IInv
BY IInvInit, IInvStep, PTL DEF FairHSpec

\* Every variable keeps its type; an answer on its way belongs to a request that was
\* sent, and the server is only in the middle of a request that it still has
\* (Server.cpp ProcessRequests, client_main.cpp main).
THEOREM SessionsTypeCorrect == FairHSpec => []TypeOK
<1>1. IInv => TypeOK
  <2> SUFFICES ASSUME IInv PROVE TypeOK
    OBVIOUS
  <2>1. Types /\ Busy /\ Holds
    BY DEF IInv
  <2>2. ASSUME NEW k \in Key
        PROVE  owed[k] \subseteq Held /\ owed[k] # {}
    BY <2>1 DEF Types, Holds
  <2>3. ASSUME NEW c \in Client
        PROVE  /\ client[c].mode \in {"off", "prompt", "waiting", "failed"}
               /\ client[c].sent \in Nat /\ client[c].exact \in BOOLEAN
               /\ link[c] \in {"none", "open", "quitting", "closed", "gone"}
               /\ (client[c].mode \in {"off", "failed"} <=> link[c] \in {"none", "gone"})
               /\ \A i \in 1 .. Len(outbox[c]) : outbox[c][i].of \in 1 .. client[c].sent
               /\ left[c] \in Nat
    <3>1. /\ client[c].mode \in {"off", "prompt", "waiting", "failed"}
          /\ client[c].sent \in Nat /\ client[c].exact \in BOOLEAN
          /\ link[c] \in {"none", "open", "quitting", "closed", "gone"}
          /\ left[c] \in Nat /\ inbox[c] \in Seq(Message)
      BY <2>1 DEF Types
    <3>2. client[c].mode \in {"off", "failed"} <=> link[c] \in {"none", "gone"}
      BY DEF IInv, ClientInv, Connected
    <3>3. \A i \in 1 .. Len(outbox[c]) : outbox[c][i].of \in 1 .. client[c].sent - Len(inbox[c])
      BY DEF IInv, ClientInv, InOrder
    <3>4. Len(inbox[c]) \in Nat
      BY <3>1, LenProperties
    <3>5. \A x \in 1 .. client[c].sent - Len(inbox[c]) : x \in 1 .. client[c].sent
      BY <3>1, <3>4
    <3> QED
      BY <3>1, <3>2, <3>3, <3>5
  <2>4. serving # Nobody => running /\ inbox[serving] # <<>>
    BY <2>1 DEF Types, Busy
  <2>5. logged \in BOOLEAN /\ stops \in Nat
    BY <2>1 DEF Types
  <2> QED
    BY <2>2, <2>3, <2>4, <2>5 DEF TypeOK
<1> QED
  BY <1>1, SessionsInvariantHolds, PTL

\* For any number of benchmark clients with keys of their own, any pipeline depth and
\* whatever terminals do to other keys, no benchmark client is answered what it does
\* not expect, nor after earlier runs of it that were cut off
\* (benchmark_main.cpp run_phase and expect_prefix).
THEOREM BenchmarkSucceedsHolds == FairHSpec => []BenchmarkSucceeds
<1>1. IInv => BenchmarkSucceeds
  BY DEF IInv, ClientInv, Connected, BenchmarkSucceeds
<1> QED
  BY <1>1, SessionsInvariantHolds, PTL

\* A line that is shown is the beginning of the answer to the request it is shown
\* for, until an answer with a value of several lines or a batch of none or several
\* requests has come before it (client_main.cpp ReadLine, benchmark_main.cpp
\* run_phase).
THEOREM LinesBelongHolds == FairHSpec => LinesBelong
<1>1. IInv => [\A c \in Client : ReadLine(c) /\ client[c].exact /\ client[c].asked # <<>> =>
                 /\ Head(outbox[c]).first
                 /\ Head(outbox[c]).of = client[c].sent - Len(client[c].asked) + 1]_hvars
  <2> SUFFICES ASSUME IInv, NEW c \in Client, ReadLine(c), client[c].exact
               PROVE  /\ Head(outbox[c]).first
                      /\ Head(outbox[c]).of = client[c].sent - Len(client[c].asked) + 1
    OBVIOUS
  <2>1. outbox[c] # <<>>
    BY DEF ReadLine
  <2> QED
    BY <2>1, AnswerComing DEF IInv, Settled
<1> QED
  BY <1>1, SessionsInvariantHolds, PTL DEF LinesBelong

\* The owner of a key reads what was confirmed to it, or what it sent later, whatever
\* clients end and servers are killed, stopped and restarted in between, unless the
\* server was stopped with a damaged log or without one (CommandProcessor::Execute,
\* KVStore recovery).
THEOREM ReadsOwnWritesHolds == FairHSpec => ReadsOwnWrites
<1>1. IInv => [\A c \in Client, k \in Key :
                 ReadLine(c) /\ Owner[k] = c /\ Attributed(c) /\ Asked(c) = <<"GET", k>> =>
                   (IF Head(outbox[c]).text = <<"NOT_FOUND">> THEN Absent
                    ELSE Head(outbox[c]).text[2]) \in owed[k]]_hvars
  <2> SUFFICES ASSUME IInv, NEW c \in Client, NEW k \in Key, ReadLine(c), Owner[k] = c,
                      Attributed(c), Asked(c) = <<"GET", k>>
               PROVE  Shown(Head(outbox[c]).text) \in owed[k]
    BY DEF Shown
  <2>1. outbox[c] # <<>> /\ client[c].exact /\ Types /\ ClientInv(c)
    BY DEF ReadLine, Attributed, IInv
  <2>2. /\ Head(outbox[c]) = outbox[c][1] /\ Head(client[c].asked) = client[c].asked[1]
        /\ outbox[c][1].first /\ outbox[c][1].of = Settled(c) + 1
        /\ Settled(c) + 1 \in 1 .. client[c].sent
    BY <2>1, AnswerComing
  <2>3. outbox[c][1].of - Settled(c) = 1
    <3>1. client[c].sent \in Nat /\ client[c].asked \in Seq(Request)
      BY <2>1 DEF Types
    <3>2. Settled(c) \in Int
      BY <3>1, LenProperties DEF Settled
    <3> QED
      BY <2>2, <3>2
  <2>4. 1 \in 1 .. Len(outbox[c])
    <3>1. outbox[c] \in Seq(Line)
      BY <2>1 DEF Types
    <3>2. Len(outbox[c]) \in Nat /\ Len(outbox[c]) # 0
      BY <2>1, <3>1, LenProperties, EmptySeq
    <3> QED
      BY <3>2
  <2>5. client[c].asked[1] = <<"GET", k>>
    BY <2>2 DEF Asked
  <2>6. Truthful(c)
    BY <2>1 DEF ClientInv
  <2> QED
    BY <2>2, <2>3, <2>4, <2>5, <2>6 DEF Truthful
<1> QED
  BY <1>1, SessionsInvariantHolds, PTL DEF ReadsOwnWrites

=============================================================================

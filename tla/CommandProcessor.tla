-------------------------- MODULE CommandProcessor --------------------------
(***************************************************************************)
(* CommandProcessor of src/Protocol.cpp: what a request does to the engine *)
(* and what is answered.  The engine is the abstract one, DurableStore,    *)
(* which module KVStore implements; without a log nothing of it is used    *)
(* but the index.                                                          *)
(*                                                                         *)
(* A request is the sequence of its tokens.  An answer is the sequence of  *)
(* its lines: more than one if a value in it contains line ends.           *)
(***************************************************************************)
EXTENDS Integers, Sequences, FiniteSets

CONSTANTS
  Key, Value, Absent,
  TwoLines,  \* the values that contain a line end
  Blank      \* the empty token

ASSUME CommandAssumption ==
  /\ Key \subseteq Nat /\ TwoLines \subseteq Value /\ Absent \notin Value
  /\ Blank \notin Key \union Value

VARIABLES
  kept, visible, writing, running, damaged,  \* those of DurableStore
  logged  \* enable_wal

Engine == INSTANCE DurableStore
engineVars == <<kept, visible, writing, running, damaged>>

\* The number of arguments of each command.
Arity == [PING |-> 0, GET |-> 1, DEL |-> 1, SCAN |-> 2, QUIT |-> 0,
          CHECKPOINT |-> 0, PUT |-> 2]

\* ToUpper; one word stands for all that are not in capitals.
Upper(word) == IF word = "qUIT" THEN "QUIT" ELSE word

\* The empty request, *0, has no first token.
Command(request) == IF request = <<>> THEN "" ELSE Upper(Head(request))
WellFormed(request) ==
  /\ Command(request) \in DOMAIN Arity
  /\ Len(request) = 1 + Arity[Command(request)]
  /\ Command(request) = "PUT" => Blank \notin {request[2], request[3]}

Is(request, command) == WellFormed(request) /\ Command(request) = command

-----------------------------------------------------------------------------
(* Answers of commands that change nothing.                                 *)

\* The line that begins an answer, and those that its values make of it.
Answer(first, values) == <<first>> \o [i \in 1 .. values |-> <<"rest">>]
Plain(word) == Answer(<<word>>, 0)

Ill(request) ==
  IF request = <<>> THEN Plain("ERROR empty")
  ELSE IF Command(request) \in DOMAIN Arity THEN Plain("ERROR usage") ELSE Plain("ERROR unknown")

Found(key) ==
  LET v == visible[key] IN
  IF v = Absent THEN Plain("NOT_FOUND")
                ELSE Answer(<<"VALUE", v>>, IF v \in TwoLines THEN 1 ELSE 0)

Listed(low, high) ==
  LET found == {k \in Key : low <= k /\ k <= high /\ visible[k] # Absent} IN
  Answer(<<"RESULT", [k \in found |-> visible[k]]>>,
         Cardinality({k \in found : visible[k] \in TwoLines}))

\* What is answered at once, if anything is.
Reply(request) ==
  CASE ~ WellFormed(request)   -> {Ill(request)}
    [] Is(request, "PING")     -> {Plain("PONG")}
    [] Is(request, "QUIT")     -> {Plain("BYE")}
    [] Is(request, "GET")      -> {Found(request[2])}
    [] Is(request, "SCAN")     -> {Listed(request[2], request[3])}
    [] Is(request, "CHECKPOINT") ->
         IF ~ logged THEN {Plain("ERROR unavailable")}
         ELSE {Plain("ERROR failed")} \union (IF damaged THEN {} ELSE {Plain("OK CHECKPOINT")})
    [] OTHER -> {}

-----------------------------------------------------------------------------
(* Put and Delete.                                                          *)

IsWrite(request) == Is(request, "PUT") \/ Is(request, "DEL")
Entry(request)   == <<request[2], IF Is(request, "PUT") THEN request[3] ELSE Absent>>

\* Mutant: what the index holds after the write is asked for.
AfterTheWrite(w) == w[2] # Absent
WasThere(w)      == visible[w[1]] # Absent

Outcome(w) ==
  IF w[2] = Absent THEN Plain(IF WasThere(w) THEN "OK DELETE" ELSE "NOT_FOUND")
                   ELSE Plain(IF WasThere(w) THEN "OK UPDATE" ELSE "OK PUT")

\* Mutant: a key that is in the index already is not logged again.
LogNewKeys(request) ==
  IF WasThere(Entry(request))
  THEN writing' = {Entry(request)} /\ UNCHANGED <<kept, visible, running, damaged>>
  ELSE Engine!Write /\ writing' = {Entry(request)} /\ Len(kept') = 1

\* Power does not fail here, so only the last of the states that a restart may
\* find counts.
LogWrite(request) == Engine!Write /\ writing' = {Entry(request)} /\ Len(kept') = 1

ApplyWrite == Engine!Acknowledge

\* Without a log.
ApplyUnlogged(request) ==
  /\ visible' = [visible EXCEPT ![Entry(request)[1]] = Entry(request)[2]]
  /\ UNCHANGED <<kept, writing, running, damaged>>

\* A checkpoint that repairs the log has two steps; the second may fail.
BeginCheckpoint == logged /\ Engine!BeginRepair
EndCheckpoint(answer) ==
  \/ answer = Plain("OK CHECKPOINT") /\ Engine!Repair
  \/ answer = Plain("ERROR failed") /\ UNCHANGED engineVars

=============================================================================

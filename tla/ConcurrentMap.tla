---------------------------- MODULE ConcurrentMap ----------------------------
(***************************************************************************)
(* What the ordered index promises its callers (KVStore.hpp 19-47): Put    *)
(* and Delete take effect at one instant between call and return; Get      *)
(* answers with what the key held at some instant of the call; Scan and    *)
(* Snapshot, which are not atomic, list each key once, in order, with a    *)
(* value it held during the call, and miss no key that was always there.   *)
(* Two exceptions, both for keys inserted during the call below the one    *)
(* searched for: they may hide the key from Get, and Scan may report them. *)
(***************************************************************************)
EXTENDS Integers, Sequences

CONSTANTS Thread, Key, Value, Absent, Request, NoRequest

VARIABLES
  map,   \* what each key holds
  seen,  \* seen[t][k]: what k has held since t's call began
  call   \* the call in progress or last made by each thread, with its result

vars == <<map, seen, call>>

Nothing == [k \in Key |-> {}]

Init ==
  /\ map  = [k \in Key |-> Absent]
  /\ seen = [t \in Thread |-> Nothing]
  /\ call = [t \in Thread |-> [phase |-> "idle", request |-> NoRequest,
                               ok |-> FALSE, out |-> <<>>]]

Open(t, names) == call[t].phase = "open" /\ call[t].request.name \in names

Becomes(t, phase, ok, out) ==
  call' = [call EXCEPT ![t] = [@ EXCEPT !.phase = phase, !.ok = ok, !.out = out]]

\* A change of the map is seen by every call in progress after the step.
Observe ==
  seen' = [t \in Thread |->
    IF call'[t].phase = "idle" THEN Nothing
    ELSE [k \in Key |-> seen[t][k] \union {map'[k]}]]

Begin(t) ==
  /\ call[t].phase = "idle"
  /\ \E r \in Request :
       call' = [call EXCEPT ![t] =
                  [phase |-> "open", request |-> r, ok |-> FALSE, out |-> <<>>]]
  /\ UNCHANGED map

Insert(t) ==
  LET r == call[t].request IN
  /\ Open(t, {"Put"}) /\ map[r.key] = Absent
  /\ map' = [map EXCEPT ![r.key] = r.value]
  /\ Becomes(t, "done", FALSE, <<>>)

Update(t) ==
  LET r == call[t].request IN
  /\ Open(t, {"Put"}) /\ map[r.key] # Absent
  /\ map' = [map EXCEPT ![r.key] = r.value]
  /\ Becomes(t, "idle", FALSE, <<>>)

Remove(t) ==
  LET r == call[t].request IN
  /\ Open(t, {"Delete"}) /\ map[r.key] # Absent
  /\ map' = [map EXCEPT ![r.key] = Absent]
  /\ Becomes(t, "done", FALSE, <<>>)

Finish(t) ==
  /\ call[t].phase = "done"
  /\ Becomes(t, "idle", TRUE, <<>>)
  /\ UNCHANGED map

\* Key j was put, or began to be, while t's call was already searching.
Arrives(t, j) ==
  /\ Absent \in seen[t][j]
  /\ \/ seen[t][j] # {Absent}
     \/ \E u \in Thread : Open(u, {"Put"}) /\ call[u].request.key = j

Hidden(t, k) == Open(t, {"Get"}) /\ \E j \in Key : j < k /\ Arrives(t, j)

Miss(t) ==
  LET k == call[t].request.key IN
  /\ Open(t, {"Get", "Delete"})
  /\ Absent \in seen[t][k] \/ Hidden(t, k)
  /\ Becomes(t, "idle", FALSE, <<>>)
  /\ UNCHANGED map

Hit(t) ==
  LET k == call[t].request.key IN
  /\ Open(t, {"Get"})
  /\ \E v \in seen[t][k] \ {Absent} : Becomes(t, "idle", TRUE, <<<<k, v>>>>)
  /\ UNCHANGED map

InRange(r, k) == r.name = "Snapshot" \/ (r.key <= k /\ k <= r.end)

\* A Scan may also report keys below its range that appeared meanwhile.
MayReport(r, k, s) ==
  InRange(r, k) \/ (r.name = "Scan" /\ k < r.key /\ Absent \in s[k])

\* out lists what the call may, and all it must, report.
Lists(out, r, s) ==
  /\ \A i \in 1 .. Len(out) - 1 : out[i][1] < out[i + 1][1]
  /\ \A i \in 1 .. Len(out) : /\ MayReport(r, out[i][1], s)
                              /\ out[i][2] \in s[out[i][1]] \ {Absent}
  /\ \A k \in Key : InRange(r, k) /\ Absent \notin s[k] =>
                      \E i \in 1 .. Len(out) : out[i][1] = k

List(t) ==
  /\ Open(t, {"Scan", "Snapshot"})
  /\ Lists(call'[t].out, call[t].request, seen[t])
  /\ Becomes(t, "idle", TRUE, call'[t].out)
  /\ UNCHANGED map

Clear(t) ==
  /\ \A u \in Thread : call[u].phase = "idle"
  /\ map' = [k \in Key |-> Absent]
  /\ \E r \in Request : r.name = "Clear" /\
       call' = [call EXCEPT ![t] = [phase |-> "idle", request |-> r,
                                    ok |-> FALSE, out |-> <<>>]]

Next ==
  \E t \in Thread :
    /\ \/ Begin(t) \/ Insert(t) \/ Update(t) \/ Remove(t) \/ Finish(t)
       \/ Miss(t) \/ Hit(t) \/ List(t) \/ Clear(t)
    /\ Observe

Spec == Init /\ [][Next]_vars

=============================================================================

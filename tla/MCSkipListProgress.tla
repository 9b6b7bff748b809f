------------------------- MODULE MCSkipListProgress -------------------------
(* Does every call return?  Two workloads in one run.                      *)
EXTENDS MCSkipList, FiniteSetsExt

VARIABLE workload

\* The calls of the comparison benchmark: seeds 3 and 4 are put in first, by t1 for
\* the main thread; then keys that are new, and in front of the seeds, are put in,
\* each by one thread, and only seeds are deleted, by several.
SeedsWork ==
  [t \in Thread |->
     IF t = t1
     THEN <<Puts({3}, 10), Puts({4}, 10), Deletes({4}), Puts({2}, 10) \union Deletes({3})>>
     ELSE <<Puts({1}, 10), Deletes({3})>>]

Workloads == [removers |-> RemoversWork, seeds |-> SeedsWork]

AnyWork ==
  [t \in Thread |-> [i \in 1 .. Max({Len(Workloads[w][t]) : w \in DOMAIN Workloads}) |->
     UNION {Workloads[w][t][i] : w \in {v \in DOMAIN Workloads : i \in DOMAIN Workloads[v][t]}}]]

\* PreloadStore has returned before the threads are started
\* (compare_benchmark_main.cpp:188).
Preloaded == calls[t1] > 2 \/ (calls[t1] = 2 /\ th[t1].pc = "idle")

\* A call that begins is one of the workload.
Fits(t) ==
  calls'[t] > calls[t] =>
    /\ calls'[t] \in DOMAIN Workloads[workload][t]
    /\ th'[t].request \in Workloads[workload][t][calls'[t]]
    /\ workload = "seeds" /\ t # t1 => Preloaded

Over ==
  /\ \A t \in Thread : th[t].pc = "idle" /\ calls[t] = Len(Workloads[workload][t])
  /\ UNCHANGED vars

WorkloadNext == UNCHANGED workload /\ (Over \/ (Next /\ \A t \in Thread : Fits(t)))

WorkloadInit == Init /\ workload \in DOMAIN Workloads

WorkloadSpec ==
  /\ WorkloadInit
  /\ [][WorkloadNext]_<<vars, workload>>
  /\ \A t \in Thread : WF_vars(Step(t))

\* A Put that draws its height again and again draws the lowest in the end: as
\* RandomLevel draws independently, it does so with probability one.
DrawLowest(t) == PrepareInsert(t) /\ th'[t].top = 0 /\ UNCHANGED <<heap, mutex, counts, calls>>

\* Every call returns, although current_level_ may be stale, if as in
\* compare_benchmark_main.cpp (:188, :226) only keys are deleted that were put in
\* before the threads started.  A stale level hides no such key, for the head points
\* into the key's levels as long as it is there and every RecomputeCurrentLevel sees
\* that, and a Put whose height it hides draws another one (SkipList.hpp:64).
CallsReturnForSeeds ==
  workload = "seeds" /\ (\A t \in Thread : SF_vars(DrawLowest(t)))
    => \A t \in Thread : []<>(th[t].pc = "idle")

=============================================================================

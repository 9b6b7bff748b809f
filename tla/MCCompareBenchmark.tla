------------------------- MODULE MCCompareBenchmark -------------------------
(* Every workload, by one thread and by two.                                *)
EXTENDS CompareBenchmark

BenchKeys     == Keys
BenchValues   == Values
BenchThreads  == Threads
AllWorkloads  == DOMAIN Cases

=============================================================================

-------------------------- MODULE MCLatencyTracker --------------------------
(* Two recording threads, three samples and at most three record() calls.  *)
(* Latencies are scaled: two buckets of width 4 (MAX_TRACKED 8), samples 1 *)
(* and 5 in the lower half of buckets 0 and 1 and 8 in overflow; 100       *)
(* stands for UINT64_MAX.                                                  *)
EXTENDS LatencyTracker

CONSTANTS w1, w2

MCWriters == {w1, w2}

=============================================================================

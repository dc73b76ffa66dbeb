--------------------------- MODULE LatencyTracker ---------------------------
(***************************************************************************)
(* The latency histogram of the consumer (src/src/common/cache.cpp,        *)
(* class LatencyTracker, declared in src/unnamed/part_010).  record() is a *)
(* sequence of relaxed atomic operations: a fetch_add on the count, a      *)
(* fetch_add on the sum, a CAS loop lowering min, a CAS loop raising max, a *)
(* fetch_add on one histogram bucket or on the overflow counter, and a     *)
(* store into the ring buffer.  Several threads may record at once (the    *)
(* library's own concurrency test does so); get_stats() and reset() run   *)
(* on the thread that records in the program (FeedHandler and Visualizer), *)
(* so they are taken in states where no record() is in flight.             *)
(*                                                                         *)
(* A recorder's atomic operations are one step each, except that a         *)
(* fetch_add on the sum or on a counter nobody else reads during record()  *)
(* is joined to the load that follows it, which changes no outcome.        *)
(* rec is a history variable: the bag of samples whose record() returned.  *)
(***************************************************************************)
EXTENDS Naturals, FiniteSets, FiniteSetsExt

CONSTANTS
    Writers,      \* threads calling record()
    Samples,      \* latencies (ns) a sample may take
    Width,        \* BUCKET_WIDTH_NS
    NumBuckets,   \* NUM_BUCKETS
    MinInit,      \* UINT64_MAX, the value reset() stores in min_
    RingSize,     \* RING_BUFFER_SIZE
    MaxRecords    \* bound on the number of record() calls in a run

ASSUME ConstantsAssumption ==
    /\ Samples \subseteq Nat \ {0} /\ Samples # {}
    /\ Width \in Nat \ {0}
    /\ NumBuckets \in Nat \ {0}
    /\ MinInit \in Nat /\ \A s \in Samples : s < MinInit
    /\ RingSize \in Nat \ {0}
    /\ MaxRecords \in Nat

MaxTracked == NumBuckets * Width    \* MAX_TRACKED_NS
Buckets == 0 .. NumBuckets - 1
Steps == {"idle", "sum", "min", "max", "hist", "ring"}

VARIABLES
    count,     \* sample_count_
    sum,       \* sum_
    minv,      \* min_
    maxv,      \* max_
    hist,      \* histogram_
    overflow,  \* overflow_count_
    ring,      \* ring_buffer_
    widx,      \* write_index_
    pc,        \* where each recorder is inside record()
    val,       \* the latency_ns argument of each recorder
    cur,       \* each recorder's current_min / current_max
    rec,       \* bag of samples whose record() has returned
    issued     \* record() calls started, for the bound

vars == <<count, sum, minv, maxv, hist, overflow, ring, widx,
          pc, val, cur, rec, issued>>

TypeOK ==
    /\ count \in Nat /\ sum \in Nat /\ overflow \in Nat /\ widx \in Nat
    /\ minv \in Samples \cup {MinInit}
    /\ maxv \in Samples \cup {0}
    /\ hist \in [Buckets -> Nat]
    /\ ring \in [0 .. RingSize - 1 -> Samples \cup {0}]
    /\ pc \in [Writers -> Steps]
    /\ val \in [Writers -> Samples]
    /\ cur \in [Writers -> Samples \cup {0, MinInit}]
    /\ rec \in [Samples -> Nat]
    /\ issued \in 0 .. MaxRecords

Quiescent == \A w \in Writers : pc[w] = "idle"

-----------------------------------------------------------------------------
(* Whether record() counts latency_ns in a bucket, and in which.          *)
Tracked(s) == s < MaxTracked
BucketOf(s) == s \div Width

(* record(): count.fetch_add(1).                                           *)
Begin(w, s) ==
    /\ pc[w] = "idle"
    /\ issued < MaxRecords
    /\ count' = count + 1
    /\ issued' = issued + 1
    /\ val' = [val EXCEPT ![w] = s]
    /\ pc' = [pc EXCEPT ![w] = "sum"]
    /\ UNCHANGED <<sum, minv, maxv, hist, overflow, ring, widx, cur, rec>>

(* sum.fetch_add(latency_ns), then current_min = min_.load().              *)
AddSum(w) ==
    /\ pc[w] = "sum"
    /\ sum' = sum + val[w]
    /\ cur' = [cur EXCEPT ![w] = minv]
    /\ pc' = [pc EXCEPT ![w] = "min"]
    /\ UNCHANGED <<count, minv, maxv, hist, overflow, ring, widx, val, rec, issued>>

(* Mutant: min lowered by a plain store after the comparison, not a CAS.  *)
RecordMinNoCas(w) ==
    /\ pc[w] = "min"
    /\ \/ /\ val[w] < cur[w]
          /\ minv' = val[w]
       \/ /\ val[w] >= cur[w]
          /\ UNCHANGED minv
    /\ cur' = [cur EXCEPT ![w] = maxv]
    /\ pc' = [pc EXCEPT ![w] = "max"]
    /\ UNCHANGED <<count, sum, maxv, hist, overflow, ring, widx, val, rec, issued>>

(* One turn of the min loop: leave it when latency_ns >= current_min;      *)
(* otherwise compare_exchange_weak stores latency_ns if min_ still equals  *)
(* current_min, and on failure reloads current_min and tries again.  On    *)
(* leaving, current_max = max_.load().  A spurious failure of the weak CAS *)
(* reloads the same value and is a stuttering step.                        *)
RecordMin(w) ==
    /\ pc[w] = "min"
    /\ \/ /\ val[w] < cur[w]
          /\ minv # cur[w]
          /\ cur' = [cur EXCEPT ![w] = minv]
          /\ UNCHANGED <<minv, pc>>
       \/ /\ val[w] < cur[w]
          /\ minv = cur[w]
          /\ minv' = val[w]
          /\ cur' = [cur EXCEPT ![w] = maxv]
          /\ pc' = [pc EXCEPT ![w] = "max"]
       \/ /\ val[w] >= cur[w]
          /\ cur' = [cur EXCEPT ![w] = maxv]
          /\ pc' = [pc EXCEPT ![w] = "max"]
          /\ UNCHANGED minv
    /\ UNCHANGED <<count, sum, maxv, hist, overflow, ring, widx, val, rec, issued>>

(* Mutant: a failed CAS retried with the stale expected value.            *)
RecordMaxStale(w) ==
    /\ pc[w] = "max"
    /\ \/ /\ val[w] > cur[w]
          /\ maxv # cur[w]
          /\ UNCHANGED <<maxv, pc, cur>>
       \/ /\ val[w] > cur[w]
          /\ maxv = cur[w]
          /\ maxv' = val[w]
          /\ pc' = [pc EXCEPT ![w] = "hist"]
          /\ UNCHANGED cur
       \/ /\ val[w] <= cur[w]
          /\ pc' = [pc EXCEPT ![w] = "hist"]
          /\ UNCHANGED <<maxv, cur>>
    /\ UNCHANGED <<count, sum, minv, hist, overflow, ring, widx, val, rec, issued>>

(* One turn of the max loop, the mirror image of the min loop.             *)
RecordMax(w) ==
    /\ pc[w] = "max"
    /\ \/ /\ val[w] > cur[w]
          /\ maxv # cur[w]
          /\ cur' = [cur EXCEPT ![w] = maxv]
          /\ UNCHANGED <<maxv, pc>>
       \/ /\ val[w] > cur[w]
          /\ maxv = cur[w]
          /\ maxv' = val[w]
          /\ pc' = [pc EXCEPT ![w] = "hist"]
          /\ UNCHANGED cur
       \/ /\ val[w] <= cur[w]
          /\ pc' = [pc EXCEPT ![w] = "hist"]
          /\ UNCHANGED <<maxv, cur>>
    /\ UNCHANGED <<count, sum, minv, hist, overflow, ring, widx, val, rec, issued>>

(* Mutant: the bucket test is <= MAX_TRACKED_NS, so a sample at the bound  *)
(* indexes one past the histogram and is counted nowhere.                  *)
RecordBucketInclusive(w) ==
    /\ pc[w] = "hist"
    /\ IF val[w] <= MaxTracked
       THEN /\ hist' = [hist EXCEPT ![BucketOf(val[w])] = @ + 1]
            /\ UNCHANGED overflow
       ELSE /\ overflow' = overflow + 1
            /\ UNCHANGED hist
    /\ pc' = [pc EXCEPT ![w] = "ring"]
    /\ UNCHANGED <<count, sum, minv, maxv, ring, widx, val, cur, rec, issued>>

(* histogram_[latency_ns / BUCKET_WIDTH_NS].fetch_add(1) below             *)
(* MAX_TRACKED_NS, overflow_count_.fetch_add(1) from it on.                *)
RecordBucket(w) ==
    /\ pc[w] = "hist"
    /\ IF Tracked(val[w])
       THEN /\ hist' = [hist EXCEPT ![BucketOf(val[w])] = @ + 1]
            /\ UNCHANGED overflow
       ELSE /\ overflow' = overflow + 1
            /\ UNCHANGED hist
    /\ pc' = [pc EXCEPT ![w] = "ring"]
    /\ UNCHANGED <<count, sum, minv, maxv, ring, widx, val, cur, rec, issued>>

(* idx = write_index_.fetch_add(1); ring_buffer_[idx % RING_BUFFER_SIZE]   *)
(* = latency_ns; record() returns.                                         *)
RecordRing(w) ==
    /\ pc[w] = "ring"
    /\ widx' = widx + 1
    /\ ring' = [ring EXCEPT ![widx % RingSize] = val[w]]
    /\ pc' = [pc EXCEPT ![w] = "idle"]
    /\ rec' = [rec EXCEPT ![val[w]] = @ + 1]
    /\ UNCHANGED <<count, sum, minv, maxv, hist, overflow, val, cur, issued>>

(* Mutant: reset() stores 0 into min_, as it does into max_.             *)
ResetMinZero ==
    /\ Quiescent
    /\ count' = 0 /\ sum' = 0 /\ overflow' = 0 /\ widx' = 0
    /\ minv' = 0 /\ maxv' = 0
    /\ hist' = [i \in Buckets |-> 0]
    /\ ring' = [i \in 0 .. RingSize - 1 |-> 0]
    /\ rec' = [s \in Samples |-> 0]
    /\ UNCHANGED <<pc, val, cur, issued>>

(* reset(): every counter to its initial value, min_ to UINT64_MAX.        *)
Reset ==
    /\ Quiescent
    /\ count' = 0 /\ sum' = 0 /\ overflow' = 0 /\ widx' = 0
    /\ minv' = MinInit /\ maxv' = 0
    /\ hist' = [i \in Buckets |-> 0]
    /\ ring' = [i \in 0 .. RingSize - 1 |-> 0]
    /\ rec' = [s \in Samples |-> 0]
    /\ UNCHANGED <<pc, val, cur, issued>>

-----------------------------------------------------------------------------
(* cumulative after the loop of percentile_from_histogram has added        *)
(* bucket i.                                                               *)
Cumulative[i \in Buckets] ==
    hist[i] + (IF i = 0 THEN 0 ELSE Cumulative[i - 1])

(* Mutant: the overflow case returns 0 instead of the observed max.       *)
PercentileOverflowZero(pm) ==
    LET target == (pm * count) \div 1000
        hits   == {i \in Buckets : Cumulative[i] >= target}
    IN  IF count = 0 THEN 0
        ELSE IF hits # {} THEN Min(hits) * Width + Width \div 2
        ELSE 0

(* percentile_from_histogram(pm / 10): target is (p / 100) * total         *)
(* truncated; the midpoint of the first bucket whose cumulative count      *)
(* reaches target, else max_.  pm is the percentile in thousandths; for    *)
(* totals under 20 the double product is never within rounding of an      *)
(* integer it does not equal, so the integer floor is exact.               *)
Percentile(pm) ==
    LET target == (pm * count) \div 1000
        hits   == {i \in Buckets : Cumulative[i] >= target}
    IN  IF count = 0 THEN 0
        ELSE IF hits # {} THEN Min(hits) * Width + Width \div 2
        ELSE maxv

(* get_stats().                                                            *)
Stats ==
    IF count = 0
    THEN [n |-> 0, min |-> 0, max |-> 0, mean |-> 0,
          p50 |-> 0, p95 |-> 0, p99 |-> 0, p999 |-> 0]
    ELSE [n |-> count, min |-> minv, max |-> maxv, mean |-> sum \div count,
          p50 |-> Percentile(500), p95 |-> Percentile(950),
          p99 |-> Percentile(990), p999 |-> Percentile(999)]

-----------------------------------------------------------------------------
Init ==
    /\ count = 0 /\ sum = 0 /\ overflow = 0 /\ widx = 0
    /\ minv = MinInit /\ maxv = 0
    /\ hist = [i \in Buckets |-> 0]
    /\ ring = [i \in 0 .. RingSize - 1 |-> 0]
    /\ pc = [w \in Writers |-> "idle"]
    /\ val = [w \in Writers |-> CHOOSE s \in Samples : TRUE]
    /\ cur = [w \in Writers |-> 0]
    /\ rec = [s \in Samples |-> 0]
    /\ issued = 0

Step(w) ==
    \/ \E s \in Samples : Begin(w, s)
    \/ AddSum(w) \/ RecordMin(w) \/ RecordMax(w)
    \/ RecordBucket(w) \/ RecordRing(w)

Next == (\E w \in Writers : Step(w)) \/ Reset

(* Each recording thread is scheduled again while it is inside record().   *)
Fairness == \A w \in Writers :
    WF_vars(AddSum(w) \/ RecordMin(w) \/ RecordMax(w)
            \/ RecordBucket(w) \/ RecordRing(w))

Spec == Init /\ [][Next]_vars /\ Fairness

-----------------------------------------------------------------------------
(* Reference definitions over the bag of recorded samples.                 *)
Tally(S) == MapThenSumSet(LAMBDA s : rec[s], S)
Seen == {s \in Samples : rec[s] > 0}

(* The k-th smallest recorded sample.                                      *)
KthSample(k) ==
    CHOOSE v \in Seen : /\ Tally({s \in Seen : s <= v}) >= k
                        /\ Tally({s \in Seen : s < v}) < k

(* Spec section 4.7: the midpoint of the bucket of the sample of rank      *)
(* ceiling(p * total), or the observed max when it lies in overflow.       *)
SpecPercentile(pm) ==
    LET v == KthSample((pm * count + 999) \div 1000)
    IN  IF Tracked(v) THEN BucketOf(v) * Width + Width \div 2 ELSE maxv

(* When no record() is in flight, the counters agree exactly with the      *)
(* samples recorded since the last reset: nothing is lost by concurrent    *)
(* fetch_adds, and each sample is counted in its own bucket or, from       *)
(* MAX_TRACKED_NS on, in overflow (cache.cpp:188-214).                     *)
QuiescentTalliesExact ==
    Quiescent =>
        /\ count = Tally(Samples)
        /\ sum = MapThenSumSet(LAMBDA s : s * rec[s], Samples)
        /\ \A i \in Buckets : hist[i] = Tally({s \in Samples : Tracked(s) /\ BucketOf(s) = i})
        /\ overflow = Tally({s \in Samples : ~Tracked(s)})

(* When no record() is in flight, min_ and max_ are the least and the      *)
(* greatest sample recorded since the last reset: the CAS loops of         *)
(* record() (cache.cpp:197-207) keep the smaller (larger) of two racing    *)
(* samples whatever the interleaving.                                      *)
QuiescentExtremaExact ==
    (Quiescent /\ Seen # {}) => minv = Min(Seen) /\ maxv = Max(Seen)

(* Between two reset()s min_ only falls and max_ only rises: a record()    *)
(* never overwrites a smaller min_ (larger max_) that another thread      *)
(* stored after it loaded current_min (current_max), cache.cpp:197-207.    *)
ExtremaMonotone ==
    [][Reset \/ (minv' <= minv /\ maxv' >= maxv)]_vars

(* The percentiles get_stats() reports are ordered, p50 <= p95 <= p99 <=   *)
(* p999, the overflow case (cache.cpp:259) included.                       *)
PercentilesOrdered ==
    Quiescent =>
        Stats.p50 <= Stats.p95 /\ Stats.p95 <= Stats.p99 /\ Stats.p99 <= Stats.p999

(* Spec section 4.7: every percentile is the midpoint of the bucket where  *)
(* the cumulative count first reaches ceiling(p * total).                  *)
PercentileRankAsSpecified ==
    (Quiescent /\ count > 0) =>
        \A pm \in {500, 950, 990, 999} : Percentile(pm) = SpecPercentile(pm)

(* Every record() returns: the CAS loops are lock-free and, with finitely  *)
(* many competing samples, each thread's loop ends.                        *)
RecordCompletes ==
    \A w \in Writers : pc[w] # "idle" ~> pc[w] = "idle"

=============================================================================

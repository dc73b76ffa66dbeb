--------------------------- MODULE LatencyProofs ---------------------------
(***************************************************************************)
(* Proofs about the latency histogram of LatencyTracker.tla: type          *)
(* correctness, and that the CAS loops of record() leave min_ and max_ at  *)
(* the least and greatest recorded sample once no record() is in flight.   *)
(*                                                                         *)
(* QuiescentExtremaExact is not inductive: it says nothing while a record() *)
(* is in flight.  ExtInv strengthens it with what holds at every step of  *)
(* record(): min_ never exceeds a sample that has passed the min loop, a   *)
(* recorder's expected value current_min is never below min_ (min_ only    *)
(* falls between reset()s), and min_ is UINT64_MAX or the sample of a      *)
(* recorder that has passed the min loop or of one that has returned; the *)
(* mirror image for max_.                                                  *)
(***************************************************************************)
EXTENDS LatencyTracker, TLAPS

(* The steps of record() after the min loop, and after the max loop.       *)
AfterMin == {"max", "hist", "ring"}
AfterMax == {"hist", "ring"}

MinBelow ==
    /\ \A s \in Seen : minv <= s
    /\ \A w \in Writers : pc[w] \in AfterMin => minv <= val[w]
    /\ \A w \in Writers : pc[w] = "min" => minv <= cur[w]

MaxAbove ==
    /\ \A s \in Seen : s <= maxv
    /\ \A w \in Writers : pc[w] \in AfterMax => val[w] <= maxv
    /\ \A w \in Writers : pc[w] = "max" => cur[w] <= maxv

MinWitnessed ==
    \/ minv = MinInit
    \/ minv \in Seen
    \/ \E w \in Writers : pc[w] \in AfterMin /\ val[w] = minv

MaxWitnessed ==
    \/ maxv = 0
    \/ maxv \in Seen
    \/ \E w \in Writers : pc[w] \in AfterMax /\ val[w] = maxv

ExtInv == TypeOK /\ MinBelow /\ MaxAbove /\ MinWitnessed /\ MaxWitnessed

-----------------------------------------------------------------------------
(* Every sample is a positive number below UINT64_MAX.                     *)
LEMMA SampleFacts ==
    /\ Samples \subseteq Nat \ {0}
    /\ MinInit \in Nat
    /\ \A s \in Samples : s < MinInit
    /\ RingSize \in Nat \ {0}
    /\ MaxRecords \in Nat
BY ConstantsAssumption

(* Init establishes the strengthened invariant: nothing is recorded, min_  *)
(* is UINT64_MAX and max_ is 0.                                            *)
LEMMA InitExtInv == Init => ExtInv
<1> SUFFICES ASSUME Init PROVE ExtInv
    OBVIOUS
<1>1. Seen = {}
    BY DEF Init, Seen
<1>2. TypeOK
    <2>1. \E s \in Samples : TRUE
        BY ConstantsAssumption
    <2>2. (CHOOSE s \in Samples : TRUE) \in Samples
        BY <2>1
    <2>3. QED
        BY <2>2, SampleFacts DEF Init, TypeOK, Steps
<1>3. \A w \in Writers : pc[w] = "idle"
    BY DEF Init
<1> QED
    BY <1>1, <1>2, <1>3
       DEF ExtInv, MinBelow, MaxAbove, MinWitnessed, MaxWitnessed, Init,
           AfterMin, AfterMax

(* Each step of Next keeps the variables in their types.                    *)
LEMMA TypeStep == TypeOK /\ [Next]_vars => TypeOK'
<1> SUFFICES ASSUME TypeOK, [Next]_vars PROVE TypeOK'
    OBVIOUS
<1> USE SampleFacts
<1>1. ASSUME NEW w \in Writers, NEW s \in Samples, Begin(w, s) PROVE TypeOK'
    BY <1>1 DEF Begin, TypeOK, Steps
<1>2. ASSUME NEW w \in Writers, AddSum(w) PROVE TypeOK'
    <2>1. val[w] \in Nat /\ minv \in Samples \cup {0, MinInit}
        BY DEF TypeOK
    <2>2. sum' \in Nat
        BY <1>2, <2>1 DEF AddSum, TypeOK
    <2>3. cur' \in [Writers -> Samples \cup {0, MinInit}]
        BY <1>2, <2>1 DEF AddSum, TypeOK
    <2> QED
        BY <1>2, <2>2, <2>3 DEF AddSum, TypeOK, Steps
<1>3. ASSUME NEW w \in Writers, RecordMin(w) PROVE TypeOK'
    <2>1. /\ val[w] \in Samples
          /\ minv \in Samples \cup {0, MinInit}
          /\ maxv \in Samples \cup {0, MinInit}
        BY DEF TypeOK
    <2>2. minv' \in Samples \cup {MinInit}
        BY <1>3, <2>1 DEF RecordMin, TypeOK
    <2>3. cur' \in [Writers -> Samples \cup {0, MinInit}]
        BY <1>3, <2>1 DEF RecordMin, TypeOK
    <2>4. pc' \in [Writers -> Steps]
        BY <1>3 DEF RecordMin, TypeOK, Steps
    <2> QED
        BY <1>3, <2>2, <2>3, <2>4 DEF RecordMin, TypeOK
<1>4. ASSUME NEW w \in Writers, RecordMax(w) PROVE TypeOK'
    BY <1>4 DEF RecordMax, TypeOK, Steps
<1>5. ASSUME NEW w \in Writers, RecordBucket(w) PROVE TypeOK'
    <2>1. CASE Tracked(val[w])
        <3>1. hist' = [hist EXCEPT ![BucketOf(val[w])] = @ + 1]
            BY <1>5, <2>1 DEF RecordBucket
        <3>2. BucketOf(val[w]) \in Buckets
            <4>1. val[w] \in Nat /\ Width \in Nat \ {0} /\ NumBuckets \in Nat
                BY ConstantsAssumption DEF TypeOK
            <4> QED
                BY <2>1, <4>1 DEF Tracked, BucketOf, MaxTracked, Buckets
        <3>3. hist' \in [Buckets -> Nat]
            BY <3>1, <3>2 DEF TypeOK
        <3> QED
            BY <1>5, <2>1, <3>3 DEF RecordBucket, TypeOK, Steps
    <2>2. CASE ~Tracked(val[w])
        BY <1>5, <2>2 DEF RecordBucket, TypeOK, Steps
    <2> QED
        BY <2>1, <2>2
<1>6. ASSUME NEW w \in Writers, RecordRing(w) PROVE TypeOK'
    <2>1. widx % RingSize \in 0 .. RingSize - 1
        BY DEF TypeOK
    <2>2. ring' \in [0 .. RingSize - 1 -> Samples \cup {0}]
        BY <1>6, <2>1 DEF RecordRing, TypeOK
    <2>3. rec' \in [Samples -> Nat]
        <3>1. val[w] \in Samples /\ rec[val[w]] \in Nat
            BY DEF TypeOK
        <3> QED
            BY <3>1, <1>6 DEF RecordRing, TypeOK
    <2>4. pc' \in [Writers -> Steps]
        BY <1>6 DEF RecordRing, TypeOK, Steps
    <2> QED
        BY <1>6, <2>2, <2>3, <2>4 DEF RecordRing, TypeOK
<1>7. ASSUME Reset PROVE TypeOK'
    BY <1>7, Zenon DEF Reset, TypeOK, Steps
<1>8. ASSUME UNCHANGED vars PROVE TypeOK'
    BY <1>8 DEF vars, TypeOK
<1> QED
    BY <1>1, <1>2, <1>3, <1>4, <1>5, <1>6, <1>7, <1>8 DEF Next, Step

(* What an action that leaves rec alone does to the recorded samples.      *)
LEMMA SeenUnchanged == rec' = rec => Seen' = Seen
BY DEF Seen

(* min_, max_, and each recorder's sample and expected value are numbers. *)
LEMMA NatValues ==
    ASSUME TypeOK, NEW w \in Writers
    PROVE  val[w] \in Nat /\ cur[w] \in Nat /\ minv \in Nat /\ maxv \in Nat
<1>1. val[w] \in Samples /\ cur[w] \in Samples \cup {0, MinInit}
      /\ minv \in Samples \cup {MinInit} /\ maxv \in Samples \cup {0}
    BY DEF TypeOK
<1>2. Samples \cup {0, MinInit} \subseteq Nat
    BY SampleFacts
<1> QED
    BY <1>1, <1>2, Zenon

USE DEF ExtInv

(* count.fetch_add(1) starts a record(); the recorder is not yet past    *)
(* the min loop, so it bounds and witnesses nothing.                      *)
LEMMA BeginExt ==
    ASSUME ExtInv, TypeOK', NEW w \in Writers, NEW s \in Samples, Begin(w, s)
    PROVE  ExtInv'
<1>1. Seen' = Seen
    BY SeenUnchanged DEF Begin
<1>2. \A u \in Writers : pc'[u] \in AfterMin \cup {"min", "max"} =>
                            u # w /\ pc'[u] = pc[u] /\ val'[u] = val[u]
    BY DEF Begin, TypeOK, AfterMin
<1> QED
    BY <1>1, <1>2 DEF Begin, MinBelow, MaxAbove, MinWitnessed, MaxWitnessed,
                      AfterMin, AfterMax, TypeOK

(* sum.fetch_add and the first load of current_min = min_.              *)
LEMMA AddSumExt ==
    ASSUME ExtInv, TypeOK', NEW w \in Writers, AddSum(w)
    PROVE  ExtInv'
<1>1. Seen' = Seen
    BY SeenUnchanged DEF AddSum
<1> QED
    BY <1>1, SampleFacts DEF AddSum, MinBelow, MaxAbove, MinWitnessed, MaxWitnessed,
                AfterMin, AfterMax, TypeOK

(* The min loop: a retry reloads current_min = min_, a successful CAS     *)
(* stores a sample below min_, and leaving the loop needs                  *)
(* latency_ns >= current_min >= min_.                                      *)
LEMMA RecordMinExt ==
    ASSUME ExtInv, TypeOK', NEW w \in Writers, RecordMin(w)
    PROVE  ExtInv'
<1>1. Seen' = Seen
    BY SeenUnchanged DEF RecordMin
<1>2. /\ UNCHANGED <<maxv, val, rec>> /\ pc[w] = "min"
      /\ val[w] \in Nat /\ cur[w] \in Nat /\ minv \in Nat /\ maxv \in Nat
    <2>1. UNCHANGED <<maxv, val, rec>> /\ pc[w] = "min"
        BY Zenon DEF RecordMin
    <2> QED
        BY <2>1, NatValues
<1>3. CASE val[w] < cur[w] /\ minv # cur[w]
    <2>1. cur' = [cur EXCEPT ![w] = minv] /\ UNCHANGED <<minv, pc>>
        BY <1>2, <1>3 DEF RecordMin
    <2>2. \A u \in Writers : pc'[u] = "min" => minv' <= cur'[u]
        BY <1>2, <2>1 DEF MinBelow, TypeOK
    <2>3. MinBelow'
        BY <1>1, <1>2, <2>1, <2>2 DEF MinBelow
    <2>4. MaxAbove' /\ MinWitnessed' /\ MaxWitnessed'
        BY <1>1, <1>2, <2>1 DEF MaxAbove, MinWitnessed, MaxWitnessed
    <2> QED
        BY <2>3, <2>4
<1>4. CASE val[w] < cur[w] /\ minv = cur[w]
    <2>1. /\ minv' = val[w]
          /\ cur' = [cur EXCEPT ![w] = maxv]
          /\ pc' = [pc EXCEPT ![w] = "max"]
        BY <1>2, <1>4 DEF RecordMin
    <2>2. MinBelow'
        <3>1. \A s \in Seen' : minv' <= s
            <4>1. Seen \subseteq Nat
                BY SampleFacts DEF Seen
            <4> QED
                BY <1>1, <1>2, <1>4, <2>1, <4>1 DEF MinBelow
        <3>2. \A u \in Writers : pc'[u] \in AfterMin => minv' <= val'[u]
            <4> SUFFICES ASSUME NEW u \in Writers, pc'[u] \in AfterMin
                         PROVE  minv' <= val'[u]
                OBVIOUS
            <4>1. CASE u = w
                BY <1>2, <2>1, <4>1
            <4>2. CASE u # w
                <5>1. pc[u] \in AfterMin /\ val[u] \in Nat
                    BY <1>2, <2>1, <4>2, NatValues DEF TypeOK
                <5>2. minv <= val[u]
                    BY <5>1 DEF MinBelow
                <5> QED
                    BY <1>2, <1>4, <2>1, <5>1, <5>2
            <4> QED
                BY <4>1, <4>2
        <3>3. \A u \in Writers : pc'[u] = "min" => minv' <= cur'[u]
            <4> SUFFICES ASSUME NEW u \in Writers, pc'[u] = "min"
                         PROVE  minv' <= cur'[u]
                OBVIOUS
            <4>1. u # w /\ pc[u] = "min"
                BY <2>1 DEF TypeOK
            <4>2. minv <= cur[u] /\ cur[u] \in Nat
                BY <4>1, NatValues DEF MinBelow
            <4>3. cur'[u] = cur[u]
                BY <2>1, <4>1 DEF ExtInv, TypeOK
            <4> QED
                BY <1>2, <1>4, <2>1, <4>2, <4>3
        <3> QED
            BY <3>1, <3>2, <3>3 DEF MinBelow
    <2>3. MaxAbove'
        BY <1>1, <1>2, <2>1 DEF MaxAbove, AfterMax, TypeOK
    <2>4. MinWitnessed'
        BY <1>2, <2>1 DEF MinWitnessed, AfterMin, TypeOK
    <2>5. MaxWitnessed'
        BY <1>1, <1>2, <2>1 DEF MaxWitnessed, AfterMax, TypeOK
    <2> QED
        BY <2>2, <2>3, <2>4, <2>5
<1>5. CASE val[w] >= cur[w]
    <2>1. /\ cur' = [cur EXCEPT ![w] = maxv]
          /\ pc' = [pc EXCEPT ![w] = "max"]
          /\ UNCHANGED minv
        BY <1>2, <1>5 DEF RecordMin
    <2>2. MinBelow'
        BY <1>1, <1>2, <1>5, <2>1 DEF MinBelow, AfterMin, TypeOK
    <2>3. MaxAbove'
        BY <1>1, <1>2, <2>1 DEF MaxAbove, AfterMax, TypeOK
    <2>4. MinWitnessed'
        BY <1>1, <1>2, <2>1 DEF MinWitnessed, AfterMin, TypeOK
    <2>5. MaxWitnessed'
        BY <1>1, <1>2, <2>1 DEF MaxWitnessed, AfterMax, TypeOK
    <2> QED
        BY <2>2, <2>3, <2>4, <2>5
<1> QED
    BY <1>2, <1>3, <1>4, <1>5

(* The max loop, the mirror image: a retry reloads current_max = max_, a  *)
(* successful CAS stores a sample above max_, and leaving the loop needs   *)
(* latency_ns <= current_max <= max_.                                      *)
LEMMA RecordMaxExt ==
    ASSUME ExtInv, TypeOK', NEW w \in Writers, RecordMax(w)
    PROVE  ExtInv'
<1>1. Seen' = Seen
    BY SeenUnchanged DEF RecordMax
<1>2. /\ UNCHANGED <<minv, val, rec>> /\ pc[w] = "max"
      /\ val[w] \in Nat /\ cur[w] \in Nat /\ minv \in Nat /\ maxv \in Nat
    <2>1. UNCHANGED <<minv, val, rec>> /\ pc[w] = "max"
        BY Zenon DEF RecordMax
    <2> QED
        BY <2>1, NatValues
<1>3. Seen \subseteq Nat
    BY SampleFacts DEF Seen
<1>4. CASE val[w] > cur[w] /\ maxv # cur[w]
    <2>1. cur' = [cur EXCEPT ![w] = maxv] /\ UNCHANGED <<maxv, pc>>
        BY <1>2, <1>4 DEF RecordMax
    <2>2. \A u \in Writers : pc'[u] = "max" => cur'[u] <= maxv'
        BY <1>2, <2>1 DEF MaxAbove, TypeOK
    <2>3. MaxAbove'
        BY <1>1, <1>2, <2>1, <2>2 DEF MaxAbove
    <2>4. MinBelow' /\ MinWitnessed' /\ MaxWitnessed'
        BY <1>1, <1>2, <2>1 DEF MinBelow, MinWitnessed, MaxWitnessed
    <2> QED
        BY <2>3, <2>4
<1>5. CASE val[w] > cur[w] /\ maxv = cur[w]
    <2>1. /\ maxv' = val[w]
          /\ pc' = [pc EXCEPT ![w] = "hist"]
          /\ UNCHANGED cur
        BY <1>2, <1>5 DEF RecordMax
    <2>2. MaxAbove'
        <3>1. \A s \in Seen' : s <= maxv'
            BY <1>1, <1>2, <1>3, <1>5, <2>1 DEF MaxAbove
        <3>2. \A u \in Writers : pc'[u] \in AfterMax => val'[u] <= maxv'
            <4> SUFFICES ASSUME NEW u \in Writers, pc'[u] \in AfterMax
                         PROVE  val'[u] <= maxv'
                OBVIOUS
            <4>1. CASE u = w
                BY <1>2, <2>1, <4>1
            <4>2. CASE u # w
                <5>1. pc[u] \in AfterMax /\ val[u] \in Nat
                    BY <1>2, <2>1, <4>2, NatValues DEF TypeOK
                <5>2. val[u] <= maxv
                    BY <5>1 DEF MaxAbove
                <5> QED
                    BY <1>2, <1>5, <2>1, <5>1, <5>2
            <4> QED
                BY <4>1, <4>2
        <3>3. \A u \in Writers : pc'[u] = "max" => cur'[u] <= maxv'
            <4> SUFFICES ASSUME NEW u \in Writers, pc'[u] = "max"
                         PROVE  cur'[u] <= maxv'
                OBVIOUS
            <4>1. u # w /\ pc[u] = "max"
                BY <2>1 DEF TypeOK
            <4>2. cur[u] <= maxv /\ cur[u] \in Nat
                BY <4>1, NatValues DEF MaxAbove
            <4> QED
                BY <1>2, <1>5, <2>1, <4>2
        <3> QED
            BY <3>1, <3>2, <3>3 DEF MaxAbove
    <2>3. MinBelow'
        BY <1>1, <1>2, <2>1 DEF MinBelow, AfterMin, TypeOK
    <2>4. MaxWitnessed'
        BY <1>2, <2>1 DEF MaxWitnessed, AfterMax, TypeOK
    <2>5. MinWitnessed'
        BY <1>1, <1>2, <2>1 DEF MinWitnessed, AfterMin, TypeOK
    <2> QED
        BY <2>2, <2>3, <2>4, <2>5
<1>6. CASE val[w] <= cur[w]
    <2>1. /\ pc' = [pc EXCEPT ![w] = "hist"]
          /\ UNCHANGED <<maxv, cur>>
        BY <1>2, <1>6 DEF RecordMax
    <2>2. MaxAbove'
        BY <1>1, <1>2, <1>6, <2>1 DEF MaxAbove, AfterMax, TypeOK
    <2>3. MinBelow'
        BY <1>1, <1>2, <2>1 DEF MinBelow, AfterMin, TypeOK
    <2>4. MinWitnessed' /\ MaxWitnessed'
        BY <1>1, <1>2, <2>1 DEF MinWitnessed, MaxWitnessed, AfterMin, AfterMax, TypeOK
    <2> QED
        BY <2>2, <2>3, <2>4
<1> QED
    BY <1>2, <1>4, <1>5, <1>6

(* The histogram or overflow fetch_add touches neither min_ nor max_.     *)
LEMMA RecordBucketExt ==
    ASSUME ExtInv, TypeOK', NEW w \in Writers, RecordBucket(w)
    PROVE  ExtInv'
<1>1. Seen' = Seen
    BY SeenUnchanged DEF RecordBucket
<1> QED
    BY <1>1 DEF RecordBucket, MinBelow, MaxAbove, MinWitnessed, MaxWitnessed,
                AfterMin, AfterMax, TypeOK

(* The ring-buffer store returns record(): its sample, already between    *)
(* min_ and max_, joins the recorded samples and keeps witnessing them.   *)
LEMMA RecordRingExt ==
    ASSUME ExtInv, TypeOK', NEW w \in Writers, RecordRing(w)
    PROVE  ExtInv'
<1>1. Seen' = Seen \cup {val[w]}
    BY DEF RecordRing, Seen, TypeOK
<1> QED
    BY <1>1 DEF RecordRing, MinBelow, MaxAbove, MinWitnessed, MaxWitnessed,
                AfterMin, AfterMax, TypeOK

(* reset() runs with no record() in flight and empties the samples.       *)
LEMMA ResetExt ==
    ASSUME ExtInv, TypeOK', Reset
    PROVE  ExtInv'
<1>1. Seen' = {}
    BY DEF Reset, Seen
<1> QED
    BY <1>1 DEF Reset, Quiescent, MinBelow, MaxAbove, MinWitnessed, MaxWitnessed,
                AfterMin, AfterMax, TypeOK

(* Every step of Next preserves ExtInv.                                    *)
LEMMA NextExt == ExtInv /\ [Next]_vars => ExtInv'
<1> SUFFICES ASSUME ExtInv, [Next]_vars PROVE ExtInv'
    OBVIOUS
<1>1. TypeOK'
    BY TypeStep
<1>2. ASSUME NEW w \in Writers, Step(w) PROVE ExtInv'
    BY <1>1, <1>2, BeginExt, AddSumExt, RecordMinExt, RecordMaxExt,
       RecordBucketExt, RecordRingExt DEF Step
<1>3. CASE Reset
    BY <1>1, <1>3, ResetExt
<1>4. CASE UNCHANGED vars
    <2>1. Seen' = Seen
        BY <1>4, SeenUnchanged DEF vars
    <2> QED
        BY <1>1, <1>4, <2>1 DEF vars, MinBelow, MaxAbove, MinWitnessed, MaxWitnessed
<1> QED
    BY <1>2, <1>3, <1>4 DEF Next

(* Once no record() is in flight, ExtInv pins min_ and max_ to the least  *)
(* and the greatest recorded sample.                                       *)
LEMMA ExtExact == ExtInv => QuiescentExtremaExact
<1> SUFFICES ASSUME ExtInv, Quiescent, Seen # {}
             PROVE  minv = Min(Seen) /\ maxv = Max(Seen)
    BY DEF QuiescentExtremaExact
<1>1. \A w \in Writers : pc[w] \notin AfterMin
    BY DEF Quiescent, AfterMin
<1>2. Seen \subseteq Nat \ {0} /\ \A s \in Seen : s < MinInit
    BY SampleFacts DEF Seen
<1>3. minv \in Nat /\ maxv \in Nat /\ MinInit \in Nat
    BY SampleFacts DEF TypeOK
<1>4. PICK s0 \in Seen : TRUE
    OBVIOUS
<1>5. minv \in Seen /\ \A y \in Seen : minv <= y
    <2>1. minv # MinInit
        BY <1>2, <1>3, <1>4 DEF MinBelow
    <2> QED
        BY <1>1, <2>1 DEF MinBelow, MinWitnessed, AfterMin, AfterMax
<1>6. maxv \in Seen /\ \A y \in Seen : y <= maxv
    <2>1. maxv # 0
        BY <1>2, <1>3, <1>4 DEF MaxAbove
    <2> QED
        BY <1>1, <2>1 DEF MaxAbove, MaxWitnessed, AfterMin, AfterMax
<1>7. minv = Min(Seen)
    <2>1. Min(Seen) \in Seen /\ \A y \in Seen : Min(Seen) <= y
        BY <1>5 DEF Min
    <2>2. Min(Seen) \in Nat
        BY <1>2, <2>1
    <2>3. Min(Seen) <= minv /\ minv <= Min(Seen)
        BY <1>5, <2>1
    <2> QED
        BY <1>3, <2>2, <2>3
<1>8. maxv = Max(Seen)
    <2>1. Max(Seen) \in Seen /\ \A y \in Seen : Max(Seen) >= y
        BY <1>6 DEF Max
    <2>2. Max(Seen) \in Nat
        BY <1>2, <2>1
    <2>3. Max(Seen) >= maxv /\ maxv >= Max(Seen)
        BY <1>6, <2>1
    <2> QED
        BY <1>3, <2>2, <2>3
<1> QED
    BY <1>7, <1>8

-----------------------------------------------------------------------------
(* Every variable of the latency tracker keeps its type: in particular     *)
(* min_ is UINT64_MAX or a sample, and the ring-buffer index and the       *)
(* bucket record() counts in stay inside their arrays.                     *)
THEOREM TypeCorrect == Spec => []TypeOK
<1>1. Init => TypeOK
    BY InitExtInv
<1> QED
    BY <1>1, TypeStep, PTL DEF Spec

(* Whatever the interleaving of the CAS loops of concurrent record()       *)
(* calls (cache.cpp:197-207), min_ and max_ are the least and the greatest *)
(* sample recorded since the last reset whenever no record() is in flight. *)
THEOREM ExtremaExact == Spec => []QuiescentExtremaExact
<1>1. Spec => []ExtInv
    BY InitExtInv, NextExt, PTL DEF Spec
<1> QED
    BY <1>1, ExtExact, PTL

(* A step of Next other than reset() never raises min_ nor lowers max_:   *)
(* only a successful CAS writes them, and it stores a sample below the    *)
(* value it expected, which is the current min_ (above the current max_).  *)
LEMMA NextMonotone ==
    ASSUME TypeOK, [Next]_vars
    PROVE  Reset \/ (minv' <= minv /\ maxv' >= maxv)
<1>1. ASSUME NEW w \in Writers, RecordMin(w) PROVE minv' <= minv /\ maxv' = maxv
    <2>1. val[w] \in Nat /\ cur[w] \in Nat /\ minv \in Nat
        BY NatValues
    <2> QED
        BY <1>1, <2>1 DEF RecordMin
<1>2. ASSUME NEW w \in Writers, RecordMax(w) PROVE maxv' >= maxv /\ minv' = minv
    <2>1. val[w] \in Nat /\ cur[w] \in Nat /\ maxv \in Nat
        BY NatValues
    <2> QED
        BY <1>2, <2>1 DEF RecordMax
<1>3. ASSUME NEW w \in Writers,
             \/ \E s \in Samples : Begin(w, s)
             \/ AddSum(w) \/ RecordBucket(w) \/ RecordRing(w)
      PROVE  UNCHANGED <<minv, maxv>>
    BY <1>3 DEF Begin, AddSum, RecordBucket, RecordRing
<1>4. minv \in Nat /\ maxv \in Nat
    BY SampleFacts DEF TypeOK
<1> QED
    BY <1>1, <1>2, <1>3, <1>4 DEF Next, Step, vars

(* The CAS loops of record() (cache.cpp:197-207) never undo a lower min_   *)
(* or a higher max_ stored by a concurrent record(); only reset() does.    *)
THEOREM ExtremaMonotoneHolds == Spec => ExtremaMonotone
<1>1. Spec => []TypeOK
    BY TypeCorrect
<1> QED
    BY <1>1, NextMonotone, PTL DEF Spec, ExtremaMonotone

=============================================================================

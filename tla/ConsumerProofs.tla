-------------------------- MODULE ConsumerProofs ---------------------------
(***************************************************************************)
(* Proofs about the consumer's connection loop, for every retry limit,     *)
(* backoff and queue bound: the type invariant, and NoStrandedData, the    *)
(* property that makes edge-triggered readiness safe to use.  The numeric  *)
(* part of each step is left to the SMT solver and the Boolean and set     *)
(* part to Zenon, each in a step of its own.                               *)
(***************************************************************************)
EXTENDS Consumer, TLAPS

(* The counters: streak never exceeds count and is 0 before start(), which *)
(* keeps both within the retry limit.                                      *)
TypeNum ==
    /\ count \in 0 .. MaxRetry
    /\ backoff \in InitialBackoff .. BackoffCap
    /\ rx \in 0 .. MaxRx
    /\ streak \in 0 .. MaxRetry
    /\ streak <= count
    /\ pc = "start" => streak = 0

TypeBool ==
    /\ pc \in Pcs
    /\ running \in BOOLEAN
    /\ connected \in BOOLEAN
    /\ fdOpen \in BOOLEAN
    /\ peer \in {"open", "fin", "rst"}
    /\ edge \in BOOLEAN
    /\ serverUp \in BOOLEAN
    /\ stopReason \in Reasons
    /\ autoReconnect \in BOOLEAN

(* Outside process_data a live connection with bytes or a hang-up not yet *)
(* read has an edge pending.                                               *)
Signalled ==
    (pc \in {"input", "wait"} /\ connected /\ fdOpen
        /\ (rx # 0 \/ peer # "open")) => edge

IInv == TypeNum /\ TypeBool /\ Signalled

LEMMA IInvTypeOK == IInv => TypeOK
BY DEF IInv, TypeNum, TypeBool, TypeOK

LEMMA InitIInv == Init => IInv
<1> SUFFICES ASSUME Init PROVE IInv
  OBVIOUS
<1>1. TypeNum
  BY ConstantsAssumption DEF Init, TypeNum
<1>2. TypeBool
  BY ConstantsAssumption DEF Init, TypeBool, Pcs, Reasons
<1>3. Signalled
  BY DEF Init, Signalled
<1>4. QED
  BY <1>1, <1>2, <1>3 DEF IInv

LEMMA StartIInv == IInv /\ Start /\ UNCHANGED autoReconnect => IInv'
<1> SUFFICES ASSUME IInv, Start, UNCHANGED autoReconnect PROVE IInv'
  OBVIOUS
<1>1. TypeNum'
  <2>1. /\ count' = 0 /\ backoff' = InitialBackoff /\ rx' = 0
        /\ streak' = streak /\ pc = "start"
    BY DEF Start, Connected
  <2>2. QED
    BY <2>1, ConstantsAssumption DEF IInv, TypeNum
<1>2. TypeBool'
  BY DEF IInv, TypeBool, Start, Connected, Pcs, Reasons
<1>3. Signalled'
  BY DEF Start, Connected, Signalled
<1>4. QED
  BY <1>1, <1>2, <1>3 DEF IInv

LEMMA InputIInv ==
    ASSUME NEW quit \in BOOLEAN PROVE IInv /\ Input(quit) /\ UNCHANGED autoReconnect => IInv'
<1> SUFFICES ASSUME IInv, Input(quit), UNCHANGED autoReconnect PROVE IInv'
  OBVIOUS
<1>1. TypeNum'
  <2>1. /\ count' = count /\ backoff' = backoff /\ rx' = rx
        /\ streak' = streak /\ pc' # "start"
    BY DEF Input, Stop
  <2>2. QED
    BY <2>1 DEF IInv, TypeNum
<1>2. TypeBool'
  BY DEF IInv, TypeBool, Input, Stop, Pcs, Reasons
<1>3. Signalled'
  BY DEF IInv, Signalled, Input, Stop
<1>4. QED
  BY <1>1, <1>2, <1>3 DEF IInv

LEMMA WaitIInv == IInv /\ Wait /\ UNCHANGED autoReconnect => IInv'
<1> SUFFICES ASSUME IInv, Wait, UNCHANGED autoReconnect PROVE IInv'
  OBVIOUS
<1>1. TypeNum'
  BY DEF IInv, TypeNum, Wait
<1>2. TypeBool'
  BY DEF IInv, TypeBool, Wait, Pcs
<1>3. Signalled'
  BY DEF IInv, Signalled, Wait
<1>4. QED
  BY <1>1, <1>2, <1>3 DEF IInv

LEMMA ProcessIInv == IInv /\ Process /\ UNCHANGED autoReconnect => IInv'
<1> SUFFICES ASSUME IInv, Process, UNCHANGED autoReconnect PROVE IInv'
  OBVIOUS
<1>1. TypeNum'
  <2>1. count' = count /\ backoff' = backoff /\ streak' = streak
    BY DEF Process
  <2>2. pc' \in {"process", "input"}
    BY DEF Process
  <2>3. \/ rx' = rx
        \/ \E k \in 1 .. rx : rx' = rx - k
    BY DEF Process
  <2>4. rx' \in 0 .. MaxRx
    <3>1. rx \in 0 .. MaxRx
      BY DEF IInv, TypeNum
    <3>2. CASE \E k \in 1 .. rx : rx' = rx - k
      <4>1. PICK k \in 1 .. rx : rx' = rx - k
        BY <3>2
      <4>2. QED
        BY <3>1, <4>1, ConstantsAssumption
    <3>3. QED
      BY <2>3, <3>1, <3>2
  <2>5. QED
    BY <2>1, <2>2, <2>4 DEF IInv, TypeNum
<1>2. TypeBool'
  BY DEF IInv, TypeBool, Process, Pcs
<1>3. Signalled'
  BY DEF IInv, Signalled, Process
<1>4. QED
  BY <1>1, <1>2, <1>3 DEF IInv

(* A doubled backoff stays between the initial value and the cap.         *)
LEMMA DoubledBackoff ==
    ASSUME NEW b \in InitialBackoff .. BackoffCap
    PROVE  MinOf(b * 2, BackoffCap) \in InitialBackoff .. BackoffCap
BY ConstantsAssumption DEF MinOf

LEMMA AttemptIInv ==
    ASSUME NEW ok \in BOOLEAN, IInv, count < MaxRetry, ReconnectAttempt(ok),
           UNCHANGED <<serverUp, autoReconnect>>
    PROVE  IInv'
<1>1. TypeNum'
  <2>1. /\ count' = count + 1
        /\ rx' = 0
        /\ pc' \in {"input", "done"}
        /\ \/ backoff' = InitialBackoff /\ streak' = 0
           \/ backoff' = MinOf(backoff * 2, BackoffCap) /\ streak' = streak + 1
    BY DEF ReconnectAttempt, Connected
  <2>2. backoff \in InitialBackoff .. BackoffCap
    BY DEF IInv, TypeNum
  <2>3. QED
    BY <2>1, <2>2, DoubledBackoff, ConstantsAssumption DEF IInv, TypeNum
<1>2. TypeBool'
  BY DEF IInv, TypeBool, ReconnectAttempt, Connected, Pcs, Reasons
<1>3. Signalled'
  BY DEF ReconnectAttempt, Connected, Signalled
<1>4. QED
  BY <1>1, <1>2, <1>3 DEF IInv

(* The loop stops: the socket is closed, the counters are left alone.     *)
LEMMA StopIInv ==
    ASSUME NEW reason \in Reasons, IInv, Stop(reason),
           UNCHANGED <<count, backoff, rx, peer, edge, streak, serverUp,
                       autoReconnect>>
    PROVE  IInv'
<1>1. TypeNum'
  BY DEF Stop, IInv, TypeNum
<1>2. TypeBool'
  BY DEF IInv, TypeBool, Stop, Pcs
<1>3. Signalled'
  BY DEF Stop, Signalled
<1>4. QED
  BY <1>1, <1>2, <1>3 DEF IInv

LEMMA ReconnectIInv == IInv /\ Reconnect /\ UNCHANGED autoReconnect => IInv'
<1> SUFFICES ASSUME IInv, Reconnect, UNCHANGED autoReconnect PROVE IInv'
  OBVIOUS
<1>1. count \in Nat /\ MaxRetry \in Nat
  BY ConstantsAssumption DEF IInv, TypeNum
<1>2. CASE ~autoReconnect
  <2>1. Stop("noreconnect")
        /\ UNCHANGED <<count, backoff, rx, peer, edge, streak, serverUp>>
    BY <1>2 DEF Reconnect
  <2>2. QED
    BY <2>1, StopIInv DEF Reasons
<1>3. CASE autoReconnect /\ count >= MaxRetry
  <2>1. ~(count < MaxRetry)
    BY <1>1, <1>3
  <2>2. Stop("exhausted")
        /\ UNCHANGED <<count, backoff, rx, peer, edge, streak, serverUp>>
    BY <1>3, <2>1 DEF Reconnect
  <2>3. QED
    BY <2>2, StopIInv DEF Reasons
<1>4. CASE autoReconnect /\ count < MaxRetry
  <2>1. ~(count >= MaxRetry)
    BY <1>1, <1>4
  <2>2. UNCHANGED serverUp /\ \E ok \in BOOLEAN : ReconnectAttempt(ok)
    BY <1>4, <2>1 DEF Reconnect
  <2>3. QED
    BY <2>2, <1>4, AttemptIInv
<1>5. QED
  <2>1. count >= MaxRetry \/ count < MaxRetry
    BY <1>1
  <2>2. QED
    BY <1>2, <1>3, <1>4, <2>1

LEMMA EnvIInv ==
    IInv /\ (Arrive \/ PeerFin \/ PeerRst \/ ServerToggle)
         /\ UNCHANGED autoReconnect => IInv'
<1> SUFFICES ASSUME IInv, Arrive \/ PeerFin \/ PeerRst \/ ServerToggle,
                    UNCHANGED autoReconnect
             PROVE  IInv'
  OBVIOUS
<1>1. TypeNum'
  <2>1. /\ UNCHANGED <<pc, count, backoff, streak>>
        /\ \/ rx < MaxRx /\ rx' = rx + 1
           \/ rx' = rx
           \/ rx' = 0
    BY DEF Arrive, PeerFin, PeerRst, ServerToggle
  <2>2. QED
    BY <2>1, ConstantsAssumption DEF IInv, TypeNum
<1>2. TypeBool'
  BY DEF IInv, TypeBool, Arrive, PeerFin, PeerRst, ServerToggle
<1>3. Signalled'
  BY DEF IInv, Signalled, Arrive, PeerFin, PeerRst, ServerToggle
<1>4. QED
  BY <1>1, <1>2, <1>3 DEF IInv

LEMMA NextIInv == IInv /\ [Next]_vars => IInv'
<1> SUFFICES ASSUME IInv, [Next]_vars PROVE IInv'
  OBVIOUS
<1>1. CASE UNCHANGED vars
  BY <1>1 DEF IInv, TypeNum, TypeBool, Signalled, vars
<1>2. CASE Next
  BY <1>2, StartIInv, InputIInv, WaitIInv, ProcessIInv, ReconnectIInv,
     EnvIInv DEF Next
<1>3. QED
  BY <1>1, <1>2

(* The loop's state stays well-formed: the retry count and the run of     *)
(* failures within MAX_RETRY_COUNT, the backoff between its initial value *)
(* and the cap (reconnect(), parser.cpp 532-550).                         *)
THEOREM TypeCorrect == Spec => []TypeOK
BY InitIInv, NextIInv, IInvTypeOK, PTL DEF Spec

(* process_data reads until EAGAIN (part_003 136-159), so whenever the     *)
(* loop waits, every byte and hang-up that arrived on the live connection  *)
(* is signalled by a pending edge of the edge-triggered registration.      *)
THEOREM NoStrandedDataHolds == Spec => []NoStrandedData
<1>1. IInv => NoStrandedData
  <2> SUFFICES ASSUME IInv PROVE NoStrandedData
    OBVIOUS
  <2>1. rx > 0 => rx # 0
    BY DEF IInv, TypeNum
  <2>2. QED
    BY <2>1 DEF IInv, Signalled, NoStrandedData
<1>2. QED
  BY InitIInv, NextIInv, <1>1, PTL DEF Spec

=============================================================================

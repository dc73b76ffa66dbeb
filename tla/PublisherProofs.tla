-------------------------- MODULE PublisherProofs --------------------------
(***************************************************************************)
(* Proofs about the publisher's subscriber table and broadcast: the type   *)
(* invariant, which bounds every send queue by the buffer the kernel       *)
(* granted, and TornTailIsSlow, for every set of handles and symbols and   *)
(* every choice of sizes.                                                  *)
(***************************************************************************)
EXTENDS Publisher, TLAPS

(* MaxSndBuf is a grant no other grant exceeds.                            *)
LEMMA MaxSndBufIsMax ==
    /\ MaxSndBuf \in SndBufSizes
    /\ \A x \in SndBufSizes : x <= MaxSndBuf
BY SizesAssumption DEF MaxSndBuf

(* The sizes, without the existence of a largest grant, which only        *)
(* MaxSndBufIsMax needs.                                                   *)
LEMMA SizesFacts ==
    /\ HeartbeatSize \in Nat \ {0}
    /\ TradeSize \in Nat \ {0}
    /\ QuoteSize \in Nat \ {0}
    /\ SlowHigh \in Nat \ {0}
    /\ SndBufSizes \subseteq Nat \ {0}
BY SizesAssumption

(* send_to_client leaves the queue within the granted buffer, never lower  *)
(* than it was, and a torn tail only with the client marked slow.          *)
LEMMA SendResultSound ==
    ASSUME TypeOK, NEW c \in Fds, NEW len \in Nat \ {0}
    PROVE  LET r == SendResult(c, len)
           IN  /\ r.q \in 0 .. sndbuf[c]
               /\ r.slow \in BOOLEAN
               /\ r.tail \in Tails
               /\ r.tail = "torn" => r.slow
<1>1. sndbuf[c] \in Nat
  BY SizesFacts DEF TypeOK
<1>2. q[c] \in 0 .. sndbuf[c]
  BY <1>1, SizesFacts, MaxSndBufIsMax DEF TypeOK
<1>3. tail[c] \in Tails /\ slow[c] \in BOOLEAN
  BY DEF TypeOK
<1>4. CASE q[c] > SlowHigh \/ sndbuf[c] - q[c] = 0
  <2>1. SendResult(c, len) = [q |-> q[c], slow |-> TRUE, tail |-> tail[c]]
    BY <1>4 DEF SendResult
  <2>2. QED
    BY <2>1, <1>2, <1>3
<1>5. CASE ~(q[c] > SlowHigh \/ sndbuf[c] - q[c] = 0) /\ sndbuf[c] - q[c] < len
  <2>1. SendResult(c, len) = [q |-> sndbuf[c], slow |-> TRUE, tail |-> "torn"]
    BY <1>5 DEF SendResult
  <2>2. QED
    BY <2>1, <1>1 DEF Tails
<1>6. CASE ~(q[c] > SlowHigh \/ sndbuf[c] - q[c] = 0)
           /\ ~(sndbuf[c] - q[c] < len)
  <2>1. SendResult(c, len) =
          [q |-> q[c] + len, slow |-> slow[c] /\ ~(q[c] < SlowHigh \div 2),
           tail |-> "whole"]
    BY <1>6 DEF SendResult
  <2>2. q[c] + len \in 0 .. sndbuf[c]
    BY <1>1, <1>2, <1>6
  <2>3. QED
    BY <2>1, <2>2, <1>3 DEF Tails
<1>7. QED
  BY <1>4, <1>5, <1>6

(* A round of sends keeps the type and TornTailIsSlow of every handle.     *)
LEMMA SendAllSound ==
    ASSUME TypeOK, TornTailIsSlow,
           NEW targets \in SUBSET Fds, NEW failed \in SUBSET Fds,
           NEW len \in Nat \ {0},
           SendAll(targets, failed, len),
           clients' = clients, sndbuf' = sndbuf, closed' = closed,
           subAll' = subAll, subs' = subs
    PROVE  TypeOK' /\ TornTailIsSlow'
<1>1. ASSUME NEW c \in Fds
      PROVE  /\ q'[c] \in 0 .. sndbuf[c]
             /\ slow'[c] \in BOOLEAN
             /\ tail'[c] \in Tails
             /\ tail'[c] = "torn" => slow'[c] \/ c \notin clients
  <2>1. CASE c \in targets \ failed
    <3>1. /\ q'[c] = SendResult(c, len).q
          /\ slow'[c] = SendResult(c, len).slow
          /\ tail'[c] = SendResult(c, len).tail
      BY <2>1 DEF SendAll
    <3>2. QED
      BY <3>1, SendResultSound
  <2>2. CASE c \notin targets \ failed
    <3>1. q'[c] = q[c] /\ slow'[c] = slow[c] /\ tail'[c] = tail[c]
      BY <2>2 DEF SendAll
    <3>2. q[c] \in 0 .. sndbuf[c]
      BY SizesFacts, MaxSndBufIsMax DEF TypeOK
    <3>3. QED
      BY <3>1, <3>2 DEF TypeOK, TornTailIsSlow
  <2>3. QED
    BY <2>1, <2>2
<1>2. q' \in [Fds -> Nat] /\ slow' \in [Fds -> BOOLEAN] /\ tail' \in [Fds -> Tails]
  BY <1>1, SizesFacts DEF SendAll, TypeOK
<1>3. ASSUME NEW c \in Fds PROVE q'[c] \in 0 .. MaxSndBuf /\ q'[c] <= sndbuf'[c]
  <2>1. sndbuf[c] \in SndBufSizes
    BY DEF TypeOK
  <2>2. sndbuf[c] <= MaxSndBuf /\ sndbuf[c] \in Nat /\ MaxSndBuf \in Nat
    BY <2>1, MaxSndBufIsMax, SizesFacts
  <2>3. QED
    BY <1>1, <2>2
<1>4. TypeOK'
  BY <1>2, <1>3 DEF TypeOK
<1>5. TornTailIsSlow'
  <2> SUFFICES ASSUME NEW c \in clients', tail'[c] = "torn" PROVE slow'[c]
    BY DEF TornTailIsSlow
  <2>1. c \in Fds /\ c \in clients
    BY DEF TypeOK
  <2>2. QED
    BY <1>1, <2>1
<1>6. QED
  BY <1>4, <1>5

(* The invariant the proof carries.                                        *)
PubInv == TypeOK /\ TornTailIsSlow

LEMMA InitPubInv == Init => PubInv
BY MaxSndBufIsMax, SizesFacts DEF Init, PubInv, TypeOK, TornTailIsSlow, Tails

LEMMA NextPubInv == PubInv /\ [Next]_vars => PubInv'
<1> SUFFICES ASSUME PubInv, [Next]_vars PROVE PubInv'
  OBVIOUS
<1>1. ASSUME NEW c \in Fds, NEW b \in SndBufSizes, Accept(c, b) PROVE PubInv'
  <2>1. /\ clients' = clients \cup {c}
        /\ subAll' = [subAll EXCEPT ![c] = TRUE]
        /\ subs' = [subs EXCEPT ![c] = {}]
        /\ slow' = [slow EXCEPT ![c] = FALSE]
        /\ sndbuf' = [sndbuf EXCEPT ![c] = b]
        /\ q' = [q EXCEPT ![c] = 0]
        /\ tail' = [tail EXCEPT ![c] = "none"]
        /\ closed' = closed
    BY <1>1 DEF Accept, AddClient
  <2>2. b \in Nat /\ MaxSndBuf \in Nat /\ b <= MaxSndBuf
    BY MaxSndBufIsMax, SizesFacts
  <2>3. TypeOK'
    BY <2>1, <2>2, SizesFacts, MaxSndBufIsMax DEF PubInv, TypeOK, Tails
  <2>4. TornTailIsSlow'
    BY <2>1 DEF PubInv, TypeOK, TornTailIsSlow
  <2>5. QED
    BY <2>3, <2>4 DEF PubInv
<1>2. ASSUME NEW c \in Fds, NEW S \in SUBSET Symbols, Subscribe(c, S)
      PROVE PubInv'
  <2>1. /\ subs' = [subs EXCEPT ![c] = S]
        /\ subAll' = [subAll EXCEPT ![c] = (S = {})]
        /\ UNCHANGED <<clients, slow, sndbuf, q, tail, closed>>
    BY <1>2 DEF Subscribe, HandleSubscription
  <2>2. TypeOK'
    BY <2>1 DEF PubInv, TypeOK
  <2>3. TornTailIsSlow'
    BY <2>1 DEF PubInv, TornTailIsSlow
  <2>4. QED
    BY <2>2, <2>3 DEF PubInv
<1>3. ASSUME NEW c \in Fds, PeerClose(c) PROVE PubInv'
  <2>1. /\ c \in clients /\ closed' = closed \cup {c}
        /\ UNCHANGED <<clients, subAll, subs, slow, sndbuf, q, tail>>
    BY <1>3 DEF PeerClose
  <2>2. TypeOK'
    BY <2>1 DEF PubInv, TypeOK
  <2>3. TornTailIsSlow'
    BY <2>1 DEF PubInv, TornTailIsSlow
  <2>4. QED
    BY <2>2, <2>3 DEF PubInv
<1>4. ASSUME NEW c \in Fds, Disconnect(c) PROVE PubInv'
  <2>1. /\ clients' = clients \ {c} /\ closed' = closed \ {c}
        /\ UNCHANGED <<subAll, subs, slow, sndbuf, q, tail>>
    BY <1>4 DEF Disconnect, RemoveClient
  <2>2. TypeOK'
    BY <2>1 DEF PubInv, TypeOK
  <2>3. TornTailIsSlow'
    BY <2>1 DEF PubInv, TornTailIsSlow
  <2>4. QED
    BY <2>2, <2>3 DEF PubInv
<1>5. ASSUME NEW sym \in Symbols, NEW len \in {TradeSize, QuoteSize},
             NEW failed \in SUBSET closed, Tick(sym, len, failed)
      PROVE PubInv'
  <2>1. Eligible(sym) \in SUBSET Fds /\ failed \in SUBSET Fds
    BY DEF PubInv, TypeOK, Eligible
  <2>2. len \in Nat \ {0}
    BY SizesFacts
  <2>3. QED
    BY <1>5, <2>1, <2>2, SendAllSound DEF PubInv, Tick
<1>6. ASSUME NEW failed \in SUBSET closed, Heartbeat(failed) PROVE PubInv'
  <2>1. clients \in SUBSET Fds /\ failed \in SUBSET Fds
    BY DEF PubInv, TypeOK
  <2>2. HeartbeatSize \in Nat \ {0}
    BY SizesFacts
  <2>3. QED
    BY <1>6, <2>1, <2>2, SendAllSound DEF PubInv, Heartbeat
<1>7. ASSUME NEW c \in Fds, NEW k \in 1 .. MaxSndBuf, Transmit(c, k)
      PROVE PubInv'
  <2>1. /\ q[c] \in 0 .. MaxSndBuf /\ q[c] <= sndbuf[c]
        /\ MaxSndBuf \in Nat /\ sndbuf[c] \in Nat
    BY MaxSndBufIsMax, SizesFacts DEF PubInv, TypeOK
  <2>2. k \in 1 .. q[c]
    BY <1>7 DEF Transmit
  <2>3. q[c] - k \in 0 .. MaxSndBuf /\ q[c] - k <= sndbuf[c]
    BY <2>1, <2>2
  <2>4. QED
    BY <1>7, <2>3 DEF PubInv, TypeOK, TornTailIsSlow, Transmit
<1>8. CASE UNCHANGED vars
  BY <1>8 DEF PubInv, TypeOK, TornTailIsSlow, vars
<1>9. CASE Next
  BY <1>9, <1>1, <1>2, <1>3, <1>4, <1>5, <1>6, <1>7 DEF Next
<1>10. QED
  BY <1>8, <1>9

(* The subscriber table stays well-formed, each send queue within the     *)
(* buffer the kernel granted (send_to_client, part_006 117-158).          *)
THEOREM TypeCorrect == Spec => []TypeOK
BY InitPubInv, NextPubInv, PTL DEF Spec, PubInv

(* A partial send (part_006:146) leaves a torn frame at the end of a       *)
(* client's stream only while the client is marked slow, so broadcast      *)
(* writes nothing after the fragment.                                      *)
THEOREM TornTailSafety == Spec => []TornTailIsSlow
BY InitPubInv, NextPubInv, PTL DEF Spec, PubInv

=============================================================================

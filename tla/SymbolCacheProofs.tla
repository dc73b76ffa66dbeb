------------------------- MODULE SymbolCacheProofs -------------------------
(***************************************************************************)
(* Proofs about the seqlock SymbolCache, for every number of readers, of   *)
(* symbols and of updates.                                                 *)
(***************************************************************************)
EXTENDS SymbolCache, TLAPS

\* A set of field stores whose values are natural numbers.
TargetOK(t) == DOMAIN t \subseteq Fields /\ \A f \in DOMAIN t : t[f] \in Nat

(* The field stores each writer operation begins are well typed.           *)
LEMMA TargetsOK ==
    ASSUME NEW st \in [Fields -> Nat], NEW k \in Nat
    PROVE  /\ TargetOK(QuoteTarget(st, k))
           /\ TargetOK(TradeTarget(st, k))
           /\ TargetOK(SideTarget("bid", st, k))
           /\ TargetOK(SideTarget("ask", st, k))
<1>1. TargetOK(QuoteTarget(st, k))
  BY DEF TargetOK, QuoteTarget, Fields
<1>2. TargetOK(TradeTarget(st, k))
  BY DEF TargetOK, TradeTarget, Fields
<1>3. TargetOK(SideTarget("bid", st, k)) /\ TargetOK(SideTarget("ask", st, k))
  BY DEF TargetOK, SideTarget, Fields
<1>4. QED
  BY <1>1, <1>2, <1>3

(* begin_write of any of the four operations keeps the types.             *)
LEMMA BeginWriteType ==
    ASSUME TypeInv, NEW s \in SymbolIds, NEW tgt, TargetOK(tgt),
           BeginWrite(s, tgt)
    PROVE  TypeInv'
BY NumSymbolsAssumption DEF TypeInv, TypeOK, ReaderOnEntry, BeginWrite,
   TargetOK, Symbols, SymbolIds

(* The initial state of the cache and of every thread is well typed.      *)
LEMMA InitType == Init => TypeInv
BY NumSymbolsAssumption
DEF Init, TypeInv, TypeOK, ReaderOnEntry, Zero, Symbols, SymbolIds

(* Every operation of the writer and every step of get_snapshot keeps the *)
(* types, and a reader inside the loop of get_snapshot reads a valid entry.*)
LEMMA TypeStep == TypeInv /\ [Next]_vars => TypeInv'
<1> SUFFICES ASSUME TypeInv, [Next]_vars PROVE TypeInv'
  OBVIOUS
<1>1. ASSUME NEW s \in SymbolIds,
             UpdateQuote(s) \/ UpdateTrade(s) \/ UpdateBid(s) \/ UpdateAsk(s)
      PROVE  TypeInv'
  <2>1. s < NumSymbols
    BY <1>1 DEF UpdateQuote, UpdateTrade, UpdateBid, UpdateAsk, BeginWrite
  <2>2. state[s] \in [Fields -> Nat] /\ nupd + 1 \in Nat
    BY <2>1, NumSymbolsAssumption DEF TypeInv, TypeOK, Symbols, SymbolIds
  <2>3. QED
    BY <1>1, <2>2, TargetsOK, BeginWriteType
    DEF UpdateQuote, UpdateTrade, UpdateBid, UpdateAsk
<1>2. CASE StoreField
  BY <1>2 DEF StoreField, TypeInv, TypeOK, ReaderOnEntry
<1>3. CASE EndWrite
  BY <1>3 DEF EndWrite, Commit, TypeInv, TypeOK, ReaderOnEntry
<1>4. CASE Reset
  BY <1>4, NumSymbolsAssumption
  DEF Reset, TypeInv, TypeOK, ReaderOnEntry, Symbols
<1>5. CASE ResetSeq
  BY <1>5 DEF ResetSeq, TypeInv, TypeOK, ReaderOnEntry
<1>6. CASE ResetField
  BY <1>6 DEF ResetField, TypeInv, TypeOK, ReaderOnEntry
<1>7. CASE ResetNext
  <2>1. window' \in [Readers -> SUBSET [Fields -> Nat]]
    BY <1>7 DEF ResetNext, Commit, TypeInv, TypeOK, Zero
  <2>2. wpc' \in {"idle", "write", "rseq", "rfields"} /\ wsym' \in Symbols
    BY <1>7, NumSymbolsAssumption DEF ResetNext, TypeInv, TypeOK, Symbols
  <2>3. QED
    BY <1>7, <2>1, <2>2 DEF ResetNext, TypeInv, TypeOK, ReaderOnEntry
<1>8. ASSUME NEW r \in Readers, NEW s \in SymbolIds, GetSnapshot(r, s)
      PROVE  TypeInv'
  <2>1. CASE s < NumSymbols
    <3>1. rpc' = [rpc EXCEPT ![r] = "load1"] /\ snap' = snap
      BY <1>8, <2>1 DEF GetSnapshot
    <3>2. s \in Symbols
      BY <2>1, NumSymbolsAssumption DEF SymbolIds, Symbols
    <3>3. TypeOK'
      BY <1>8, <3>1 DEF GetSnapshot, TypeInv, TypeOK
    <3>4. ReaderOnEntry'
      BY <1>8, <3>1, <3>2 DEF GetSnapshot, TypeInv, TypeOK, ReaderOnEntry
    <3>5. QED
      BY <3>3, <3>4 DEF TypeInv
  <2>2. CASE ~(s < NumSymbols)
    <3>1. rpc' = [rpc EXCEPT ![r] = "done"] /\ snap' = [snap EXCEPT ![r] = Zero]
      BY <1>8, <2>2 DEF GetSnapshot
    <3>2. TypeOK'
      BY <1>8, <3>1 DEF GetSnapshot, TypeInv, TypeOK, Zero
    <3>3. ReaderOnEntry'
      BY <1>8, <3>1 DEF GetSnapshot, TypeInv, TypeOK, ReaderOnEntry
    <3>4. QED
      BY <3>2, <3>3 DEF TypeInv
  <2>3. QED
    BY <2>1, <2>2
<1>9. ASSUME NEW r \in Readers, LoadSeq1(r) PROVE TypeInv'
  <2>1. rsym[r] \in Symbols /\ seq[rsym[r]] \in Nat /\ state[rsym[r]] \in [Fields -> Nat]
    BY <1>9 DEF LoadSeq1, TypeInv, TypeOK, ReaderOnEntry
  <2>2. CASE Odd(seq[rsym[r]])
    <3>1. rpc' = rpc /\ window' = window
      BY <1>9, <2>2 DEF LoadSeq1
    <3>2. QED
      BY <1>9, <2>1, <3>1 DEF LoadSeq1, TypeInv, TypeOK, ReaderOnEntry
  <2>3. CASE ~Odd(seq[rsym[r]])
    <3>1. rpc' = [rpc EXCEPT ![r] = "copy"]
          /\ window' = [window EXCEPT ![r] = {state[rsym[r]]}]
      BY <1>9, <2>3 DEF LoadSeq1
    <3>2. QED
      BY <1>9, <2>1, <3>1 DEF LoadSeq1, TypeInv, TypeOK, ReaderOnEntry
  <2>4. QED
    BY <2>2, <2>3
<1>10. ASSUME NEW r \in Readers, CopyField(r) PROVE TypeInv'
  <2>1. PICK f \in Fields \ copied[r] :
               /\ snap' = [snap EXCEPT ![r][f] = state[rsym[r]][f]]
               /\ copied' = [copied EXCEPT ![r] = @ \cup {f}]
    BY <1>10 DEF CopyField
  <2>2. rsym[r] \in Symbols /\ state[rsym[r]][f] \in Nat
    BY <1>10 DEF CopyField, TypeInv, TypeOK, ReaderOnEntry
  <2>3. rpc' = rpc \/ rpc' = [rpc EXCEPT ![r] = "check"]
    BY <1>10 DEF CopyField
  <2>4. TypeOK'
    BY <1>10, <2>1, <2>2, <2>3 DEF CopyField, TypeInv, TypeOK
  <2>5. ReaderOnEntry'
    BY <1>10, <2>2, <2>3 DEF CopyField, TypeInv, TypeOK, ReaderOnEntry
  <2>6. QED
    BY <2>4, <2>5 DEF TypeInv
<1>11. ASSUME NEW r \in Readers, LoadSeq2(r) PROVE TypeInv'
  BY <1>11 DEF LoadSeq2, TypeInv, TypeOK, ReaderOnEntry
<1>12. ASSUME NEW r \in Readers, ReturnSnapshot(r) PROVE TypeInv'
  BY <1>12, NumSymbolsAssumption
  DEF ReturnSnapshot, TypeInv, TypeOK, ReaderOnEntry, Zero, SymbolIds
<1>13. CASE UNCHANGED vars
  BY <1>13 DEF vars, TypeInv, TypeOK, ReaderOnEntry
<1>14. QED
  BY <1>1, <1>2, <1>3, <1>4, <1>5, <1>6, <1>7, <1>8, <1>9, <1>10,
     <1>11, <1>12, <1>13 DEF Next, Writer, Reader

(* The type invariant holds in every reachable state.                      *)
THEOREM TypeCorrect == Spec => []TypeInv
BY InitType, TypeStep, PTL DEF Spec

-----------------------------------------------------------------------------
(* Seqlock safety.  SeqlockInv is inductive when reset() runs only with   *)
(* every reader outside get_snapshot: each lemma below shows one writer   *)
(* or reader step keeps it, given that the step keeps the types.          *)

(* Incrementing a sequence number flips its parity; zero is even.          *)
LEMMA OddSucc ==
    ASSUME NEW k \in Nat
    PROVE  /\ Odd(k + 1) <=> ~Odd(k)
           /\ ~Odd(0)
BY DEF Odd

(* begin_write makes the entry's sequence odd, so no reader attempt that   *)
(* started before it can still match its seq1.                             *)
LEMMA BeginWriteSafe ==
    ASSUME SeqlockInv, TypeInv', NEW s \in SymbolIds, NEW tgt, BeginWrite(s, tgt)
    PROVE  SeqlockInv'
<1>1. s \in Symbols /\ ~Odd(seq[s])
  BY NumSymbolsAssumption
  DEF BeginWrite, SeqlockInv, OddIffWriting, Symbols, SymbolIds
<1>2. OddIffWriting'
  <2> SUFFICES ASSUME NEW x \in Symbols
               PROVE  Odd(seq'[x]) <=> (wpc' = "write" /\ wsym' = x)
    BY DEF OddIffWriting
  <2>1. CASE x = s
    <3>1. seq'[x] = seq[s] + 1 /\ seq[s] \in Nat
      BY <1>1, <2>1 DEF BeginWrite, SeqlockInv, TypeInv, TypeOK
    <3>2. QED
      BY <1>1, <2>1, <3>1, OddSucc DEF BeginWrite
  <2>2. CASE x # s
    <3>1. seq'[x] = seq[x]
      BY <2>2 DEF BeginWrite, SeqlockInv, TypeInv, TypeOK
    <3>2. QED
      BY <2>2, <3>1 DEF BeginWrite, SeqlockInv, OddIffWriting
  <2>3. QED
    BY <2>1, <2>2
<1>3. ResetAlone'
  BY DEF BeginWrite, ResetAlone
<1>4. ASSUME NEW r \in Readers PROVE AttemptSound(r)'
  <2>1. CASE rsym[r] = s
    BY <1>1, <2>1 DEF BeginWrite, SeqlockInv, AttemptSound, TypeInv, TypeOK
  <2>2. CASE rsym[r] # s
    BY <2>2 DEF BeginWrite, SeqlockInv, AttemptSound, TypeInv, TypeOK
  <2>3. QED
    BY <2>1, <2>2
<1>5. SnapshotConsistent'
  BY DEF BeginWrite, SeqlockInv, SnapshotConsistent
<1>6. QED
  BY <1>2, <1>3, <1>4, <1>5 DEF SeqlockInv

(* A plain store goes to the entry being written, whose sequence is odd.   *)
LEMMA StoreFieldSafe ==
    ASSUME SeqlockInv, TypeInv', StoreField
    PROVE  SeqlockInv'
<1>1. PICK f \in wpend : state' = [state EXCEPT ![wsym][f] = wval[f]]
  BY DEF StoreField
<1>2. Odd(seq[wsym])
  BY DEF StoreField, SeqlockInv, OddIffWriting, TypeInv, TypeOK
<1>3. \A x \in Symbols : x # wsym => state'[x] = state[x]
  BY <1>1 DEF SeqlockInv, TypeInv, TypeOK
<1>4. OddIffWriting' /\ ResetAlone' /\ SnapshotConsistent'
  BY DEF StoreField, SeqlockInv, OddIffWriting, ResetAlone, SnapshotConsistent
<1>5. ASSUME NEW r \in Readers PROVE AttemptSound(r)'
  <2>1. CASE rsym[r] = wsym
    BY <1>2, <2>1 DEF StoreField, SeqlockInv, AttemptSound
  <2>2. CASE rsym[r] # wsym
    BY <1>3, <2>2 DEF StoreField, SeqlockInv, AttemptSound
  <2>3. QED
    BY <2>1, <2>2
<1>6. QED
  BY <1>4, <1>5 DEF SeqlockInv

(* Commit only adds states to the windows of readers.                      *)
LEMMA CommitGrows ==
    ASSUME TypeInv, NEW x, NEW st, Commit(x, st)
    PROVE  \A r \in Readers : window[r] \subseteq window'[r]
BY DEF Commit, TypeInv, TypeOK

(* end_write makes the sequence even and larger than the seq1 of every     *)
(* attempt that overlapped the update.                                     *)
LEMMA EndWriteSafe ==
    ASSUME SeqlockInv, TypeInv', EndWrite
    PROVE  SeqlockInv'
<1>1. Odd(seq[wsym]) /\ wsym \in Symbols
  BY DEF EndWrite, SeqlockInv, OddIffWriting, TypeInv, TypeOK
<1>2. \A r \in Readers : window[r] \subseteq window'[r]
  BY CommitGrows DEF EndWrite, SeqlockInv
<1>3. OddIffWriting'
  <2> SUFFICES ASSUME NEW x \in Symbols
               PROVE  Odd(seq'[x]) <=> (wpc' = "write" /\ wsym' = x)
    BY DEF OddIffWriting
  <2>1. CASE x = wsym
    <3>1. seq'[x] = seq[wsym] + 1 /\ seq[wsym] \in Nat
      BY <1>1, <2>1 DEF EndWrite, SeqlockInv, TypeInv, TypeOK
    <3>2. QED
      BY <1>1, <2>1, <3>1, OddSucc DEF EndWrite
  <2>2. CASE x # wsym
    <3>1. seq'[x] = seq[x]
      BY <1>1, <2>2 DEF EndWrite, SeqlockInv, TypeInv, TypeOK
    <3>2. QED
      BY <2>2, <3>1 DEF EndWrite, SeqlockInv, OddIffWriting
  <2>3. QED
    BY <2>1, <2>2
<1>4. ResetAlone'
  BY DEF EndWrite, ResetAlone
<1>5. ASSUME NEW r \in Readers PROVE AttemptSound(r)'
  <2>1. CASE rsym[r] = wsym
    BY <1>1, <2>1 DEF EndWrite, SeqlockInv, AttemptSound, TypeInv, TypeOK
  <2>2. CASE rsym[r] # wsym
    BY <1>2, <2>2 DEF EndWrite, SeqlockInv, AttemptSound, TypeInv, TypeOK
  <2>3. QED
    BY <2>1, <2>2
<1>6. SnapshotConsistent'
  BY <1>2 DEF EndWrite, SeqlockInv, SnapshotConsistent
<1>7. QED
  BY <1>3, <1>4, <1>5, <1>6 DEF SeqlockInv

(* The steps of reset() run while every reader is outside get_snapshot,    *)
(* so only OddIffWriting has to be checked for them.                       *)
LEMMA ResetSafe ==
    ASSUME SeqlockInv, TypeInv', ResetQuiescent,
           Reset \/ ResetSeq \/ ResetField \/ ResetNext
    PROVE  SeqlockInv'
<1>1. \A r \in Readers : rpc'[r] = "idle"
  BY DEF Reset, ResetSeq, ResetField, ResetNext, SeqlockInv, ResetAlone,
         Quiescent
<1>2. wpc' # "write" /\ wpc' \in {"idle", "rseq", "rfields"}
  BY DEF Reset, ResetSeq, ResetField, ResetNext
<1>3. \A x \in Symbols : ~Odd(seq[x])
  BY DEF Reset, ResetSeq, ResetField, ResetNext, SeqlockInv, OddIffWriting
<1>4. \A x \in Symbols : ~Odd(seq'[x])
  <2>1. CASE ResetSeq
    <3>1. \A x \in Symbols : seq'[x] = IF x = wsym THEN 0 ELSE seq[x]
      BY <2>1 DEF ResetSeq, SeqlockInv, TypeInv, TypeOK
    <3>2. QED
      BY <1>3, <3>1, OddSucc
  <2>2. CASE Reset \/ ResetField \/ ResetNext
    BY <1>3, <2>2 DEF Reset, ResetField, ResetNext
  <2>3. QED
    BY <2>1, <2>2
<1>5. QED
  BY <1>1, <1>2, <1>4
  DEF SeqlockInv, OddIffWriting, ResetAlone, AttemptSound, SnapshotConsistent

(* A reader inside get_snapshot keeps reset() out, by ResetAlone.          *)
LEMMA ReaderInside ==
    ASSUME SeqlockInv, NEW r \in Readers, rpc[r] # "idle"
    PROVE  wpc \notin {"rseq", "rfields"}
BY DEF SeqlockInv, ResetAlone

(* Entering get_snapshot: an id out of range returns MarketState{}.        *)
LEMMA GetSnapshotSafe ==
    ASSUME SeqlockInv, TypeInv', ResetQuiescent,
           NEW r \in Readers, NEW s \in SymbolIds, GetSnapshot(r, s)
    PROVE  SeqlockInv'
<1>1. rpc'[r] \in {"load1", "done"}
      /\ (rpc'[r] = "done" => ~(rsym'[r] < NumSymbols) /\ snap'[r] = Zero)
  BY DEF GetSnapshot, SeqlockInv, TypeInv, TypeOK
<1>2. \A q \in Readers \ {r} :
         /\ rpc'[q] = rpc[q] /\ rsym'[q] = rsym[q] /\ snap'[q] = snap[q]
  BY DEF GetSnapshot, SeqlockInv, TypeInv, TypeOK
<1>3. OddIffWriting' /\ ResetAlone'
  BY DEF GetSnapshot, SeqlockInv, OddIffWriting, ResetAlone
<1>4. \A q \in Readers : AttemptSound(q)'
  BY <1>1, <1>2 DEF GetSnapshot, SeqlockInv, AttemptSound
<1>5. SnapshotConsistent'
  BY <1>1, <1>2 DEF GetSnapshot, SeqlockInv, SnapshotConsistent
<1>6. QED
  BY <1>3, <1>4, <1>5 DEF SeqlockInv

(* seq1 = sequence.load(): an even seq1 starts an attempt whose window is  *)
(* the entry's current state.                                              *)
LEMMA LoadSeq1Safe ==
    ASSUME SeqlockInv, TypeInv', NEW r \in Readers, LoadSeq1(r)
    PROVE  SeqlockInv'
<1>1. rsym[r] \in Symbols
  BY DEF LoadSeq1, SeqlockInv, TypeInv, ReaderOnEntry
<1>2. wpc \notin {"rseq", "rfields"}
  BY ReaderInside DEF LoadSeq1
<1>3. \A q \in Readers \ {r} :
         /\ rpc'[q] = rpc[q] /\ rseq1'[q] = rseq1[q]
         /\ copied'[q] = copied[q] /\ window'[q] = window[q]
  BY DEF LoadSeq1, SeqlockInv, TypeInv, TypeOK
<1>4. AttemptSound(r)'
  <2>1. CASE Odd(seq[rsym[r]])
    BY <2>1 DEF LoadSeq1, AttemptSound
  <2>2. CASE ~Odd(seq[rsym[r]])
    <3>1. /\ rpc'[r] = "copy" /\ rseq1'[r] = seq[rsym[r]]
          /\ window'[r] = {state[rsym[r]]} /\ copied'[r] = {}
      BY <2>2 DEF LoadSeq1, SeqlockInv, TypeInv, TypeOK
    <3>2. seq' = seq /\ rsym' = rsym /\ state' = state /\ seq[rsym[r]] \in Nat
      BY <1>1 DEF LoadSeq1, SeqlockInv, TypeInv, TypeOK
    <3>3. QED
      BY <1>1, <2>2, <3>1, <3>2 DEF AttemptSound
  <2>3. QED
    BY <2>1, <2>2
<1>5. \A q \in Readers : AttemptSound(q)'
  BY <1>3, <1>4 DEF LoadSeq1, SeqlockInv, AttemptSound
<1>6. rpc'[r] \in {"load1", "copy"}
  BY DEF LoadSeq1, SeqlockInv, TypeInv, TypeOK
<1>7. OddIffWriting' /\ ResetAlone' /\ SnapshotConsistent'
  BY <1>2, <1>3, <1>6
  DEF LoadSeq1, SeqlockInv, OddIffWriting, ResetAlone, SnapshotConsistent
<1>8. QED
  BY <1>5, <1>7 DEF SeqlockInv

(* One field copied: while the sequence still equals seq1, it is the       *)
(* entry's field.                                                          *)
LEMMA CopyFieldSafe ==
    ASSUME SeqlockInv, TypeInv', NEW r \in Readers, CopyField(r)
    PROVE  SeqlockInv'
<1>1. PICK f \in Fields \ copied[r] :
             /\ snap' = [snap EXCEPT ![r][f] = state[rsym[r]][f]]
             /\ copied' = [copied EXCEPT ![r] = @ \cup {f}]
  BY DEF CopyField
<1>2. wpc \notin {"rseq", "rfields"}
  BY ReaderInside DEF CopyField
<1>3. /\ copied'[r] = copied[r] \cup {f}
      /\ snap'[r][f] = state[rsym[r]][f]
      /\ \A g \in Fields \ {f} : snap'[r][g] = snap[r][g]
      /\ \A q \in Readers \ {r} :
            rpc'[q] = rpc[q] /\ snap'[q] = snap[q] /\ copied'[q] = copied[q]
  <2>1. snap[r] \in [Fields -> Nat] /\ copied[r] \subseteq Fields
    BY DEF SeqlockInv, TypeInv, TypeOK
  <2>2. snap'[r] = [snap[r] EXCEPT ![f] = state[rsym[r]][f]]
    BY <1>1 DEF SeqlockInv, TypeInv, TypeOK
  <2>3. \A q \in Readers \ {r} :
            rpc'[q] = rpc[q] /\ snap'[q] = snap[q] /\ copied'[q] = copied[q]
    BY <1>1 DEF CopyField, SeqlockInv, TypeInv, TypeOK
  <2>4. copied'[r] = copied[r] \cup {f}
    BY <1>1 DEF SeqlockInv, TypeInv, TypeOK
  <2>5. QED
    BY <2>1, <2>2, <2>3, <2>4
<1>4. /\ rpc'[r] \in {"copy", "check"}
      /\ rpc'[r] = "check" => copied'[r] = Fields
  BY DEF CopyField, SeqlockInv, TypeInv, TypeOK
<1>5. AttemptSound(r)'
  BY <1>3, <1>4 DEF CopyField, SeqlockInv, AttemptSound
<1>6. \A q \in Readers : AttemptSound(q)'
  BY <1>3, <1>5 DEF CopyField, SeqlockInv, AttemptSound
<1>7. OddIffWriting' /\ ResetAlone' /\ SnapshotConsistent'
  BY <1>2, <1>3, <1>4
  DEF CopyField, SeqlockInv, OddIffWriting, ResetAlone, SnapshotConsistent
<1>8. QED
  BY <1>6, <1>7 DEF SeqlockInv

(* seq2 = sequence.load(): when it equals seq1 every field was copied      *)
(* while the entry held one committed state, so the copy is that state.    *)
LEMMA LoadSeq2Safe ==
    ASSUME SeqlockInv, TypeInv', NEW r \in Readers, LoadSeq2(r)
    PROVE  SeqlockInv'
<1>1. wpc \notin {"rseq", "rfields"}
  BY ReaderInside DEF LoadSeq2
<1>2. \A q \in Readers \ {r} : rpc'[q] = rpc[q]
  BY DEF LoadSeq2, SeqlockInv, TypeInv, TypeOK
<1>3. AttemptSound(r)'
  BY DEF LoadSeq2, SeqlockInv, TypeInv, TypeOK, AttemptSound
<1>4. \A q \in Readers : AttemptSound(q)'
  BY <1>2, <1>3 DEF LoadSeq2, SeqlockInv, AttemptSound
<1>5. CASE seq[rsym[r]] = rseq1[r]
  <2>1. rsym[r] \in Symbols /\ copied[r] = Fields
        /\ state[rsym[r]] \in window[r]
        /\ \A f \in Fields : snap[r][f] = state[rsym[r]][f]
    BY <1>5 DEF LoadSeq2, SeqlockInv, AttemptSound
  <2>2. snap[r] = state[rsym[r]]
    BY <2>1 DEF SeqlockInv, TypeInv, TypeOK
  <2>3. rsym[r] < NumSymbols
    BY <2>1, NumSymbolsAssumption DEF Symbols
  <2>4. SnapshotConsistent'
    BY <1>2, <2>2, <2>3, <2>1
    DEF LoadSeq2, SeqlockInv, SnapshotConsistent
  <2>5. QED
    BY <1>1, <1>4, <2>4
    DEF LoadSeq2, SeqlockInv, OddIffWriting, ResetAlone
<1>6. CASE seq[rsym[r]] # rseq1[r]
  <2>1. rpc'[r] = "load1"
    BY <1>6 DEF LoadSeq2, SeqlockInv, TypeInv, TypeOK
  <2>2. QED
    BY <1>1, <1>2, <1>4, <2>1
    DEF LoadSeq2, SeqlockInv, OddIffWriting, ResetAlone, SnapshotConsistent
<1>7. QED
  BY <1>5, <1>6

(* The caller takes the snapshot and the reader leaves get_snapshot.       *)
LEMMA ReturnSnapshotSafe ==
    ASSUME SeqlockInv, TypeInv', NEW r \in Readers, ReturnSnapshot(r)
    PROVE  SeqlockInv'
<1>1. wpc \notin {"rseq", "rfields"}
  BY ReaderInside DEF ReturnSnapshot
<1>2. rpc'[r] = "idle"
      /\ \A q \in Readers \ {r} :
            /\ rpc'[q] = rpc[q] /\ rsym'[q] = rsym[q] /\ rseq1'[q] = rseq1[q]
            /\ snap'[q] = snap[q] /\ copied'[q] = copied[q]
            /\ window'[q] = window[q]
  BY DEF ReturnSnapshot, SeqlockInv, TypeInv, TypeOK
<1>3. QED
  BY <1>1, <1>2
  DEF ReturnSnapshot, SeqlockInv, OddIffWriting, ResetAlone, AttemptSound,
      SnapshotConsistent

(* The initial state satisfies the seqlock invariant.                      *)
LEMMA InitSafe == Init => SeqlockInv
BY InitType, OddSucc
DEF Init, SeqlockInv, OddIffWriting, ResetAlone, AttemptSound,
    SnapshotConsistent

(* With reset() called only while no reader is inside get_snapshot (the    *)
(* contract spec section 4.3 puts on SymbolCache::reset), SeqlockInv holds *)
(* in every reachable state of the writer and any number of readers.       *)
THEOREM SeqlockInvariant ==
    ASSUME ResetQuiescent
    PROVE  Spec => []SeqlockInv
<1>1. SeqlockInv /\ [Next]_vars => SeqlockInv'
  <2> SUFFICES ASSUME SeqlockInv, [Next]_vars PROVE SeqlockInv'
    OBVIOUS
  <2>1. TypeInv'
    BY TypeStep DEF SeqlockInv
  <2>2. ASSUME NEW s \in SymbolIds,
               UpdateQuote(s) \/ UpdateTrade(s) \/ UpdateBid(s) \/ UpdateAsk(s)
        PROVE  SeqlockInv'
    BY <2>1, <2>2, BeginWriteSafe
    DEF UpdateQuote, UpdateTrade, UpdateBid, UpdateAsk
  <2>3. CASE StoreField
    BY <2>1, <2>3, StoreFieldSafe
  <2>4. CASE EndWrite
    BY <2>1, <2>4, EndWriteSafe
  <2>5. CASE Reset \/ ResetSeq \/ ResetField \/ ResetNext
    BY <2>1, <2>5, ResetSafe
  <2>6. ASSUME NEW r \in Readers, NEW s \in SymbolIds, GetSnapshot(r, s)
        PROVE  SeqlockInv'
    BY <2>1, <2>6, GetSnapshotSafe
  <2>7. ASSUME NEW r \in Readers,
               LoadSeq1(r) \/ CopyField(r) \/ LoadSeq2(r) \/ ReturnSnapshot(r)
        PROVE  SeqlockInv'
    BY <2>1, <2>7, LoadSeq1Safe, CopyFieldSafe, LoadSeq2Safe, ReturnSnapshotSafe
  <2>8. CASE UNCHANGED vars
    BY <2>8 DEF vars, SeqlockInv, TypeInv, TypeOK, ReaderOnEntry,
                OddIffWriting, ResetAlone, AttemptSound, SnapshotConsistent
  <2>9. QED
    BY <2>2, <2>3, <2>4, <2>5, <2>6, <2>7, <2>8 DEF Next, Writer, Reader
<1>2. QED
  BY InitSafe, <1>1, PTL DEF Spec

(* Seqlock safety: every snapshot get_snapshot returns is a state the      *)
(* writer committed during the reader's last attempt, never a mixture.     *)
THEOREM SnapshotSafety ==
    ASSUME ResetQuiescent
    PROVE  Spec => []SnapshotConsistent
<1>1. SeqlockInv => SnapshotConsistent
  BY DEF SeqlockInv
<1>2. QED
  BY SeqlockInvariant, <1>1, PTL

=============================================================================

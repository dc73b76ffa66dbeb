---------------------------- MODULE SymbolCache ----------------------------
(***************************************************************************)
(* The client's per-symbol snapshot cache, SymbolCache (src/src/common/    *)
(* cache.cpp, declared in src/unnamed/part_007): one writer thread (the    *)
(* feed handler's parser callbacks) and any number of reader threads       *)
(* (the visualizer, tests) synchronised by a per-entry sequence counter,   *)
(* a seqlock.                                                              *)
(*                                                                         *)
(* The payload of an entry is a plain struct copied and stored field by    *)
(* field without synchronisation.  The model therefore splits every        *)
(* writer operation into begin_write, one step per field store and         *)
(* end_write, and every get_snapshot into its sequence loads and one step  *)
(* per field copied, in any order (the compiler may reorder the plain      *)
(* accesses between the fences).                                          *)
(*                                                                         *)
(* Data abstraction: the payload fields are grouped as the update          *)
(* functions write them (best_bid and bid_quantity are "bid", and so on).  *)
(* Update number k writes the label k into every price, quantity and time  *)
(* field it touches, so a snapshot that mixes two updates is visible.      *)
(* update_count keeps its real value.                                      *)
(***************************************************************************)
EXTENDS Naturals, FiniteSets

CONSTANTS
    Readers,         \* reader threads calling get_snapshot
    NumSymbols,      \* num_symbols_ of the cache
    MaxUpdates,      \* bound on the number of writer updates
    MaxResets,       \* bound on the number of reset() calls
    ResetQuiescent   \* TRUE: reset() runs only while no reader is inside
                     \* get_snapshot, as spec section 4.3 requires

ASSUME NumSymbolsAssumption == NumSymbols \in Nat \ {0}
ASSUME BoundsAssumption == MaxUpdates \in Nat /\ MaxResets \in Nat
ASSUME ResetQuiescentAssumption == ResetQuiescent \in BOOLEAN

VARIABLES
    seq,      \* seq[s]: entries_[s].sequence
    state,    \* state[s]: entries_[s].state, one value per field group
    wpc,      \* writer's place: idle, inside an update, inside reset()
    wsym,     \* symbol the writer is storing to
    wpend,    \* fields the current update or reset still has to store
    wval,     \* values the current update stores into its fields
    nupd,     \* updates begun so far (bounded by MaxUpdates)
    nreset,   \* reset() calls begun so far (bounded by MaxResets)
    rpc,      \* reader's place inside get_snapshot
    rsym,     \* symbol the reader reads
    rseq1,    \* seq1 of the reader's current attempt
    snap,     \* the reader's local copy of the entry
    copied,   \* fields copied in the current attempt
    window    \* history: entry states committed during the current attempt

vars == <<seq, state, wpc, wsym, wpend, wval, nupd, nreset,
          rpc, rsym, rseq1, snap, copied, window>>

Symbols == 0 .. NumSymbols - 1

\* symbol ids a caller may pass: the valid ones and one out of range
SymbolIds == 0 .. NumSymbols

\* The field groups of MarketState (part_007 lines 11-21).
\* last_update_time is stored by every update together with update_count
\* and is grouped with it.
Fields == {"bid", "ask", "last", "count", "open"}


\* MarketState{}: every field zero.
Zero == [f \in Fields |-> 0]

Odd(k) == k % 2 = 1

-----------------------------------------------------------------------------
(* The four writer operations.  Each is begin_write followed by the field  *)
(* stores of Target and end_write; Target gives the fields an update       *)
(* stores and their values.                                                *)

\* update_quote: bid and ask sides, time, update_count++, and opening_price
\* when it is still 0.
QuoteTarget(st, k) ==
    LET base == [f \in {"bid", "ask", "count"} |->
                    IF f = "count" THEN st.count + 1 ELSE k]
    IN  IF st.open = 0
          THEN [f \in DOMAIN base \cup {"open"} |->
                    IF f = "open" THEN k ELSE base[f]]
          ELSE base

\* update_trade: last traded price and quantity, time, update_count++, and
\* opening_price when it is still 0.
TradeTarget(st, k) ==
    LET base == [f \in {"last", "count"} |->
                    IF f = "count" THEN st.count + 1 ELSE k]
    IN  IF st.open = 0
          THEN [f \in DOMAIN base \cup {"open"} |->
                    IF f = "open" THEN k ELSE base[f]]
          ELSE base

\* update_bid / update_ask: one side, time and update_count++.
SideTarget(side, st, k) ==
    [f \in {side, "count"} |-> IF f = "count" THEN st.count + 1 ELSE k]

\* Variant of begin_write that forgets to make the sequence odd.
BeginWriteNoSeq(s, tgt) ==
    /\ wpc = "idle"
    /\ nupd < MaxUpdates
    /\ s < NumSymbols
    /\ wpc' = "write"
    /\ wsym' = s
    /\ wpend' = DOMAIN tgt
    /\ wval' = [f \in Fields |-> IF f \in DOMAIN tgt THEN tgt[f] ELSE 0]
    /\ nupd' = nupd + 1
    /\ UNCHANGED <<seq, state, nreset, rpc, rsym, rseq1, snap, copied, window>>

\* begin_write: sequence becomes odd; then the stores of tgt are pending.
BeginWrite(s, tgt) ==
    /\ wpc = "idle"
    /\ nupd < MaxUpdates
    /\ s < NumSymbols
    /\ seq' = [seq EXCEPT ![s] = @ + 1]
    /\ wpc' = "write"
    /\ wsym' = s
    /\ wpend' = DOMAIN tgt
    /\ wval' = [f \in Fields |-> IF f \in DOMAIN tgt THEN tgt[f] ELSE 0]
    /\ nupd' = nupd + 1
    /\ UNCHANGED <<state, nreset, rpc, rsym, rseq1, snap, copied, window>>

UpdateQuote(s) == BeginWrite(s, QuoteTarget(state[s], nupd + 1))

UpdateTrade(s) == BeginWrite(s, TradeTarget(state[s], nupd + 1))

UpdateBid(s) == BeginWrite(s, SideTarget("bid", state[s], nupd + 1))

UpdateAsk(s) == BeginWrite(s, SideTarget("ask", state[s], nupd + 1))

\* One plain store of the update's payload.
StoreField ==
    /\ wpc = "write"
    /\ \E f \in wpend :
          /\ state' = [state EXCEPT ![wsym][f] = wval[f]]
          /\ wpend' = wpend \ {f}
    /\ UNCHANGED <<seq, wpc, wsym, wval, nupd, nreset,
                   rpc, rsym, rseq1, snap, copied, window>>

\* The state of entry s is committed: every reader inside an attempt on s
\* may from now on return it.
Commit(s, st) ==
    window' = [r \in Readers |->
                 IF rpc[r] \in {"copy", "check"} /\ rsym[r] = s
                   THEN window[r] \cup {st} ELSE window[r]]

\* Variant of end_write that stores seq + 2, leaving the sequence odd.
EndWriteByTwo ==
    /\ wpc = "write"
    /\ wpend = {}
    /\ seq' = [seq EXCEPT ![wsym] = @ + 2]
    /\ wpc' = "idle"
    /\ Commit(wsym, state[wsym])
    /\ UNCHANGED <<state, wsym, wpend, wval, nupd, nreset,
                   rpc, rsym, rseq1, snap, copied>>

\* end_write: sequence becomes even again.
EndWrite ==
    /\ wpc = "write"
    /\ wpend = {}
    /\ seq' = [seq EXCEPT ![wsym] = @ + 1]
    /\ wpc' = "idle"
    /\ Commit(wsym, state[wsym])
    /\ UNCHANGED <<state, wsym, wpend, wval, nupd, nreset,
                   rpc, rsym, rseq1, snap, copied>>

-----------------------------------------------------------------------------
(* reset(): for every entry, sequence := 0 and then state := MarketState{} *)
(* (a struct assignment, stored field by field).  It is called on the      *)
(* writer thread (Visualizer::reset_stats from the main loop).             *)

Quiescent == \A r \in Readers : rpc[r] = "idle"

Reset ==
    /\ wpc = "idle"
    /\ nreset < MaxResets
    /\ ResetQuiescent => Quiescent
    /\ wpc' = "rseq"
    /\ wsym' = 0
    /\ nreset' = nreset + 1
    /\ UNCHANGED <<seq, state, wpend, wval, nupd,
                   rpc, rsym, rseq1, snap, copied, window>>

ResetSeq ==
    /\ wpc = "rseq"
    /\ seq' = [seq EXCEPT ![wsym] = 0]
    /\ wpc' = "rfields"
    /\ wpend' = Fields
    /\ UNCHANGED <<state, wsym, wval, nupd, nreset,
                   rpc, rsym, rseq1, snap, copied, window>>

ResetField ==
    /\ wpc = "rfields"
    /\ \E f \in wpend :
          /\ state' = [state EXCEPT ![wsym][f] = 0]
          /\ wpend' = wpend \ {f}
    /\ UNCHANGED <<seq, wpc, wsym, wval, nupd, nreset,
                   rpc, rsym, rseq1, snap, copied, window>>

\* Variant of the reset loop with an off-by-one bound.
ResetNextPastEnd ==
    /\ wpc = "rfields"
    /\ wpend = {}
    /\ Commit(wsym, Zero)
    /\ IF wsym + 1 <= NumSymbols
         THEN wpc' = "rseq" /\ wsym' = wsym + 1
         ELSE wpc' = "idle" /\ UNCHANGED wsym
    /\ UNCHANGED <<seq, state, wpend, wval, nupd, nreset,
                   rpc, rsym, rseq1, snap, copied>>

\* The entry is cleared; move to the next one or leave reset().
ResetNext ==
    /\ wpc = "rfields"
    /\ wpend = {}
    /\ Commit(wsym, Zero)
    /\ IF wsym + 1 < NumSymbols
         THEN wpc' = "rseq" /\ wsym' = wsym + 1
         ELSE wpc' = "idle" /\ UNCHANGED wsym
    /\ UNCHANGED <<seq, state, wpend, wval, nupd, nreset,
                   rpc, rsym, rseq1, snap, copied>>

-----------------------------------------------------------------------------
(* get_snapshot(symbol_id), run by reader r.                               *)

\* Entry to get_snapshot; an id out of range returns MarketState{}.
GetSnapshot(r, s) ==
    /\ rpc[r] = "idle"
    /\ ResetQuiescent => wpc \notin {"rseq", "rfields"}
    /\ rsym' = [rsym EXCEPT ![r] = s]
    /\ IF s < NumSymbols
         THEN rpc' = [rpc EXCEPT ![r] = "load1"] /\ UNCHANGED snap
         ELSE rpc' = [rpc EXCEPT ![r] = "done"] /\ snap' = [snap EXCEPT ![r] = Zero]
    /\ UNCHANGED <<seq, state, wpc, wsym, wpend, wval, nupd, nreset,
                   rseq1, copied, window>>

\* seq1 = sequence.load(acquire), repeated while it is odd.
LoadSeq1(r) ==
    /\ rpc[r] = "load1"
    /\ rseq1' = [rseq1 EXCEPT ![r] = seq[rsym[r]]]
    /\ IF Odd(seq[rsym[r]])
         THEN UNCHANGED <<rpc, window>>
         ELSE /\ rpc' = [rpc EXCEPT ![r] = "copy"]
              /\ window' = [window EXCEPT ![r] = {state[rsym[r]]}]
    /\ copied' = [copied EXCEPT ![r] = {}]
    /\ UNCHANGED <<seq, state, wpc, wsym, wpend, wval, nupd, nreset,
                   rsym, snap>>

\* One field of snapshot = entry.state.
CopyField(r) ==
    /\ rpc[r] = "copy"
    /\ \E f \in Fields \ copied[r] :
          /\ snap' = [snap EXCEPT ![r][f] = state[rsym[r]][f]]
          /\ copied' = [copied EXCEPT ![r] = @ \cup {f}]
    /\ IF copied'[r] = Fields
         THEN rpc' = [rpc EXCEPT ![r] = "check"]
         ELSE UNCHANGED rpc
    /\ UNCHANGED <<seq, state, wpc, wsym, wpend, wval, nupd, nreset,
                   rsym, rseq1, window>>

\* Variant of the loop exit that never compares seq2 with seq1.
LoadSeq2NoRecheck(r) ==
    /\ rpc[r] = "check"
    /\ rpc' = [rpc EXCEPT ![r] = "done"]
    /\ UNCHANGED <<seq, state, wpc, wsym, wpend, wval, nupd, nreset,
                   rsym, rseq1, snap, copied, window>>

\* seq2 = sequence.load(acquire); retry while seq1 != seq2.
LoadSeq2(r) ==
    /\ rpc[r] = "check"
    /\ rpc' = [rpc EXCEPT ![r] = IF seq[rsym[r]] = rseq1[r] THEN "done" ELSE "load1"]
    /\ UNCHANGED <<seq, state, wpc, wsym, wpend, wval, nupd, nreset,
                   rsym, rseq1, snap, copied, window>>

\* The caller takes the returned snapshot; the locals of get_snapshot die.
ReturnSnapshot(r) ==
    /\ rpc[r] = "done"
    /\ rpc' = [rpc EXCEPT ![r] = "idle"]
    /\ rsym' = [rsym EXCEPT ![r] = 0]
    /\ rseq1' = [rseq1 EXCEPT ![r] = 0]
    /\ snap' = [snap EXCEPT ![r] = Zero]
    /\ copied' = [copied EXCEPT ![r] = {}]
    /\ window' = [window EXCEPT ![r] = {}]
    /\ UNCHANGED <<seq, state, wpc, wsym, wpend, wval, nupd, nreset>>

-----------------------------------------------------------------------------
Init ==
    /\ seq = [s \in Symbols |-> 0]
    /\ state = [s \in Symbols |-> Zero]
    /\ wpc = "idle"
    /\ wsym = 0
    /\ wpend = {}
    /\ wval = Zero
    /\ nupd = 0
    /\ nreset = 0
    /\ rpc = [r \in Readers |-> "idle"]
    /\ rsym = [r \in Readers |-> 0]
    /\ rseq1 = [r \in Readers |-> 0]
    /\ snap = [r \in Readers |-> Zero]
    /\ copied = [r \in Readers |-> {}]
    /\ window = [r \in Readers |-> {}]

Writer ==
    \/ \E s \in SymbolIds :
          UpdateQuote(s) \/ UpdateTrade(s) \/ UpdateBid(s) \/ UpdateAsk(s)
    \/ StoreField
    \/ EndWrite
    \/ Reset
    \/ ResetSeq
    \/ ResetField
    \/ ResetNext

Reader(r) ==
    \/ \E s \in SymbolIds : GetSnapshot(r, s)
    \/ LoadSeq1(r)
    \/ CopyField(r)
    \/ LoadSeq2(r)
    \/ ReturnSnapshot(r)

Next == Writer \/ \E r \in Readers : Reader(r)

(* Every thread runs its non-blocking steps to completion once it has      *)
(* started an operation: the writer finishes an update or a reset it has   *)
(* begun, a reader keeps executing its loop.  Nothing forces new updates.  *)
Fairness ==
    /\ WF_vars(StoreField) /\ WF_vars(EndWrite)
    /\ WF_vars(ResetSeq) /\ WF_vars(ResetField) /\ WF_vars(ResetNext)
    /\ \A r \in Readers :
          WF_vars(LoadSeq1(r) \/ CopyField(r) \/ LoadSeq2(r))

Spec == Init /\ [][Next]_vars /\ Fairness

-----------------------------------------------------------------------------
TypeOK ==
    /\ seq \in [Symbols -> Nat]
    /\ state \in [Symbols -> [Fields -> Nat]]
    /\ wpc \in {"idle", "write", "rseq", "rfields"}
    /\ wsym \in Symbols
    /\ wpend \in SUBSET Fields
    /\ wval \in [Fields -> Nat]
    /\ nupd \in Nat
    /\ nreset \in Nat
    /\ rpc \in [Readers -> {"idle", "load1", "copy", "check", "done"}]
    /\ rsym \in [Readers -> SymbolIds]
    /\ rseq1 \in [Readers -> Nat]
    /\ snap \in [Readers -> [Fields -> Nat]]
    /\ copied \in [Readers -> SUBSET Fields]
    /\ window \in [Readers -> SUBSET [Fields -> Nat]]

\* A reader inside the loop of get_snapshot reads a valid entry.
ReaderOnEntry ==
    \A r \in Readers : rpc[r] \in {"load1", "copy", "check"} => rsym[r] \in Symbols

\* The type invariant and the fact that makes it inductive.
TypeInv == TypeOK /\ ReaderOnEntry

(* Seqlock safety (spec section 4.3, the test_concurrent_read test): a    *)
(* snapshot returned by get_snapshot is an entry state the writer          *)
(* committed at some instant during the reader's final attempt, never a    *)
(* mixture of the fields of two updates or of an update and a reset.       *)
SnapshotConsistent ==
    \A r \in Readers :
        rpc[r] = "done" =>
            IF rsym[r] < NumSymbols THEN snap[r] \in window[r]
                                    ELSE snap[r] = Zero

(* Readers never block: every get_snapshot that has started returns, as   *)
(* long as the writer finishes each update it began.                       *)
SnapshotReturns ==
    \A r \in Readers : rpc[r] = "load1" ~> rpc[r] = "done"

-----------------------------------------------------------------------------
(* The inductive strengthening of SnapshotConsistent, used by the proof in *)
(* SymbolCacheProofs and checked by TLC on the runs that assume quiescent  *)
(* resets.                                                                 *)

\* The sequence of an entry is odd exactly while the writer is inside an
\* update of that entry.
OddIffWriting ==
    \A s \in Symbols : Odd(seq[s]) <=> (wpc = "write" /\ wsym = s)

\* reset() runs with every reader outside get_snapshot.
ResetAlone ==
    wpc \in {"rseq", "rfields"} => \A r \in Readers : rpc[r] = "idle"

\* A reader's attempt started from an even sequence no later than the
\* current one; while no update has begun since, the fields it copied are
\* those of the entry and the entry's state is one it may return.
AttemptSound(r) ==
    rpc[r] \in {"copy", "check"} =>
        /\ rsym[r] \in Symbols
        /\ ~Odd(rseq1[r])
        /\ rseq1[r] <= seq[rsym[r]]
        /\ rpc[r] = "check" => copied[r] = Fields
        /\ seq[rsym[r]] = rseq1[r] =>
              /\ state[rsym[r]] \in window[r]
              /\ \A f \in copied[r] : snap[r][f] = state[rsym[r]][f]

SeqlockInv ==
    /\ TypeInv
    /\ OddIffWriting
    /\ ResetAlone
    /\ \A r \in Readers : AttemptSound(r)
    /\ SnapshotConsistent

=============================================================================

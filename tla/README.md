# Formal models of the qode market-data feed

TLA+ models of the market-data publisher (`src/unnamed/part_005`, `part_006`,
`src/src/server/*`) and the consumer (`src/src/client/parser.cpp`,
`src/unnamed/part_003`, `src/src/common/cache.cpp`), with TLC runs on small
instances and TLAPS proofs for every value of the constants.

## The system

| part | source | role |
|------|--------|------|
| ExchangeSimulator | `src/unnamed/part_005` | epoll reactor: accepts clients, reads subscriptions, ticks, heartbeats, disconnects |
| ClientManager | `src/unnamed/part_006` | per-client subscription sets, broadcast, slow-consumer detection on send |
| TickGenerator | `src/src/server/tick_generator.cpp` | GBM prices, sequence numbers, encoded frames |
| MarketDataSocket | `src/src/client/parser.cpp` 200-552 | non-blocking connect, receive, epoll wait, reconnect with backoff |
| MessageParser | `src/src/client/parser.cpp` 1-197 | stream reassembly, validation, checksum, sequence-gap detection |
| FeedHandler | `src/unnamed/part_003` | client main loop: input, wait, receive, parse, reconnect |
| SymbolCache | `src/src/common/cache.cpp`, `src/unnamed/part_007` | per-symbol seqlock: one writer, many readers |
| LatencyTracker | `src/src/common/cache.cpp` 181-306 | lock-free histogram and percentiles |
| MemoryPool | `src/src/common/memory_pool.cpp`, `src/unnamed/part_012` | lock-free free list (not used by the programs) |
| Visualizer, mains | `src/src/client/visualizer.cpp`, `src/src/server/main.cpp`, `src/unnamed/part_009` | terminal rendering and argument parsing |

The publisher is single-threaded: one epoll loop accepts, reads
subscriptions, generates ticks and broadcasts them with non-blocking sends.
The consumer is single-threaded too: `FeedHandler::run` polls the keyboard
(which may call `SymbolCache::reset`), waits for data, drains the socket into
the parser, whose callbacks update the cache, and renders. The cache's seqlock
is built for a writer and concurrent readers (`test_concurrent_read` in
`src/tests/test_cache.cpp` runs one); the model covers that general use.

## Modules

### SymbolCache (`SymbolCache.tla`, `MCSymbolCache.tla`)

State: `seq[s]` is `entries_[s].sequence`, `state[s]` is the `MarketState`
payload with its fields grouped as the update functions store them (bid side,
ask side, last trade, update count with time, opening price). Update number
`k` writes the label `k` into the fields it touches, so a mixed snapshot is
visible; `update_count` keeps its real value.

Writer actions: `UpdateQuote`, `UpdateTrade`, `UpdateBid`, `UpdateAsk` are
`begin_write` (the sequence becomes odd) with the field stores the function
makes; `StoreField` performs one plain store, in any order, because the
stores are not atomic and the compiler may reorder them between the fences;
`EndWrite` makes the sequence even. `reset()` is `Reset`, then per entry
`ResetSeq` (sequence := 0), `ResetField` (one field of `MarketState{}`) and
`ResetNext`. Reader actions follow `get_snapshot`: `GetSnapshot` (an id out of
range returns `MarketState{}`), `LoadSeq1` (spins while odd), `CopyField` (one
field of the plain struct copy), `LoadSeq2` (retry unless seq2 = seq1),
`ReturnSnapshot`. The history variable `window[r]` holds the states committed
to the reader's entry during its current attempt.

Constants: `Readers`, `NumSymbols`, `MaxUpdates`, `MaxResets` (bounds on the
writer), `ResetQuiescent` (whether `reset()` waits until no reader is inside
`get_snapshot`, the contract spec section 4.3 states and the code does not
enforce).

Fairness: weak fairness on the writer's steps inside an update or a reset
(the writer thread never blocks there) and on each reader's loop steps. No
fairness on starting updates or resets: the writer is driven by the network.

### MessageParser (`MessageParser.tla`, `MCMessageParser.tla`)

The consumer's byte stream and the parser that reassembles it. A stream byte
is a record `[fr, off]`: byte `off` of frame `fr`. `Transmit` is one tick of
`generate_and_broadcast_tick` reaching the client: the frame gets the
sequence number `GenerateTick` or `GenerateHeartbeat` gives it (the
generator's `++sequence_`; payloads and checksums are abstracted away), or
skips one when fault injection generates a tick and drops it (part_005
292-297), and
only its first `n` bytes are appended when `send_to_client` performs a partial
send (part_006 146-150), after which the rest is never written. The parser's
state is `buf` (the bytes of `buffer_`, index = offset), `rpos`, `wpos`, `cap`,
`expected`, `first` and the counters. `Receive(n)` is one `recv` of `n` bytes
handed to `append_data` (compaction, growth by doubling up to the cap, drop of
the whole ingest) followed by `parse_messages`, which the model runs as the
steps `ParseNeedHeader`, `ParseInvalid`, `ParseNeedMore`, `ParseBadChecksum`
and `ParseFrame` (the branches of `parse_one`, in the code's order; `ParseFrame`
includes `check_sequence` and the callback). The kind read at the first byte
of a whole frame is the frame's kind; read anywhere else it is an arbitrary
byte, chosen once per position and remembered in `alias`, so each position
reads the same value whenever it is parsed. The CRC32 passes exactly when the
`L` bytes at `rpos` are one whole frame of length `L` (collisions are not
modelled).

Sizes are scaled to keep the state space small while keeping their order:
header 1 < heartbeat 2 < trade 3 < quote 4 = recv chunk = initial buffer,
maximum buffer 4 times the initial one, as 16 MiB is 4 times 4 MiB. The
sequence number wraps modulo `SeqMod` = 4 in place of 2^32.

Fairness: weak fairness on the parse steps, which run in a loop on the
client's thread without blocking. None on `Transmit` or `Receive`: they depend
on the network.

### Publisher (`Publisher.tla`, `MCPublisher.tla`)

The publisher's loop (`ExchangeSimulator::run`) and its subscriber table
(`ClientManager`). The loop is one thread, so every handler is one step:
`Accept` (`handle_new_connection`, through the helper `AddClient` for
`add_client`: subscribed to all, not slow), `Subscribe` (`process_subscription`
through `HandleSubscription`; a frame cut short by the read is dropped and
changes nothing), `Disconnect` (`handle_client_disconnect`, through
`RemoveClient`), `Tick` (`generate_and_broadcast_tick`:
`broadcast` to the clients that are not slow and subscribe to the symbol)
and `Heartbeat` (`send_heartbeat`: every client, slow ones included). The
other actors are the peers (`PeerClose`: a hang-up the reactor has yet to
handle) and the kernel (`Transmit`: queued bytes leave the send queue).

`send_to_client` is `SendResult`: `q[c]` is the kernel send-queue depth that
`ioctl(TIOCOUTQ)` reports and `sndbuf[c]` the buffer the kernel granted at
accept. Above `SlowHigh` the client is marked slow and nothing is sent; then
nothing fits (EAGAIN), a prefix fits (partial send: the stream ends in a torn
frame whose rest is never written) or all of it fits, after which the flag is
cleared if the depth measured before the send was below `SlowHigh / 2`. A
send to a peer that has hung up may fail with another error and change
nothing. `tail[c]` records whether the stream written so far ends in a whole
or a torn frame; message contents are MessageParser's business.

Fairness: weak fairness on `Heartbeat` (the loop never blocks and sends one
every second) and on `Disconnect` (the reactor handles every reported
hang-up). None on the peers or the kernel.

### Consumer (`Consumer.tla`, `MCConsumer.tla`)

The client's connection handling: `FeedHandler::run` and `process_data`
(`src/unnamed/part_003`) over `MarketDataSocket` (`parser.cpp` 277-550). The
loop is one thread and `pc` names its step: `Start` (`start`: `connect`
resets the retry count and the backoff, then `do_connect`; on failure `run`
returns), `Input` (`process_input`: 'q' calls `stop`), `Wait`
(`wait_for_data`: -1 when not connected or on an error edge, 1 on another
edge, 0 on timeout), `Process` (one `receive` of `process_data`'s loop:
some queued bytes, then 0 on a closed connection, an error on a reset one,
EAGAIN on an open one) and `Reconnect` (the error branch: stop without
auto-reconnect; `reconnect` refuses at the retry limit; otherwise
`ReconnectAttempt`: double the backoff, count the attempt, `do_connect`,
reset the backoff on success; after a failure at the limit `run` stops). The
server and the kernel are `Arrive` (bytes queued, an edge raised), `PeerFin`,
`PeerRst` and `ServerToggle`. The bytes are MessageParser's business: `rx`
only counts them. `streak` (failed attempts since the last success) and
`stopReason` are history variables for the properties.

Fairness: weak fairness on the loop's steps, which never block for long
(epoll and connect time out, the backoff sleep ends). None on the server.

### LatencyTracker (`LatencyTracker.tla`, `MCLatencyTracker.tla`)

The client's latency histogram (`cache.cpp` 181-280). `record()` is a run
of relaxed atomic operations, and each is a step of its own for every
recording thread: `Begin` (count), `AddSum` (sum, then the load of min),
`RecordMin` and `RecordMax` (one turn of the CAS loop each: exit, success,
or failure reloading the expected value), `RecordBucket` (histogram bucket
or overflow) and `RecordRing`. `Reset` is `reset()`. `Percentile` and
`Stats` translate `percentile_from_histogram` and `get_stats`, with the
percentile in thousandths and the truncating cast kept. In the program,
`record`, `get_stats` and `reset` all run on the feed handler's thread
(`on_trade`/`on_quote` and the Visualizer's 'r' key). Several recorders are
the library's own concurrency test. Stats are therefore read, and `reset`
taken, only when no `record()` is in flight (`Quiescent`). `rec`, the bag
of samples whose `record()` returned, is a history variable that the
reference definitions read. Fairness: weak fairness on each recorder's
steps inside `record()`; threads are scheduled.

### MemoryPool (`MemoryPool.tla`, `MCMemoryPool.tla`, `BlockPool.tla`, `MemoryPoolProofs.tla`)

The lock-free block pool (`memory_pool.cpp`), a Treiber stack on the
single atomic pointer `free_list_`:

* `allocate()` is `StartAlloc` (load the head), `AllocReadNext` (read
  `node->next`, or return nullptr on an empty list), `AllocCas` (success or
  reload) and `AllocCount`.
* `deallocate()` is `StartFree` (a null or foreign pointer returns at once),
  `FreeLink` (store the link), `FreeCas` and `FreeCount`.
* `Handoff` is a `PoolBuffer` moved to another thread.
* `Init` is the list that the constructor's `reset()` builds.

`held` is a history variable: the blocks each thread holds. The constant
`Allocators` names the threads that call `allocate()`; any thread may free.
Nothing else in the program uses the pool. The user data that a holder
writes over a block's first bytes (the stored `next`, part_012 43-45) is
not modelled. With one allocator this changes nothing: the only `next` that
`allocate()` loads is the free head's, and no caller holds the free head.
With several allocators, a stale `allocate()` can load the `next` of a block
that another thread holds and has written over. There the model says nothing
about the loaded value. It already fails `NoDoubleAllocation`, and the data
would only make that ABA worse. There is no fairness: the properties
are safety properties.

`BlockPool.tla` is the abstract specification of what the pool promises
(spec section 4.8), with every call one atomic step: `Allocate` takes a free
block, `Deallocate` returns a held one, and `Handoff` moves a held block to
another thread. `MemoryPool` maps onto it with `free <- FreeList` (the blocks
on the list starting from the head) and `held <- AbsHeld`. `AbsHeld` counts
a block that is being freed (at `f_link` or `f_cas`) as still held by its
caller. So `allocate()` takes effect at its successful `AllocCas`, and
`deallocate()` at its successful `FreeCas`. Every other step is a stutter.

## Runs

| run | cfg | result | what it shows |
|-----|-----|--------|---------------|
| `symbol_cache` | `MCSymbolCache.cfg` | pass | 2 entries, 1 reader, 2 updates, 1 quiescent reset: `TypeInv`, `SnapshotConsistent`, `SeqlockInv`, `SnapshotReturns` |
| `cache_reset_race` | `MCSymbolCacheResetRace.cfg` | violation of `SnapshotConsistent` | `reset()` overlapping a reader returns a torn snapshot |
| `consumer` | `MCConsumer.cfg` | pass | auto-reconnect on and off, the code's constants (5 attempts, 100 ms doubling to 30 s), 2 queued bytes: `TypeOK`, `NoStrandedData`, `BackoffTracksFailures`, `LossNoticed` |
| `consumer_exhausted` | `MCConsumerExhausted.cfg` | violation of `ExhaustedOnlyAfterFailures` | the client gives up after fewer than 5 consecutive failures |
| `parser` | `MCMessageParser.cfg` | pass | 3 frames, one truncated, one skipped sequence number, chunks of 0-4 bytes: `TypeOK`, `BufferHoldsStream`, `ResidueBound`, `DeliveredExact`, `GapsCountLosses`, `IngestKept`, `DrainTerminates` |
| `publisher` | `MCPublisher.cfg` | pass | 2 connections, 2 symbols, kernel buffers of 6 and 12 with threshold 6: `TypeOK`, `TornTailIsSlow`, `SlowRecovers` |
| `publisher_slow_clear` | `MCPublisherSlowClear.cfg` | violation of `SlowClearedBelowLow` | the slow flag is cleared with the queue at or above SlowLow |
| `latency` | `MCLatencyTracker.cfg` | pass | 2 recorders, samples 1, 5 and 8 against 2 buckets of width 4, 3 records: `TypeOK`, `QuiescentTalliesExact`, `QuiescentExtremaExact`, `PercentilesOrdered`, `ExtremaMonotone`, `RecordCompletes` |
| `latency_rank` | `MCLatencyTrackerRank.cfg` | violation of `PercentileRankAsSpecified` | the rank is truncated, not rounded up |
| `memory_pool` | `MCMemoryPool.cfg` | pass | 2 blocks, 2 threads, one of which allocates, 6 calls: `TypeOK`, `NoDoubleAllocation`, `QuiescentAccounting` |
| `memory_pool_aba` | `MCMemoryPoolABA.cfg` | violation of `NoDoubleAllocation` | two allocating threads: ABA hands a block out twice |
| `parser_stall` | `MCMessageParserStall.cfg` | violation of `NoStall` | a truncated frame holds a whole frame behind it until more data arrives |

Bounds. One reader suffices: readers only load, so two readers cannot affect
one another and each sees every interleaving one reader sees. Two updates
let an update overlap an attempt that started after another; two entries let
the writer work on an entry the reader does not read; one reset covers the
reset path. The out-of-range id `NumSymbols` is among the ids tried.

`cache_reset_race` finds: the reader loads seq1 = 0, the writer completes an
update (sequence 2), `reset()` stores sequence 0 and clears only some fields
before the reader copies, the reader's seq2 = 0 matches seq1, and it returns
bid/ask of the update with the reset's zeroes elsewhere. In the client
program `reset()` is called from the same thread that renders, so the race
does not happen there; it happens to any user of the documented multi-reader
interface.

`parser` checks that the buffer always holds exactly the received bytes
between `rpos` and `wpos` (`BufferHoldsStream`), that what waits is less
than one quote or one announced length (`ResidueBound`), that the frames
delivered are exactly the whole frames received, in order (`DeliveredExact`),
that the gap counter equals the number of sequence numbers lost before the
last delivered frame, including across the wrap (`GapsCountLosses`), that
`append_data` never drops an ingest: every byte a `recv` returns is stored
(`IngestKept`, an action property; the 16 MiB cap is never the limit because
the residue is below one quote and one doubling always makes room), and that
`parse_messages` returns (`DrainTerminates`). Three frames let a truncated
frame sit between two whole ones; the chunk sizes 0-4 split frames at every
offset. `CHECK_DEADLOCK FALSE`: the stream is bounded by `MaxFrames`, after
which the client only waits for data, which is the program's idle state.

`parser_stall` finds: a trade truncated after 1 byte, then a whole heartbeat;
the kind field read at the truncated frame's start (its remaining header
bytes come from the heartbeat) says QUOTE, whose length exceeds what is
buffered, so `parse_one` returns `NEED_MORE_DATA` (parser.cpp:90) with the
heartbeat waiting. Spec section 4.2 says the resync never stalls; its own
step 4 does the same as the code. The heartbeat is delivered only when
later bytes arrive.

`publisher` checks that a torn frame ends a client's stream only while the
client is slow (`TornTailIsSlow`), so no tick is written after a fragment
until a whole heartbeat has followed it, and that a slow client whose queue
empties again and again is eventually not slow (`SlowRecovers`): broadcast
skips slow clients, so the heartbeat is the only way back. Sizes are scaled
as for the parser (heartbeat 2, trade 3, quote 4) against a threshold of 6;
the kernel grants a buffer of 6 (the usual system cap on `SO_SNDBUF` is below
the 1 MiB threshold, so EAGAIN and partial sends happen before the threshold
check fires) or of 12 (the requested 4 MiB, so the threshold check fires
first). Two connections cover a slow client beside a fast one and the reuse
of a handle after a disconnect.

`publisher_slow_clear` finds: a quote partially sent to a client with a
buffer of 6 marks it slow, the kernel transmits until 2 bytes are queued,
the heartbeat sees pending 2 < 3, sends 2 bytes and clears the flag with 4
bytes queued, at or above SlowLow = 3. Spec section 4.4 requires the depth
after the send to be below SlowLow; the code tests the depth before it
(part_006:153).

`consumer` checks that whenever the loop is about to wait, every byte or
hang-up on the live connection is still signalled by an edge
(`NoStrandedData`: `process_data` reads until EAGAIN, as an edge-triggered
socket requires), that the backoff is 100 ms doubled once per failed attempt
since the last success (`BackoffTracksFailures`), and that a closed or reset
connection leads to a new connection or to the end of `run`
(`LossNoticed`). `config_.auto_reconnect` is read once when the handler starts, so the model
chooses it in `Init` (`autoReconnect`) and keeps it fixed. The run covers
both values, and so also the `--no-reconnect` branch. The constants are the code's own: the retry counter's limit is the
point, and the state space is small.

`consumer_exhausted` finds: an outage healed at the fourth attempt, then a
reset, and the handler stops after one failed attempt, because
`reconnect_count_` is reset only by `connect()` (parser.cpp:282), never by a
successful `reconnect()` (parser.cpp:542-546). After five outages each healed
at once, the sixth stops the handler without an attempt. Spec section 5
resets the backoff on success and allows 5 attempts before a terminal
failure.

`latency` checks that once no `record()` is in flight, the count, the sum,
every bucket and the overflow counter equal those of the samples recorded
since the last reset (`QuiescentTalliesExact`), and min and max are their
least and greatest (`QuiescentExtremaExact`). The CAS loops are what make
the latter hold for concurrent recorders; between resets they also only
lower min and raise max (`ExtremaMonotone`, an action property). It also checks that p50 <= p95 <= p99 <= p999
(`PercentilesOrdered`) and that every `record()` returns (`RecordCompletes`).
The sizes are scaled: samples 1 and 5 lie in the lower halves of buckets 0
and 1 and 8 is in overflow. Three records give totals at which the
truncated ranks of the four percentiles differ. For totals under 20,
(p / 100.0) * total as a double is never within rounding of an integer it
does not equal, so the integer floor of the model is exact. Two recorders
let a CAS fail.

`latency_rank` finds: one sample of 5 reports p50 = 2, the midpoint of the
empty bucket 0, because the target (0.5 * 1 truncated) is 0 (cache.cpp:249).
Spec section 4.7 takes ceiling(p * total), which gives bucket 1 (6). At full
scale, a single 800 us sample reports a p50 of 500 ns.

Spec test 6 (p50 <= ... <= p999 <= max) is not a property here, because it
contradicts the spec's own midpoint rule with either rank. A single 100 ns
sample reports p999 = 500 ns and max = 100 ns: the midpoint of a bucket lies
above every sample in the lower half of that bucket. The hazard is listed in
`PROJECT.json`.

`memory_pool` checks that no block is held by two threads or held while it
is on the free list (`NoDoubleAllocation`). It also checks that, with no
call in flight, the free list is acyclic, that it and the held blocks
together are all the blocks, and that `allocated_count_` is the number
held (`QuiescentAccounting`). One allocating thread is the discipline that
spec section 4.8 offers as the alternative to a tagged pointer. Handoffs
let the other thread free blocks, so pushes race with pops. Two blocks and
6 calls are enough for a pop, a push and a pop to overtake one allocation.

The same run checks `PoolRefinement`, which is `Abstract!Spec` under that
mapping. Every behaviour of the lock-free pool is then a behaviour of the
atomic pool, and that holds on a single allocating thread. In the
`memory_pool_aba` configuration the refinement fails together with
`NoDoubleAllocation`.

`memory_pool_aba` finds: t2 loads head b2. t1 pops b2 and then b1. t2
reads the next field of b2, which is stale (b1). t1 pushes b2 back. t2's CAS
then succeeds on b2 and installs b1 as the head while t1 holds b1. The
header comment (part_012:54) claims a tagged pointer for ABA prevention and
spec section 4.8 selects one, but `free_list_` is a plain pointer.

## Proofs (`SymbolCacheProofs.tla`)

* `TypeCorrect`: `Spec => []TypeInv`. `TypeOK` alone is not inductive: the
  reader's symbol must be a valid entry while it is inside the loop
  (`ReaderOnEntry`), which `TypeInv` adds.
* `SeqlockInvariant`: under `ResetQuiescent`, `Spec => []SeqlockInv`.
  `SeqlockInv` strengthens `SnapshotConsistent` with: the sequence of an entry
  is odd exactly while the writer is inside an update of it
  (`OddIffWriting`); a reset runs with every reader idle (`ResetAlone`); and
  for a reader inside an attempt, seq1 is even and no larger than the current
  sequence, and while they are equal the entry's state is in the window and
  every copied field equals the entry's field (`AttemptSound`). The argument:
  `begin_write` makes seq larger than every seq1 so the implication becomes
  vacuous; a store touches only the entry whose sequence is odd, which no
  reader's even seq1 matches; `end_write` leaves the sequence above every
  seq1 that overlapped; `LoadSeq1` starts an attempt with the current state
  as its window; `LoadSeq2` with seq2 = seq1 has all fields equal to the
  entry's, so the copy is the entry's state, which is in the window.
  One lemma per action.
* `SnapshotSafety`: under `ResetQuiescent`, `Spec => []SnapshotConsistent`.

## Proofs (`PublisherProofs.tla`)

* `TypeCorrect`: `Spec => []TypeOK`. `TypeCorrect` and `TornTailSafety`
  are both corollaries of the inductive invariant
  `PubInv == TypeOK /\ TornTailIsSlow`. `TypeOK` alone is not inductive.
  Its bound `q[c] <= sndbuf[c]` is kept by a partial send only because the
  send fills the queue exactly, and a full send adds the frame only when it
  fits. `SendResultSound` proves this for each branch of
  `send_to_client`'s if-chain, in the code's order: threshold or full
  buffer, then partial, then whole. `SendAllSound` lifts it to a broadcast
  or a heartbeat over every handle. The assumption `SizesAssumption` adds
  that the set of granted buffer sizes has a largest element, the 4 MiB the
  code asks for (`MaxSndBuf`).
* `TornTailSafety`: `Spec => []TornTailIsSlow`. The partial-send branch sets
  `slow`, and the only step that clears it is a whole send, which also makes
  the tail whole again.

## Proofs (`ParserProofs.tla`)

* `TypeCorrect`: `Spec => []TypeOK`.
* `BufferSafety`: `Spec => []BufferHoldsStream`.
* `ResidueBounded`: `Spec => []ResidueBound`.
* `IngestKeptHolds`: `Spec => IngestKept`.

All four rest on `IInv == TypeOK /\ StreamFramed /\ BufferBounds /\
BufferHoldsStream /\ ResidueBound`. TLC checked `IInv` as an invariant of
the `parser` run before it was proved. `StreamFramed` says every stream
byte belongs to a frame that was written. `BufferBounds` keeps the capacity
at least the initial one and `recvd` within the stream. `BufferHoldsStream`
alone is not inductive, because `append_data` may drop an ingest at the
16 MiB cap, which would break it. `ResidueBound` is what rules the drop out.
Between calls fewer than one quote's bytes wait in the buffer. After
compaction a short buffer therefore holds only the residue, and one
doubling (or the cap, four times the initial size as 16 MiB is four
times 4 MiB) leaves
room for the new bytes. `ReceiveIInv` proves this step and also that the
buffer grows by exactly the bytes received, which is `IngestKept`. The
parse steps consume a prefix of the buffer: `DropRun` and `AppendRun` are
the lemmas on runs of stream bytes that these steps and `Receive` need.
`ModSucc` is the lemma on the wrap of the sequence number. There is one
lemma per action.

## Proofs (`LatencyProofs.tla`)

* `TypeCorrect`: `Spec => []TypeOK`. The bucket index is in range because
  a tracked sample is below `NumBuckets * Width`.
* `ExtremaExact`: `Spec => []QuiescentExtremaExact`.
* `ExtremaMonotoneHolds`: `Spec => ExtremaMonotone`.

`QuiescentExtremaExact` is not inductive, because it says nothing while a
`record()` is in flight. `ExtInv` strengthens it (TLC checked it on the
`latency` instance first):

* min_ is at most every recorded sample and every sample past the min loop.
* A recorder's expected value `current_min` is never below min_, because
  min_ only falls between resets.
* min_ is UINT64_MAX, or a recorded sample, or the sample of a recorder
  past the min loop.
* The same facts hold for max_, mirrored.

A failed CAS reloads the expected value. A successful CAS stores a sample
below the expected value, which is then min_ itself. Leaving the loop
needs latency_ns >= current_min >= min_. When no recorder is in flight,
the witness is a recorded sample, so min_ is the least sample
(`FiniteSetsExt`'s `Min`). The theorem assumes any number of recorders
and samples, and only that samples are positive and below UINT64_MAX
(`ConstantsAssumption`).

## Proofs (`ConsumerProofs.tla`)

* `TypeCorrect`: `Spec => []TypeOK`.
* `NoStrandedDataHolds`: `Spec => []NoStrandedData`.

Both rest on `IInv == TypeNum /\ TypeBool /\ Signalled`. `TypeNum` holds
the counters' ranges and two extra facts: `streak <= count`, and no streak
before `start`. `TypeBool` holds the control and socket flags. `Signalled`
strengthens `NoStrandedData` to the states where the loop is about to read
input or wait: while connected with unread bytes or a hang-up, an edge is
pending. `Process` consumes the edge only on EAGAIN, so the step that
reaches `wait` with the queue empty and the peer open keeps `Signalled`
true. `Arrive`, `PeerFin` and `PeerRst` raise an edge with the event. The
reconnect branch is split on auto-reconnect and on the retry limit. There is
one lemma per action.

## Proofs (`MemoryPoolProofs.tla`)

* `TypeCorrect`: `Spec => []TypeOK` under the hypothesis
  `Cardinality(Allocators) <= 1`, for any finite arena `Blocks` and any
  finite set of `Threads` that free blocks and pass them on. This is the
  setting of the `memory_pool` run.
  * One allocator is the case where the model's `next` is the code's. The
    only `next` that `allocate()` loads is the free head's, and a holder
    never writes over that block.
  * With several allocators, a stale load can read a holder's data, which
    the model does not represent. The theorem therefore makes no claim
    there.
  * The invariant below holds in every behaviour of the model, whatever the
    set of allocators (lemma `ModelIInv`). It is the hypothesis that scopes
    the claim to what the code does.
  * `TypeOK` covers `allocated_count_`, a `size_t` that stays a natural
    number. `allocate()` returns only after its `fetch_add`, so this is the
    accounting that `CountCovers` states, not a race.

`TypeOK` is not inductive. The proof rests on
`IInv == TypeOK /\ NodeInArena /\ CountCovers`:

* `NodeInArena`: a thread between its pop CAS and its `fetch_add`, or
  anywhere in a push, has a block of the arena in `node`. This makes
  `FreeLink`'s update of `next` and the successful CAS's `head' = node[t]`
  stay well typed.
* `CountCovers`: `count >= |HeldPairs \ Claimed| + |Freeing|`. Here
  `HeldPairs` is the set of (thread, block) holdings. `Claimed` is the
  holding of each thread that has popped but not yet counted. `Freeing` is
  the set of threads inside a push. Every pending decrement is thus paid
  for by an earlier increment.
  * It is an inequality, not an equation. Under ABA a block can be popped
    twice, and the holdings are a set, so the count can exceed them.
  * A successful pop adds a holding that is still claimed. `AllocCount`
    turns the claim into a counted holding together with `count + 1`.
  * `StartFree` trades a holding for a pending decrement.
  * `Handoff` swaps one holding for another, which the lemma `CardSwap`
    bounds.

`Init` needs `Cardinality(Blocks)` and an injective `order` from
`1..Cardinality(Blocks)` onto `Blocks`. It is onto by `FS_Injection`, so
every `next` link is a block or null. For the cardinality facts,
`ConstantsAssumption` now also requires `Blocks` and `Threads` to be finite,
as they are in any run. There is one lemma per action, plus `StutterIInv`.

Only model-checked:

* `SnapshotReturns`, `DrainTerminates`, `SlowRecovers`, `LossNoticed` and
  `RecordCompletes`: liveness, which is out of the prover's reach.
* `BackoffTracksFailures`: it relates the backoff to `2^streak`, and the
  provers cannot use facts such as `2^(s+1) = 2 * 2^s`.
* `PoolRefinement`: the free list is a function over a chain of `next`
  pointers, and proving it would need induction over that chain.
* `DeliveredExact` and `GapsCountLosses`: they are stated with `SelectSeq`
  and with the cardinality of a set of positions of `delivered`. SelectSeq
  is a recursive function, and what it computes on an appended sequence
  needs induction over sequences.
* `QuiescentTalliesExact`: its sums over the bag of samples are folds
  (`MapThenSumSet`), and relating a fold to the fold after one more sample
  needs induction over finite sets.
* `PercentilesOrdered`: the percentile reads `Cumulative`, a recursive
  function over the buckets. Relating `Cumulative` before and after one
  bucket's increment needs induction over the bucket index.
* `NoDoubleAllocation` and `QuiescentAccounting` (the pool's `TypeOK` is
  proved): the free list is the
  `Walk` over a chain of `next` pointers, and what a push or a pop does to
  it needs induction over that chain. `NoDoubleAllocation` would also need
  the assumption of a single allocating thread, since `memory_pool_aba`
  breaks it with two.

## Not modelled

* A subscription frame split across two reads (part_005:273) is modelled as
  dropped, as spec section 4.9 allows. No run asks whether a client's
  subscription eventually takes effect.
* Percentiles above `max` (cache.cpp:256) follow from the spec's midpoint
  rule, as the `latency_rank` notes explain. No invariant states them.

The terminal output of the Visualizer, argument parsing in the mains, the
build scripts and the documents are pure I/O or text. Components listed in
`PROJECT.json` as not modelled say why there.

--------------------------- MODULE MessageParser ---------------------------
(***************************************************************************)
(* The client's stream reassembler, MessageParser (src/src/client/         *)
(* parser.cpp lines 1-197, declared in src/unnamed/part_012), fed by       *)
(* FeedHandler::process_data (src/unnamed/part_003) from the TCP stream    *)
(* the publisher writes.                                                   *)
(*                                                                         *)
(* The publisher writes frames with non-blocking sends; a send may write   *)
(* only a prefix of a frame, or nothing, and the rest is never written     *)
(* (ClientManager::send_to_client).  The stream therefore holds whole      *)
(* frames and truncated ones.  The client receives it in chunks of any     *)
(* size, appends each chunk to its buffer and parses every complete frame. *)
(*                                                                         *)
(* Data abstraction.  A byte of the stream is named by the frame it        *)
(* belongs to and its offset in it.  Reading the 16-bit kind field at the  *)
(* first byte of a whole frame gives the frame's kind; at any other byte   *)
(* it gives some value fixed by the bytes there, which the model chooses   *)
(* the first time the parser reads it and keeps.  The XOR checksum of L    *)
(* bytes matches exactly when they are one whole frame of length L         *)
(* (a chance collision of the 32-bit checksum is not modelled).            *)
(***************************************************************************)
EXTENDS Naturals, Sequences, FiniteSets

CONSTANTS
    HeaderSize, TradeSize, QuoteSize, HeartbeatSize,   \* frame sizes
    InitialCap,    \* INITIAL_BUFFER_SIZE
    MaxCap,        \* MAX_BUFFER_SIZE
    RecvSize,      \* RECV_BUFFER_SIZE: most bytes one receive returns
    SeqMod,        \* 2^32: sequence numbers are uint32_t
    MaxFrames,     \* bound on the frames the publisher writes
    MaxLosses,     \* bound on frames written only in part
    MaxSkips       \* bound on sequence numbers skipped by fault injection

ASSUME SizesAssumption ==
    /\ HeaderSize \in Nat \ {0}
    /\ {TradeSize, QuoteSize, HeartbeatSize} \subseteq Nat
    /\ HeaderSize < HeartbeatSize /\ HeartbeatSize < TradeSize
    /\ TradeSize < QuoteSize

ASSUME BufferAssumption ==
    /\ RecvSize \in Nat \ {0}
    /\ InitialCap \in Nat /\ MaxCap \in Nat
    /\ QuoteSize <= RecvSize /\ RecvSize <= InitialCap
    /\ MaxCap = 4 * InitialCap

ASSUME BoundsAssumption ==
    /\ SeqMod \in Nat \ {0}
    /\ {MaxFrames, MaxLosses, MaxSkips} \subseteq Nat

VARIABLES
    frames,     \* frames written: kind, sequence number, bytes written, end
    stream,     \* the bytes written, in order: [fr |-> frame, off |-> offset]
    sequence,   \* TickGenerator::sequence_, the last sequence number used
    nlost,      \* frames written only in part so far
    nskip,      \* sequence numbers skipped so far
    recvd,      \* bytes of the stream the client has received
    buf,        \* buffer_[read_pos_ .. write_pos_), as indices into stream
    rpos,       \* read_pos_
    wpos,       \* write_pos_
    cap,        \* buffer_.size()
    pc,         \* "idle": waiting for data; "parse": inside parse_messages
    alias,      \* kind value read at a byte that starts no whole frame
    delivered,  \* frames passed to the callbacks, in order
    expected,   \* expected_sequence_
    first,      \* first_message_
    gaps,       \* sequence_gaps_
    malformed,  \* malformed_messages_
    csumErrors  \* checksum_errors_

vars == <<frames, stream, sequence, nlost, nskip, recvd, buf, rpos, wpos,
          cap, pc, alias, delivered, expected, first, gaps, malformed,
          csumErrors>>

\* MessageType values; 0 stands for every value that is not a message type.
TRADE == 1
QUOTE == 2
HEARTBEAT == 3
Kinds == {TRADE, QUOTE, HEARTBEAT}
KindValues == {0} \cup Kinds

\* get_message_size
MsgSize(k) ==
    CASE k = TRADE     -> TradeSize
      [] k = QUOTE     -> QuoteSize
      [] k = HEARTBEAT -> HeartbeatSize
      [] OTHER         -> 0

StdMin(a, b) == IF a < b THEN a ELSE b

\* Frame f reached the stream whole.
Whole(f) == frames[f].len = MsgSize(frames[f].kind)

(* generate_tick: a trade or a quote of a random symbol, whose header     *)
(* carries ++sequence_; prices, quantities and the checksum are left out.  *)
GenerateTick(seq) == (seq + 1) % SeqMod

(* generate_heartbeat: a header with ++sequence_ and its checksum.         *)
GenerateHeartbeat(seq) == (seq + 1) % SeqMod

-----------------------------------------------------------------------------
(* The publisher writes frame number Len(frames)+1 of kind k: its first n  *)
(* bytes reach the stream (n < the frame's size: a partial or refused      *)
(* send).  With skip, fault injection generated one tick and dropped it,   *)
(* using up one sequence number.                                           *)
Transmit(k, n, skip) ==
    /\ Len(frames) < MaxFrames
    /\ n < MsgSize(k) => nlost < MaxLosses
    /\ skip => k # HEARTBEAT /\ nskip < MaxSkips
    /\ LET s == CASE k = HEARTBEAT -> GenerateHeartbeat(sequence)
                  [] skip           -> GenerateTick(GenerateTick(sequence))
                  [] OTHER          -> GenerateTick(sequence)
           f == Len(frames) + 1
       IN  /\ frames' = Append(frames, [kind |-> k, seq |-> s, len |-> n,
                                        end |-> Len(stream) + n])
           /\ stream' = stream \o [i \in 1 .. n |-> [fr |-> f, off |-> i - 1]]
           /\ sequence' = s
    /\ nlost' = IF n < MsgSize(k) THEN nlost + 1 ELSE nlost
    /\ nskip' = IF skip THEN nskip + 1 ELSE nskip
    /\ UNCHANGED <<recvd, buf, rpos, wpos, cap, pc, alias, delivered,
                   expected, first, gaps, malformed, csumErrors>>

-----------------------------------------------------------------------------
\* Variant of append_data whose compaction moves read_pos_ but forgets
\* write_pos_ = used.
ReceiveNoWposShift(n) ==
    /\ pc = "idle"
    /\ recvd + n <= Len(stream)
    /\ LET short    == cap - wpos < n
           compact  == short /\ rpos # 0
           r1       == IF compact THEN 0 ELSE rpos
           grow     == short /\ cap - wpos < n
           newCap   == StdMin(2 * cap, MaxCap)
           drop     == grow /\ newCap <= cap
       IN  /\ rpos' = r1
           /\ cap' = IF grow /\ ~drop THEN newCap ELSE cap
           /\ wpos' = IF drop THEN wpos ELSE wpos + n
           /\ buf' = IF drop THEN buf
                             ELSE buf \o [i \in 1 .. n |-> recvd + i]
           /\ malformed' = IF drop THEN malformed + 1 ELSE malformed
    /\ recvd' = recvd + n
    /\ pc' = "parse"
    /\ UNCHANGED <<frames, stream, sequence, nlost, nskip, alias, delivered,
                   expected, first, gaps, csumErrors>>

\* Variant of append_data that drops the ingest instead of growing the
\* buffer when compaction leaves too little room.
ReceiveNoGrow(n) ==
    /\ pc = "idle"
    /\ recvd + n <= Len(stream)
    /\ LET short    == cap - wpos < n
           compact  == short /\ rpos # 0
           r1       == IF compact THEN 0 ELSE rpos
           w1       == IF compact THEN wpos - rpos ELSE wpos
           drop     == short /\ cap - w1 < n
       IN  /\ rpos' = r1
           /\ cap' = cap
           /\ wpos' = IF drop THEN w1 ELSE w1 + n
           /\ buf' = IF drop THEN buf
                             ELSE buf \o [i \in 1 .. n |-> recvd + i]
           /\ malformed' = IF drop THEN malformed + 1 ELSE malformed
    /\ recvd' = recvd + n
    /\ pc' = "parse"
    /\ UNCHANGED <<frames, stream, sequence, nlost, nskip, alias, delivered,
                   expected, first, gaps, csumErrors>>

(* One iteration of FeedHandler::process_data: receive() returns n > 0     *)
(* bytes, append_data stores them, then parse_messages runs.               *)
(* append_data: compact if the tail space is short, grow by doubling if    *)
(* still short, drop the ingest if the buffer cannot grow.                 *)
Receive(n) ==
    /\ pc = "idle"
    /\ recvd + n <= Len(stream)
    /\ LET short    == cap - wpos < n
           compact  == short /\ rpos # 0
           r1       == IF compact THEN 0 ELSE rpos
           w1       == IF compact THEN wpos - rpos ELSE wpos
           grow     == short /\ cap - w1 < n
           newCap   == StdMin(2 * cap, MaxCap)
           drop     == grow /\ newCap <= cap
       IN  /\ rpos' = r1
           /\ cap' = IF grow /\ ~drop THEN newCap ELSE cap
           /\ wpos' = IF drop THEN w1 ELSE w1 + n
           /\ buf' = IF drop THEN buf
                             ELSE buf \o [i \in 1 .. n |-> recvd + i]
           /\ malformed' = IF drop THEN malformed + 1 ELSE malformed
    /\ recvd' = recvd + n
    /\ pc' = "parse"
    /\ UNCHANGED <<frames, stream, sequence, nlost, nskip, alias, delivered,
                   expected, first, gaps, csumErrors>>

-----------------------------------------------------------------------------
(* parse_one, called by parse_messages until it needs more data.           *)

\* The kind field read at read_pos_ has value a.
KindAt(a) ==
    LET b == buf[1]
    IN  IF stream[b].off = 0 /\ Whole(stream[b].fr)
          THEN a = frames[stream[b].fr].kind
          ELSE b \in DOMAIN alias => a = alias[b]

\* The value read at a byte that starts no whole frame is kept.
RememberKind(a) ==
    LET b == buf[1]
    IN  alias' = IF stream[b].off = 0 /\ Whole(stream[b].fr)
                   THEN alias
                   ELSE [x \in DOMAIN alias \cup {b} |->
                           IF x = b THEN a ELSE alias[x]]

\* validate_checksum over the L bytes at read_pos_.
ChecksumOK(L) ==
    LET f == stream[buf[1]].fr
    IN  /\ Whole(f)
        /\ frames[f].len = L
        /\ \A i \in 1 .. L : stream[buf[i]] = [fr |-> f, off |-> i - 1]

\* Variant of parse_messages that does not leave its loop on
\* NEED_MORE_DATA.
ParseNeedHeaderLoops ==
    /\ pc = "parse"
    /\ Len(buf) < HeaderSize
    /\ UNCHANGED vars

\* Fewer than HEADER_SIZE bytes: NEED_MORE_DATA ends parse_messages.
ParseNeedHeader ==
    /\ pc = "parse"
    /\ Len(buf) < HeaderSize
    /\ pc' = "idle"
    /\ UNCHANGED <<frames, stream, sequence, nlost, nskip, recvd, buf, rpos,
                   wpos, cap, alias, delivered, expected, first, gaps,
                   malformed, csumErrors>>

\* Not a message type: skip one byte.
ParseInvalid(a) ==
    /\ pc = "parse"
    /\ Len(buf) >= HeaderSize
    /\ KindAt(a) /\ RememberKind(a)
    /\ MsgSize(a) = 0
    /\ rpos' = rpos + 1
    /\ buf' = Tail(buf)
    /\ malformed' = malformed + 1
    /\ UNCHANGED <<frames, stream, sequence, nlost, nskip, recvd, wpos, cap,
                   pc, delivered, expected, first, gaps, csumErrors>>

\* Variant with an off-by-one completeness test (available <= msg_size).
ParseNeedMoreOffByOne(a) ==
    /\ pc = "parse"
    /\ Len(buf) >= HeaderSize
    /\ KindAt(a) /\ RememberKind(a)
    /\ MsgSize(a) > 0
    /\ Len(buf) <= MsgSize(a)
    /\ pc' = "idle"
    /\ UNCHANGED <<frames, stream, sequence, nlost, nskip, recvd, buf, rpos,
                   wpos, cap, delivered, expected, first, gaps, malformed,
                   csumErrors>>

\* A message type whose frame is not complete yet: NEED_MORE_DATA.
ParseNeedMore(a) ==
    /\ pc = "parse"
    /\ Len(buf) >= HeaderSize
    /\ KindAt(a) /\ RememberKind(a)
    /\ MsgSize(a) > 0
    /\ Len(buf) < MsgSize(a)
    /\ pc' = "idle"
    /\ UNCHANGED <<frames, stream, sequence, nlost, nskip, recvd, buf, rpos,
                   wpos, cap, delivered, expected, first, gaps, malformed,
                   csumErrors>>

\* Variant that skips the whole claimed frame on a checksum mismatch.
ParseBadChecksumSkipFrame(a) ==
    /\ pc = "parse"
    /\ Len(buf) >= HeaderSize
    /\ KindAt(a) /\ RememberKind(a)
    /\ MsgSize(a) > 0
    /\ Len(buf) >= MsgSize(a)
    /\ ~ChecksumOK(MsgSize(a))
    /\ rpos' = rpos + MsgSize(a)
    /\ buf' = SubSeq(buf, MsgSize(a) + 1, Len(buf))
    /\ csumErrors' = csumErrors + 1
    /\ UNCHANGED <<frames, stream, sequence, nlost, nskip, recvd, wpos, cap,
                   pc, delivered, expected, first, gaps, malformed>>

\* Checksum mismatch: skip one byte.
ParseBadChecksum(a) ==
    /\ pc = "parse"
    /\ Len(buf) >= HeaderSize
    /\ KindAt(a) /\ RememberKind(a)
    /\ MsgSize(a) > 0
    /\ Len(buf) >= MsgSize(a)
    /\ ~ChecksumOK(MsgSize(a))
    /\ rpos' = rpos + 1
    /\ buf' = Tail(buf)
    /\ csumErrors' = csumErrors + 1
    /\ UNCHANGED <<frames, stream, sequence, nlost, nskip, recvd, wpos, cap,
                   pc, delivered, expected, first, gaps, malformed>>

\* Variant of check_sequence computing the next number without the 32-bit
\* wrap.
CheckSequenceNoWrap(s) ==
    /\ first' = FALSE
    /\ gaps' = IF ~first /\ s # expected THEN gaps + 1 ELSE gaps
    /\ expected' = s + 1

\* Variant of check_sequence that does not resynchronise after a gap.
CheckSequenceNoResync(s) ==
    /\ first' = FALSE
    /\ gaps' = IF ~first /\ s # expected THEN gaps + 1 ELSE gaps
    /\ expected' = IF first \/ s = expected THEN (s + 1) % SeqMod ELSE expected

\* check_sequence: the first frame sets the expectation; a mismatch is a
\* gap; in every case the next expected number follows the received one.
CheckSequence(s) ==
    /\ first' = FALSE
    /\ gaps' = IF ~first /\ s # expected THEN gaps + 1 ELSE gaps
    /\ expected' = (s + 1) % SeqMod

\* A whole frame: check the sequence, deliver it, advance past it.
ParseFrame(a) ==
    /\ pc = "parse"
    /\ Len(buf) >= HeaderSize
    /\ KindAt(a) /\ RememberKind(a)
    /\ MsgSize(a) > 0
    /\ Len(buf) >= MsgSize(a)
    /\ ChecksumOK(MsgSize(a))
    /\ LET f == stream[buf[1]].fr
       IN  /\ CheckSequence(frames[f].seq)
           /\ delivered' = Append(delivered, f)
    /\ rpos' = rpos + MsgSize(a)
    /\ buf' = SubSeq(buf, MsgSize(a) + 1, Len(buf))
    /\ UNCHANGED <<frames, stream, sequence, nlost, nskip, recvd, wpos, cap,
                   pc, malformed, csumErrors>>

-----------------------------------------------------------------------------
Init ==
    /\ frames = <<>>
    /\ stream = <<>>
    /\ sequence = 0
    /\ nlost = 0
    /\ nskip = 0
    /\ recvd = 0
    /\ buf = <<>>
    /\ rpos = 0
    /\ wpos = 0
    /\ cap = InitialCap
    /\ pc = "idle"
    /\ alias = [x \in {} |-> 0]
    /\ delivered = <<>>
    /\ expected = 0
    /\ first = TRUE
    /\ gaps = 0
    /\ malformed = 0
    /\ csumErrors = 0

Next ==
    \/ \E k \in Kinds : \E n \in 0 .. MsgSize(k), skip \in BOOLEAN :
          Transmit(k, n, skip)
    \/ \E n \in 1 .. RecvSize : Receive(n)
    \/ ParseNeedHeader
    \/ \E a \in KindValues :
          \/ ParseInvalid(a)
          \/ ParseNeedMore(a)
          \/ ParseBadChecksum(a)
          \/ ParseFrame(a)

\* parse_messages runs to completion once called.
Fairness ==
    WF_vars(ParseNeedHeader \/ \E a \in KindValues :
              ParseInvalid(a) \/ ParseNeedMore(a) \/ ParseBadChecksum(a)
              \/ ParseFrame(a))

Spec == Init /\ [][Next]_vars /\ Fairness

-----------------------------------------------------------------------------
TypeOK ==
    /\ frames \in Seq([kind : Kinds, seq : 0 .. SeqMod - 1,
                       len : 0 .. QuoteSize, end : Nat])
    /\ stream \in Seq([fr : Nat \ {0}, off : 0 .. QuoteSize - 1])
    /\ sequence \in 0 .. SeqMod - 1
    /\ {nlost, nskip, recvd, rpos, wpos, cap} \subseteq Nat
    /\ buf \in Seq(Nat \ {0})
    /\ pc \in {"idle", "parse"}
    /\ DOMAIN alias \subseteq Nat /\ \A b \in DOMAIN alias : alias[b] \in KindValues
    /\ delivered \in Seq(Nat \ {0})
    /\ expected \in 0 .. SeqMod - 1
    /\ first \in BOOLEAN
    /\ {gaps, malformed, csumErrors} \subseteq Nat

\* Bytes of the stream the parser has consumed.
Consumed == recvd - Len(buf)

\* First stream index of frame f.
Start(f) == frames[f].end - frames[f].len + 1

(* Reassembly keeps the stream (spec section 3, Reassembler buffer): the  *)
(* bytes in [read_pos_, write_pos_) are exactly the received bytes not    *)
(* yet consumed, in stream order, whatever compaction and growth          *)
(* append_data did, and write_pos_ never passes the end of the buffer     *)
(* (the memcpy stays inside it).                                          *)
BufferHoldsStream ==
    /\ rpos <= wpos /\ wpos <= cap /\ cap <= MaxCap
    /\ Len(buf) = wpos - rpos
    /\ buf = [i \in 1 .. Len(buf) |-> Consumed + i]

(* After parse_messages returns, fewer bytes than the largest frame wait  *)
(* in the buffer, so append_data never reaches the 16 MiB cap and never   *)
(* drops an ingest.                                                        *)
ResidueBound ==
    pc = "idle" => Len(buf) < QuoteSize

(* append_data never drops an ingest: every byte a receive() returns is    *)
(* stored in the buffer behind the residue, because compaction and one     *)
(* doubling always make room and the 16 MiB cap is never the limit.        *)
IngestKept ==
    [][recvd' # recvd => Len(buf') = Len(buf) + (recvd' - recvd)]_vars

(* Frame delivery (spec sections 4.2 and 8.2, 8.3): the callbacks receive *)
(* exactly the frames that reached the stream whole and lie before the    *)
(* parser's position, in stream order: no truncated frame or misaligned   *)
(* bytes are delivered, and the byte-by-byte resync after a truncated     *)
(* frame never skips a whole frame.                                        *)
DeliveredExact ==
    LET Passed(f) == Whole(f) /\ frames[f].end <= Consumed
    IN  delivered = SelectSeq([f \in 1 .. Len(frames) |-> f], Passed)

(* Gap detection (spec section 3, ExpectedSeq): sequence_gaps_ counts      *)
(* exactly the deliveries preceded by a loss, a frame the publisher wrote  *)
(* in part or a sequence number fault injection skipped, across the       *)
(* wrap of the 32-bit sequence number.                                     *)
LossBefore(i) ==
    LET g == delivered[i]
    IN  \/ g # delivered[i - 1] + 1
        \/ frames[g].seq # (frames[g - 1].seq + 1) % SeqMod
GapsCountLosses ==
    gaps = Cardinality({i \in 2 .. Len(delivered) : LossBefore(i)})

(* parse_messages terminates: every call reaches NEED_MORE_DATA.          *)
DrainTerminates == pc = "parse" ~> pc = "idle"

(* Spec section 4.2: "the single-byte resync policy guarantees forward    *)
(* progress on arbitrary garbage ... never a stall": when parse_messages  *)
(* returns, no whole frame lies entirely in the buffer.                    *)
NoStall ==
    pc = "idle" =>
        ~\E f \in 1 .. Len(frames) :
            Whole(f) /\ Start(f) > Consumed /\ frames[f].end <= recvd

=============================================================================

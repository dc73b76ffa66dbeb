--------------------------- MODULE ParserProofs ----------------------------
(***************************************************************************)
(* Proofs about the client's stream reassembler: the type invariant, that  *)
(* the bytes between read_pos_ and write_pos_ are exactly the received and *)
(* unconsumed bytes of the stream (BufferHoldsStream), and that            *)
(* parse_messages leaves less than one largest frame behind                *)
(* (ResidueBound), so that append_data never drops an ingest (IngestKept), *)
(* for every choice of frame sizes and buffer sizes that the assumptions   *)
(* of MessageParser allow.                                                 *)
(***************************************************************************)
EXTENDS MessageParser, SequenceTheorems, TLAPS

(* Every byte of the stream belongs to a frame the publisher wrote.        *)
StreamFramed ==
    \A i \in 1 .. Len(stream) : stream[i].fr \in 1 .. Len(frames)

(* The buffer never shrinks below its initial size, and the client never  *)
(* receives more than the publisher wrote.                                 *)
BufferBounds ==
    /\ InitialCap <= cap
    /\ recvd <= Len(stream)

(* The inductive invariant.  ResidueBound is what keeps append_data from  *)
(* dropping an ingest, and so what keeps BufferHoldsStream true across a  *)
(* receive; BufferBounds and StreamFramed keep the frame a parse step     *)
(* reads inside the stream and the frame table.                           *)
IInv ==
    /\ TypeOK
    /\ StreamFramed
    /\ BufferBounds
    /\ BufferHoldsStream
    /\ ResidueBound

(* The frame sizes and buffer sizes, as the proofs use them.               *)
LEMMA SizeFacts ==
    /\ HeaderSize \in Nat \ {0}
    /\ QuoteSize \in Nat \ {0}
    /\ HeaderSize < QuoteSize
    /\ \A a \in KindValues : MsgSize(a) \in 0 .. QuoteSize
    /\ \A a \in KindValues : MsgSize(a) > 0 => HeaderSize < MsgSize(a)
    /\ \A k \in Kinds : MsgSize(k) > 0
    /\ MsgSize(0) = 0
    /\ RecvSize \in Nat \ {0}
    /\ InitialCap \in Nat \ {0}
    /\ MaxCap \in Nat
    /\ QuoteSize <= RecvSize /\ RecvSize <= InitialCap
    /\ MaxCap = 4 * InitialCap
    /\ SeqMod \in Nat \ {0}
    /\ MaxFrames \in Nat /\ MaxLosses \in Nat /\ MaxSkips \in Nat
<1>1. HeaderSize \in Nat \ {0} /\ QuoteSize \in Nat \ {0}
  BY SizesAssumption
<1>2. /\ MsgSize(TRADE) = TradeSize /\ MsgSize(QUOTE) = QuoteSize
      /\ MsgSize(HEARTBEAT) = HeartbeatSize /\ MsgSize(0) = 0
  BY DEF MsgSize, TRADE, QUOTE, HEARTBEAT
<1>3. KindValues = {0, TRADE, QUOTE, HEARTBEAT} /\ Kinds = {TRADE, QUOTE, HEARTBEAT}
  BY DEF KindValues, Kinds
<1>4. /\ TradeSize \in HeaderSize + 1 .. QuoteSize
      /\ HeartbeatSize \in HeaderSize + 1 .. QuoteSize
  BY SizesAssumption
<1>5. \A a \in KindValues : MsgSize(a) \in {0, TradeSize, QuoteSize, HeartbeatSize}
  BY <1>2, <1>3
<1>6. QED
  BY <1>1, <1>2, <1>3, <1>4, <1>5, SizesAssumption, BufferAssumption,
     BoundsAssumption

(* The successor of a sequence number modulo SeqMod: (s + 1) % SeqMod,    *)
(* the increment of a uint32_t, wraps only at the top.                    *)
LEMMA ModSucc ==
    ASSUME NEW N \in Nat \ {0}, NEW x \in 0 .. N - 1
    PROVE  (x + 1) % N \in 0 .. N - 1
<1>1. CASE x + 1 < N
  <2>1. (x + 1) % N = x + 1
    BY <1>1
  <2>2. QED
    BY <1>1, <2>1
<1>2. CASE x + 1 = N
  <2>1. (x + 1) % N = 0
    BY <1>2
  <2>2. QED
    BY <2>1
<1>3. QED
  BY <1>1, <1>2

LEMMA InitIInv == Init => IInv
<1> SUFFICES ASSUME Init PROVE IInv
  OBVIOUS
<1>1. TypeOK
  BY SizeFacts DEF Init, TypeOK
<1>2. StreamFramed /\ BufferBounds
  BY SizeFacts DEF Init, StreamFramed, BufferBounds
<1>3. BufferHoldsStream /\ ResidueBound
  BY SizeFacts DEF Init, BufferHoldsStream, ResidueBound, Consumed
<1>4. QED
  BY <1>1, <1>2, <1>3 DEF IInv

(* Dropping the first m elements of the run C+1, ..., C+L leaves the run   *)
(* C+m+1, ..., C+L.                                                         *)
LEMMA DropRun ==
    ASSUME NEW C \in Int, NEW L \in Nat, NEW m \in 0 .. L
    PROVE  SubSeq([i \in 1 .. L |-> C + i], m + 1, L)
             = [i \in 1 .. L - m |-> (C + m) + i]
<1> DEFINE b == [i \in 1 .. L |-> C + i]
<1>1. \A i \in m + 1 .. L : b[i] \in Int
  OBVIOUS
<1>2. /\ Len(SubSeq(b, m + 1, L)) = L - m
      /\ \A i \in 1 .. L - m : SubSeq(b, m + 1, L)[i] = b[m + i]
  BY <1>1, SubSeqProperties
<1>3. SubSeq(b, m + 1, L) \in Seq(Int)
  BY <1>1, SubSeqProperties
<1>4. DOMAIN SubSeq(b, m + 1, L) = 1 .. L - m
  BY <1>2, <1>3, LenProperties
<1>5. QED
  BY <1>2, <1>4

(* Appending the run C+L+1, ..., C+L+n to the run C+1, ..., C+L gives the  *)
(* run C+1, ..., C+L+n.                                                     *)
LEMMA AppendRun ==
    ASSUME NEW C \in Int, NEW L \in Nat, NEW n \in Nat
    PROVE  [i \in 1 .. L |-> C + i] \o [i \in 1 .. n |-> (C + L) + i]
             = [i \in 1 .. L + n |-> C + i]
<1> DEFINE s == [i \in 1 .. L |-> C + i]
           t == [i \in 1 .. n |-> (C + L) + i]
<1>1. s \in Seq(Int) /\ t \in Seq(Int) /\ Len(s) = L /\ Len(t) = n
  <2>1. s \in [1 .. L -> Int] /\ t \in [1 .. n -> Int]
    OBVIOUS
  <2>2. s \in Seq(Int) /\ t \in Seq(Int)
    BY <2>1, SeqDef
  <2>3. QED
    BY <2>1, <2>2, LenProperties
<1>2. /\ s \o t \in Seq(Int)
      /\ Len(s \o t) = L + n
      /\ \A i \in 1 .. L + n : (s \o t)[i] = IF i <= L THEN s[i] ELSE t[i - L]
  BY <1>1, ConcatProperties
<1>3. \A i \in 1 .. L + n : (s \o t)[i] = C + i
  BY <1>2
<1>4. DOMAIN (s \o t) = 1 .. L + n
  BY <1>2, LenProperties
<1>5. QED
  BY <1>3, <1>4

(* Consuming the first m bytes of the buffer (read_pos_ += m) keeps it    *)
(* the unconsumed part of the received stream.                             *)
LEMMA ConsumeSound ==
    ASSUME BufferHoldsStream, {rpos, wpos, cap, recvd} \subseteq Nat,
           NEW m \in 1 .. Len(buf),
           buf' = SubSeq(buf, m + 1, Len(buf)), rpos' = rpos + m,
           recvd' = recvd, wpos' = wpos, cap' = cap
    PROVE  BufferHoldsStream'
<1> DEFINE L == Len(buf)
           C == recvd - L
<1>1. L \in Nat
  BY DEF BufferHoldsStream
<1>2. buf' = [i \in 1 .. L - m |-> (C + m) + i]
  <2>1. buf = [i \in 1 .. L |-> C + i]
    BY DEF BufferHoldsStream, Consumed, L, C
  <2>2. C \in Int /\ m \in 0 .. L
    BY <1>1 DEF L, C
  <2>3. SubSeq([i \in 1 .. L |-> C + i], m + 1, L)
          = [i \in 1 .. L - m |-> (C + m) + i]
    BY <1>1, <2>2, DropRun
  <2>4. QED
    BY <2>1, <2>3 DEF L
<1>3. Len(buf') = L - m
  BY <1>1, <1>2
<1>4. Consumed' = C + m
  BY <1>1, <1>3 DEF Consumed, L, C
<1>5. rpos' <= wpos' /\ wpos' <= cap' /\ cap' <= MaxCap
  BY <1>1 DEF BufferHoldsStream, L
<1>6. Len(buf') = wpos' - rpos'
  BY <1>1, <1>3 DEF BufferHoldsStream, L
<1>7. buf' = [i \in 1 .. Len(buf') |-> Consumed' + i]
  BY <1>2, <1>3, <1>4
<1>8. QED
  BY <1>5, <1>6, <1>7 DEF BufferHoldsStream

(* The byte at read_pos_ is a received byte of the stream, and the frame   *)
(* it belongs to is one the publisher wrote.                               *)
LEMMA HeadInStream ==
    ASSUME IInv, buf # << >>
    PROVE  /\ buf[1] \in 1 .. Len(stream)
           /\ stream[buf[1]].fr \in 1 .. Len(frames)
           /\ frames[stream[buf[1]].fr].seq \in 0 .. SeqMod - 1
<1>1. /\ buf \in Seq(Nat \ {0}) /\ Len(buf) \in Nat \ {0}
      /\ buf[1] \in Nat \ {0}
  BY EmptySeq, ElementOfSeq DEF IInv, TypeOK
<1>2. buf[1] = Consumed + 1
  BY <1>1 DEF IInv, BufferHoldsStream
<1>3. recvd \in Nat /\ recvd <= Len(stream)
  BY DEF IInv, TypeOK, BufferBounds
<1>4. buf[1] \in 1 .. Len(stream)
  BY <1>1, <1>2, <1>3 DEF Consumed
<1>5. stream[buf[1]].fr \in 1 .. Len(frames)
  BY <1>4 DEF IInv, StreamFramed
<1>6. frames \in Seq([kind : Kinds, seq : 0 .. SeqMod - 1,
                      len : 0 .. QuoteSize, end : Nat])
  BY DEF IInv, TypeOK
<1>7. frames[stream[buf[1]].fr] \in [kind : Kinds, seq : 0 .. SeqMod - 1,
                                      len : 0 .. QuoteSize, end : Nat]
  BY <1>5, <1>6, ElementOfSeq
<1>8. QED
  BY <1>4, <1>5, <1>7

(* RememberKind keeps alias a map from bytes to kind values.               *)
LEMMA AliasType ==
    ASSUME TypeOK, buf # << >>, NEW a \in KindValues, RememberKind(a)
    PROVE  /\ DOMAIN alias' \subseteq Nat
           /\ \A b \in DOMAIN alias' : alias'[b] \in KindValues
<1>1. buf[1] \in Nat
  BY EmptySeq, ElementOfSeq DEF TypeOK
<1>2. QED
  BY <1>1 DEF TypeOK, RememberKind

(* The facts of IInv that a parse step needs about the buffer.             *)
LEMMA ParseBuffer ==
    ASSUME IInv, Len(buf) >= HeaderSize
    PROVE  /\ buf # << >>
           /\ Len(buf) \in Nat \ {0}
           /\ Tail(buf) = SubSeq(buf, 2, Len(buf))
           /\ Tail(buf) \in Seq(Nat \ {0})
           /\ {rpos, wpos, cap, recvd} \subseteq Nat
<1>1. buf \in Seq(Nat \ {0}) /\ Len(buf) \in Nat
  BY LenProperties DEF IInv, TypeOK
<1>2. Len(buf) \in Nat \ {0} /\ buf # << >>
  BY <1>1, SizeFacts, EmptySeq
<1>3. QED
  BY <1>1, <1>2, TailIsSubSeq, HeadTailProperties DEF IInv, TypeOK

(* NEED_MORE_DATA for a short header ends parse_messages with fewer than   *)
(* HEADER_SIZE bytes left.                                                 *)
LEMMA ParseNeedHeaderIInv == IInv /\ ParseNeedHeader => IInv'
<1> SUFFICES ASSUME IInv, ParseNeedHeader PROVE IInv'
  OBVIOUS
<1>1. Len(buf) < QuoteSize /\ pc' = "idle"
  <2>1. Len(buf) < HeaderSize
    BY DEF ParseNeedHeader
  <2>2. Len(buf) \in Nat
    BY LenProperties DEF IInv, TypeOK
  <2>3. QED
    BY <2>1, <2>2, SizeFacts DEF ParseNeedHeader
<1>2. TypeOK' /\ StreamFramed' /\ BufferBounds' /\ BufferHoldsStream'
  BY DEF ParseNeedHeader, IInv, TypeOK, StreamFramed, BufferBounds,
         BufferHoldsStream, Consumed
<1>3. QED
  BY <1>1, <1>2 DEF ParseNeedHeader, IInv, ResidueBound

(* NEED_MORE_DATA for an incomplete frame ends parse_messages with fewer   *)
(* bytes than the frame's size, hence fewer than the largest frame.        *)
LEMMA ParseNeedMoreIInv ==
    ASSUME IInv, NEW a \in KindValues, ParseNeedMore(a) PROVE IInv'
<1>1. Len(buf) < QuoteSize /\ pc' = "idle"
  <2>1. Len(buf) < MsgSize(a) /\ MsgSize(a) <= QuoteSize
    BY SizeFacts DEF ParseNeedMore
  <2>2. Len(buf) \in Nat
    BY LenProperties DEF IInv, TypeOK
  <2>3. QED
    BY <2>1, <2>2, SizeFacts DEF ParseNeedMore
<1>2. /\ DOMAIN alias' \subseteq Nat
      /\ \A b \in DOMAIN alias' : alias'[b] \in KindValues
  BY ParseBuffer, AliasType DEF ParseNeedMore, IInv
<1>3. TypeOK' /\ StreamFramed' /\ BufferBounds' /\ BufferHoldsStream'
  BY <1>1, <1>2 DEF ParseNeedMore, IInv, TypeOK, StreamFramed, BufferBounds,
                    BufferHoldsStream, Consumed
<1>4. QED
  BY <1>1, <1>3 DEF IInv, ResidueBound, ParseNeedMore

(* A step that consumes m bytes and keeps pc = "parse" keeps the buffer    *)
(* facts of IInv.                                                          *)
LEMMA ConsumeIInv ==
    ASSUME IInv, Len(buf) >= HeaderSize, NEW m \in 1 .. Len(buf),
           buf' = SubSeq(buf, m + 1, Len(buf)), rpos' = rpos + m,
           buf' \in Seq(Nat \ {0}), pc = "parse",
           UNCHANGED <<frames, stream, recvd, wpos, cap, pc>>
    PROVE  /\ BufferHoldsStream' /\ ResidueBound' /\ StreamFramed'
           /\ BufferBounds' /\ rpos' \in Nat
<1>1. {rpos, wpos, cap, recvd} \subseteq Nat
  BY ParseBuffer
<1>2. BufferHoldsStream'
  BY <1>1, ConsumeSound DEF IInv
<1>3. ResidueBound'
  BY DEF ResidueBound
<1>4. QED
  BY <1>1, <1>2, <1>3 DEF IInv, StreamFramed, BufferBounds

(* Not a message type: one byte is skipped and counted as malformed.       *)
LEMMA ParseInvalidIInv ==
    ASSUME IInv, NEW a \in KindValues, ParseInvalid(a) PROVE IInv'
<1>1. /\ Len(buf) >= HeaderSize /\ pc = "parse"
      /\ buf' = Tail(buf) /\ rpos' = rpos + 1
      /\ UNCHANGED <<frames, stream, recvd, wpos, cap, pc>>
  BY DEF ParseInvalid
<1>2. /\ Len(buf) \in Nat \ {0}
      /\ buf' = SubSeq(buf, 1 + 1, Len(buf))
      /\ buf' \in Seq(Nat \ {0})
  BY <1>1, ParseBuffer
<1>3. /\ BufferHoldsStream' /\ ResidueBound' /\ StreamFramed'
      /\ BufferBounds' /\ rpos' \in Nat
  BY <1>1, <1>2, ConsumeIInv
<1>4. /\ DOMAIN alias' \subseteq Nat
      /\ \A b \in DOMAIN alias' : alias'[b] \in KindValues
  BY <1>1, ParseBuffer, AliasType DEF ParseInvalid, IInv
<1>5. malformed' \in Nat
  <2>1. malformed' = malformed + 1
    BY DEF ParseInvalid
  <2>2. malformed \in Nat
    BY DEF IInv, TypeOK
  <2>3. QED
    BY <2>1, <2>2
<1>6. TypeOK'
  BY <1>2, <1>3, <1>4, <1>5 DEF ParseInvalid, IInv, TypeOK
<1>7. QED
  BY <1>3, <1>6 DEF IInv

(* A checksum mismatch: one byte is skipped and counted.                   *)
LEMMA ParseBadChecksumIInv ==
    ASSUME IInv, NEW a \in KindValues, ParseBadChecksum(a) PROVE IInv'
<1>1. /\ Len(buf) >= HeaderSize /\ pc = "parse"
      /\ buf' = Tail(buf) /\ rpos' = rpos + 1
      /\ UNCHANGED <<frames, stream, recvd, wpos, cap, pc>>
  BY DEF ParseBadChecksum
<1>2. /\ Len(buf) \in Nat \ {0}
      /\ buf' = SubSeq(buf, 1 + 1, Len(buf))
      /\ buf' \in Seq(Nat \ {0})
  BY <1>1, ParseBuffer
<1>3. /\ BufferHoldsStream' /\ ResidueBound' /\ StreamFramed'
      /\ BufferBounds' /\ rpos' \in Nat
  BY <1>1, <1>2, ConsumeIInv
<1>4. /\ DOMAIN alias' \subseteq Nat
      /\ \A b \in DOMAIN alias' : alias'[b] \in KindValues
  BY <1>1, ParseBuffer, AliasType DEF ParseBadChecksum, IInv
<1>5. csumErrors' \in Nat
  <2>1. csumErrors' = csumErrors + 1
    BY DEF ParseBadChecksum
  <2>2. csumErrors \in Nat
    BY DEF IInv, TypeOK
  <2>3. QED
    BY <2>1, <2>2
<1>6. TypeOK'
  BY <1>2, <1>3, <1>4, <1>5 DEF ParseBadChecksum, IInv, TypeOK
<1>7. QED
  BY <1>3, <1>6 DEF IInv

(* A whole frame: its sequence number is checked, it is delivered and the  *)
(* read position moves past it.                                            *)
LEMMA ParseFrameIInv ==
    ASSUME IInv, NEW a \in KindValues, ParseFrame(a) PROVE IInv'
<1> DEFINE m == MsgSize(a)
           f == stream[buf[1]].fr
<1>1. /\ Len(buf) >= HeaderSize /\ pc = "parse"
      /\ m > 0 /\ Len(buf) >= m
      /\ buf' = SubSeq(buf, m + 1, Len(buf)) /\ rpos' = rpos + m
      /\ UNCHANGED <<frames, stream, recvd, wpos, cap, pc>>
      /\ delivered' = Append(delivered, f)
      /\ CheckSequence(frames[f].seq)
  BY DEF ParseFrame, m, f
<1>2. /\ Len(buf) \in Nat \ {0} /\ buf # << >>
      /\ buf \in Seq(Nat \ {0})
      /\ m \in 1 .. Len(buf)
  <2>1. Len(buf) \in Nat \ {0} /\ buf # << >>
    BY <1>1, ParseBuffer
  <2>2. buf \in Seq(Nat \ {0})
    BY DEF IInv, TypeOK
  <2>3. m \in Nat
    BY SizeFacts DEF m
  <2>4. QED
    BY <1>1, <2>1, <2>2, <2>3
<1>3. buf' \in Seq(Nat \ {0})
  <2>1. \A i \in m + 1 .. Len(buf) : buf[i] \in Nat \ {0}
    BY <1>2, ElementOfSeq
  <2>2. m + 1 \in Int /\ Len(buf) \in Int
    BY <1>2
  <2>3. SubSeq(buf, m + 1, Len(buf)) \in Seq(Nat \ {0})
    BY <2>1, <2>2, SubSeqProperties
  <2>4. QED
    BY <1>1, <2>3
<1>4. /\ BufferHoldsStream' /\ ResidueBound' /\ StreamFramed'
      /\ BufferBounds' /\ rpos' \in Nat
  BY <1>1, <1>2, <1>3, ConsumeIInv
<1>5. /\ DOMAIN alias' \subseteq Nat
      /\ \A b \in DOMAIN alias' : alias'[b] \in KindValues
  BY <1>2, AliasType DEF ParseFrame, IInv
<1>6. f \in 1 .. Len(frames) /\ frames[f].seq \in 0 .. SeqMod - 1
  BY <1>2, HeadInStream DEF f
<1>7. delivered' \in Seq(Nat \ {0})
  <2>1. delivered \in Seq(Nat \ {0})
    BY DEF IInv, TypeOK
  <2>2. f \in Nat \ {0}
    BY <1>6
  <2>3. QED
    BY <1>1, <2>1, <2>2, AppendProperties
<1>8. /\ first' \in BOOLEAN
      /\ expected' \in 0 .. SeqMod - 1
      /\ gaps' \in Nat
  <2>1. /\ first' = FALSE
        /\ gaps' \in {gaps, gaps + 1}
        /\ expected' = (frames[f].seq + 1) % SeqMod
    BY <1>1 DEF CheckSequence
  <2>2. gaps \in Nat
    BY DEF IInv, TypeOK
  <2>3. SeqMod \in Nat \ {0}
    BY SizeFacts
  <2>4. expected' \in 0 .. SeqMod - 1
    <3>1. expected' = (frames[f].seq + 1) % SeqMod
      BY <2>1
    <3>2. QED
      BY <1>6, <2>3, <3>1, ModSucc
  <2>5. gaps' \in Nat
    BY <2>1, <2>2
  <2>6. QED
    BY <2>1, <2>4, <2>5
<1>9. TypeOK'
  BY <1>3, <1>4, <1>5, <1>7, <1>8 DEF ParseFrame, IInv, TypeOK
<1>10. QED
  BY <1>4, <1>9 DEF IInv

(* The publisher writes a frame: the next sequence number is in range     *)
(* whichever of generate_tick and generate_heartbeat made it, and the      *)
(* bytes appended to the stream all belong to the new frame.               *)
LEMMA TransmitIInv ==
    ASSUME IInv, NEW k \in Kinds, NEW n \in 0 .. MsgSize(k),
           NEW skip \in BOOLEAN, Transmit(k, n, skip)
    PROVE  IInv'
<1> DEFINE f == Len(frames) + 1
           Byte == [fr : Nat \ {0}, off : 0 .. QuoteSize - 1]
           Frame == [kind : Kinds, seq : 0 .. SeqMod - 1,
                     len : 0 .. QuoteSize, end : Nat]
           bytes == [i \in 1 .. n |-> [fr |-> f, off |-> i - 1]]
<1>1. /\ frames' = Append(frames, [kind |-> k, seq |-> sequence', len |-> n,
                                   end |-> Len(stream) + n])
      /\ stream' = stream \o bytes
      /\ UNCHANGED <<recvd, buf, rpos, wpos, cap, pc, alias, delivered,
                     expected, first, gaps, malformed, csumErrors>>
  BY DEF Transmit, f, bytes
<1>2. /\ frames \in Seq(Frame) /\ stream \in Seq(Byte)
      /\ Len(frames) \in Nat /\ Len(stream) \in Nat
      /\ sequence \in 0 .. SeqMod - 1
  BY LenProperties DEF IInv, TypeOK, Frame, Byte
<1>3. sequence' \in 0 .. SeqMod - 1
  <2>1. /\ GenerateHeartbeat(sequence) \in 0 .. SeqMod - 1
        /\ GenerateTick(sequence) \in 0 .. SeqMod - 1
    BY <1>2, SizeFacts, ModSucc DEF GenerateHeartbeat, GenerateTick
  <2>2. GenerateTick(GenerateTick(sequence)) \in 0 .. SeqMod - 1
    BY <2>1, SizeFacts, ModSucc DEF GenerateTick
  <2>3. sequence' \in {GenerateHeartbeat(sequence), GenerateTick(sequence),
                       GenerateTick(GenerateTick(sequence))}
    BY Zenon DEF Transmit
  <2>4. QED
    BY <2>1, <2>2, <2>3
<1>4. n \in 0 .. QuoteSize /\ QuoteSize \in Nat \ {0} /\ SeqMod \in Nat \ {0}
  BY SizeFacts DEF Kinds, KindValues
<1>5. /\ bytes \in Seq(Byte)
      /\ Len(bytes) = n
  <2>1. f \in Nat \ {0}
    BY <1>2 DEF f
  <2>2. \A i \in 1 .. n : bytes[i] \in Byte
    <3> SUFFICES ASSUME NEW i \in 1 .. n PROVE bytes[i] \in Byte
      OBVIOUS
    <3>1. i - 1 \in 0 .. QuoteSize - 1
      BY <1>4
    <3>2. bytes[i] = [fr |-> f, off |-> i - 1]
      BY DEF bytes
    <3>3. QED
      BY <2>1, <3>1, <3>2 DEF Byte
  <2>3. bytes \in [1 .. n -> Byte]
    BY <2>2 DEF bytes
  <2>4. bytes \in Seq(Byte)
    BY <1>4, <2>3, SeqDef
  <2>5. QED
    BY <1>4, <2>3, <2>4, LenProperties
<1>6. /\ stream' \in Seq(Byte)
      /\ Len(stream') = Len(stream) + n
      /\ \A i \in 1 .. Len(stream) + n :
            stream'[i] = IF i <= Len(stream) THEN stream[i]
                         ELSE bytes[i - Len(stream)]
  BY <1>1, <1>2, <1>5, ConcatProperties
<1>7. /\ frames' \in Seq(Frame)
      /\ Len(frames') = f
  <2>1. [kind |-> k, seq |-> sequence', len |-> n, end |-> Len(stream) + n]
          \in Frame
    BY <1>2, <1>3, <1>4 DEF Frame
  <2>2. QED
    BY <1>1, <1>2, <2>1, AppendProperties DEF f
<1>8. StreamFramed'
  <2>0. Len(frames') = Len(frames) + 1
    BY <1>7 DEF f
  <2> SUFFICES ASSUME NEW i \in 1 .. Len(stream')
               PROVE  stream'[i].fr \in 1 .. Len(frames')
    BY DEF StreamFramed
  <2>1. CASE i <= Len(stream)
    <3>1. i \in 1 .. Len(stream)
      BY <1>2, <2>1
    <3>2. stream'[i] = stream[i]
      <4>1. i \in 1 .. Len(stream) + n
        BY <1>2, <1>4, <3>1
      <4>2. stream'[i] = IF i <= Len(stream) THEN stream[i]
                         ELSE bytes[i - Len(stream)]
        BY <1>6, <4>1
      <4>3. QED
        BY <3>1, <4>2
    <3>3. stream[i].fr \in 1 .. Len(frames)
      BY <3>1 DEF IInv, StreamFramed
    <3>4. QED
      BY <1>2, <2>0, <3>2, <3>3 DEF f
  <2>2. CASE i > Len(stream)
    <3>1. i - Len(stream) \in 1 .. n
      BY <1>2, <1>4, <1>6, <2>2
    <3>2. stream'[i] = bytes[i - Len(stream)]
      <4>1. i \in 1 .. Len(stream) + n
        BY <1>2, <1>4, <1>6
      <4>2. stream'[i] = IF i <= Len(stream) THEN stream[i]
                         ELSE bytes[i - Len(stream)]
        BY <1>6, <4>1
      <4>3. QED
        BY <1>2, <2>2, <4>2
    <3>3. bytes[i - Len(stream)].fr = f
      BY <3>1 DEF bytes
    <3>4. stream'[i].fr = f
      BY <3>2, <3>3
    <3>5. f \in 1 .. Len(frames')
      BY <1>2, <2>0 DEF f
    <3>6. QED
      BY <3>4, <3>5
  <2>3. QED
    BY <1>2, <1>6, <2>1, <2>2
<1>9. /\ nlost' \in Nat /\ nskip' \in Nat
  <2>1. nlost' \in {nlost, nlost + 1} /\ nskip' \in {nskip, nskip + 1}
    BY DEF Transmit
  <2>2. nlost \in Nat /\ nskip \in Nat
    BY DEF IInv, TypeOK
  <2>3. QED
    BY <2>1, <2>2
<1>10. TypeOK'
  BY <1>1, <1>3, <1>6, <1>7, <1>9 DEF IInv, TypeOK, Frame, Byte
<1>11. BufferBounds'
  <2>1. recvd \in Nat /\ recvd <= Len(stream) /\ InitialCap <= cap
    BY DEF IInv, BufferBounds, TypeOK
  <2>2. QED
    BY <1>1, <1>2, <1>6, <2>1 DEF BufferBounds
<1>12. BufferHoldsStream' /\ ResidueBound'
  BY <1>1 DEF IInv, BufferHoldsStream, ResidueBound, Consumed
<1>13. QED
  BY <1>8, <1>10, <1>11, <1>12 DEF IInv

(* append_data between two parses: the residue is below the largest frame  *)
(* (ResidueBound), so after compaction a receive of at most RecvSize bytes *)
(* fits once the buffer has doubled at most once, the 16 MiB cap is never  *)
(* the limit and no ingest is dropped; the received bytes follow the       *)
(* residue in the buffer.                                                  *)
LEMMA ReceiveIInv ==
    ASSUME IInv, NEW n \in 1 .. RecvSize, Receive(n)
    PROVE  IInv' /\ Len(buf') = Len(buf) + n /\ recvd' = recvd + n
<1> DEFINE L       == Len(buf)
           short   == cap - wpos < n
           compact == short /\ rpos # 0
           r1      == IF compact THEN 0 ELSE rpos
           w1      == IF compact THEN wpos - rpos ELSE wpos
           grow    == short /\ cap - w1 < n
           newCap  == StdMin(2 * cap, MaxCap)
           drop    == grow /\ newCap <= cap
<1>1. /\ pc = "idle" /\ recvd + n <= Len(stream)
      /\ rpos' = r1
      /\ cap' = IF grow /\ ~drop THEN newCap ELSE cap
      /\ wpos' = IF drop THEN w1 ELSE w1 + n
      /\ buf' = IF drop THEN buf ELSE buf \o [i \in 1 .. n |-> recvd + i]
      /\ malformed' = IF drop THEN malformed + 1 ELSE malformed
      /\ recvd' = recvd + n
      /\ pc' = "parse"
      /\ UNCHANGED <<frames, stream, sequence, nlost, nskip, alias,
                     delivered, expected, first, gaps, csumErrors>>
  BY DEF Receive, short, compact, r1, w1, grow, newCap, drop
<1>2. /\ rpos \in Nat /\ wpos \in Nat /\ cap \in Nat /\ recvd \in Nat
      /\ L \in Nat
      /\ rpos <= wpos /\ wpos <= cap /\ cap <= MaxCap /\ L = wpos - rpos
      /\ InitialCap <= cap
      /\ L < QuoteSize
  <2>1. {rpos, wpos, cap, recvd} \subseteq Nat /\ buf \in Seq(Nat \ {0})
    BY DEF IInv, TypeOK
  <2>2. L \in Nat
    BY <2>1, LenProperties DEF L
  <2>3. QED
    BY <1>1, <2>1, <2>2 DEF IInv, BufferHoldsStream, BufferBounds,
                            ResidueBound, L
<1>2b. buf \in Seq(Nat \ {0})
  BY DEF IInv, TypeOK
<1>3. /\ QuoteSize \in Nat /\ RecvSize \in Nat /\ MaxCap \in Nat
      /\ QuoteSize <= RecvSize /\ RecvSize <= InitialCap
      /\ MaxCap = 4 * InitialCap /\ InitialCap \in Nat \ {0}
      /\ n \in 1 .. InitialCap
  BY SizeFacts
<1>4. w1 - r1 = L /\ r1 \in Nat /\ w1 \in Nat
  BY <1>2 DEF w1, r1, compact
<1>4a. short => w1 = L
  BY <1>2 DEF w1, compact
<1>5. grow => cap < MaxCap /\ w1 = L
  <2> SUFFICES ASSUME grow PROVE cap < MaxCap /\ w1 = L
    OBVIOUS
  <2>1. short /\ cap - w1 < n
    BY DEF grow
  <2>2. w1 = L
    BY <1>4a, <2>1
  <2>3. QED
    BY <1>2, <1>3, <2>1, <2>2
<1>6. ~drop
  BY <1>2, <1>3, <1>5 DEF drop, newCap, StdMin
<1>7. /\ rpos' = r1 /\ wpos' = w1 + n
      /\ cap' = IF grow THEN newCap ELSE cap
      /\ buf' = buf \o [i \in 1 .. n |-> recvd + i]
  BY <1>1, <1>6
<1>8. /\ w1 + n <= cap' /\ cap' \in Nat
      /\ InitialCap <= cap' /\ cap' <= MaxCap
  <2>1. CASE grow
    <3>1. cap' = newCap
      BY <1>7, <2>1
    <3>2. newCap \in {2 * cap, MaxCap} /\ newCap <= MaxCap
          /\ newCap <= 2 * cap
      BY <1>2, <1>3 DEF newCap, StdMin
    <3>3. w1 + n <= newCap
      BY <1>2, <1>3, <1>5, <2>1, <3>2
    <3>4. QED
      BY <1>2, <1>3, <3>1, <3>2, <3>3
  <2>2. CASE ~grow
    <3>1. cap' = cap
      BY <1>7, <2>2
    <3>2. w1 + n <= cap
      <4>1. CASE short
        BY <1>2, <1>4, <2>2, <4>1 DEF grow
      <4>2. CASE ~short
        BY <1>2, <4>2 DEF short, w1, compact
      <4>3. QED
        BY <4>1, <4>2
    <3>3. QED
      BY <1>2, <3>1, <3>2
  <2>3. QED
    BY <2>1, <2>2
<1>9. buf' = [i \in 1 .. L + n |-> (recvd - L) + i]
  <2>1. buf = [i \in 1 .. L |-> (recvd - L) + i]
    BY DEF IInv, BufferHoldsStream, Consumed, L
  <2>2. [i \in 1 .. n |-> recvd + i] = [i \in 1 .. n |-> ((recvd - L) + L) + i]
    BY <1>2
  <2>3. (recvd - L) \in Int
    BY <1>2
  <2>4. [i \in 1 .. L |-> (recvd - L) + i]
          \o [i \in 1 .. n |-> ((recvd - L) + L) + i]
          = [i \in 1 .. L + n |-> (recvd - L) + i]
    BY <1>2, <1>3, <2>3, AppendRun
  <2>5. QED
    BY <1>7, <2>1, <2>2, <2>4
<1>10. recvd - L \in Nat
  <2>1. CASE L = 0
    BY <1>2, <2>1
  <2>2. CASE L # 0
    <3>1. buf[1] \in Nat \ {0}
      BY <1>2, <1>2b, <2>2, ElementOfSeq
    <3>2. buf[1] = (recvd - L) + 1
      BY <1>2, <2>2 DEF IInv, BufferHoldsStream, Consumed, L
    <3>3. QED
      BY <1>2, <3>1, <3>2
  <2>3. QED
    BY <2>1, <2>2
<1>11. /\ Len(buf') = L + n
       /\ buf' \in Seq(Nat \ {0})
  <2>1. buf' \in [1 .. L + n -> Nat \ {0}]
    BY <1>9, <1>10
  <2>2. L + n \in Nat
    BY <1>2, <1>3
  <2>3. buf' \in Seq(Nat \ {0})
    BY <2>1, <2>2, SeqDef
  <2>4. QED
    BY <2>1, <2>2, <2>3, LenProperties
<1>12. BufferHoldsStream'
  <2>1. rpos' <= wpos' /\ wpos' <= cap' /\ cap' <= MaxCap
    BY <1>2, <1>4, <1>7, <1>8
  <2>2. Len(buf') = wpos' - rpos'
    <3>1. wpos' = w1 + n /\ rpos' = r1
      BY <1>7
    <3>2. Len(buf') = L + n
      BY <1>11
    <3>3. QED
      BY <1>2, <1>3, <1>4, <3>1, <3>2
  <2>3. Consumed' = recvd - L
    <3>1. recvd' = recvd + n
      BY <1>1
    <3>2. Len(buf') = L + n
      BY <1>11
    <3>3. QED
      BY <1>2, <1>3, <3>1, <3>2 DEF Consumed
  <2>4. QED
    BY <1>9, <1>11, <2>1, <2>2, <2>3 DEF BufferHoldsStream
<1>13. BufferBounds' /\ StreamFramed'
  BY <1>1, <1>8 DEF IInv, BufferBounds, StreamFramed
<1>14. ResidueBound'
  BY <1>1 DEF ResidueBound
<1>15. TypeOK'
  <2>1. {rpos', wpos', cap', recvd'} \subseteq Nat
    BY <1>1, <1>2, <1>4, <1>7, <1>8, <1>3
  <2>2. malformed' = malformed
    BY <1>1, <1>6
  <2>3. QED
    BY <1>1, <1>11, <2>1, <2>2 DEF IInv, TypeOK
<1>16. QED
  BY <1>1, <1>11, <1>12, <1>13, <1>14, <1>15 DEF IInv, L

(* A stuttering step leaves IInv true.                                     *)
LEMMA StutterIInv == IInv /\ UNCHANGED vars => IInv'
BY DEF vars, IInv, TypeOK, StreamFramed, BufferBounds, BufferHoldsStream,
       ResidueBound, Consumed

LEMMA NextIInv == IInv /\ [Next]_vars => IInv'
<1> SUFFICES ASSUME IInv, [Next]_vars PROVE IInv'
  OBVIOUS
<1>1. CASE \E k \in Kinds : \E n \in 0 .. MsgSize(k), skip \in BOOLEAN :
              Transmit(k, n, skip)
  BY <1>1, TransmitIInv
<1>2. CASE \E n \in 1 .. RecvSize : Receive(n)
  BY <1>2, ReceiveIInv
<1>3. CASE ParseNeedHeader
  BY <1>3, ParseNeedHeaderIInv
<1>4. CASE \E a \in KindValues :
              \/ ParseInvalid(a)
              \/ ParseNeedMore(a)
              \/ ParseBadChecksum(a)
              \/ ParseFrame(a)
  BY <1>4, ParseInvalidIInv, ParseNeedMoreIInv, ParseBadChecksumIInv,
     ParseFrameIInv
<1>5. CASE UNCHANGED vars
  BY <1>5, StutterIInv
<1>6. QED
  BY <1>1, <1>2, <1>3, <1>4, <1>5 DEF Next

-----------------------------------------------------------------------------
(* Every reachable state of the reassembler is well typed: the positions  *)
(* and counters are naturals, every sequence number is a 32-bit value, and *)
(* the parser only ever delivers frames the publisher wrote.               *)
THEOREM TypeCorrect == Spec => []TypeOK
<1>1. IInv => TypeOK
  BY DEF IInv
<1>2. QED
  BY <1>1, InitIInv, NextIInv, PTL DEF Spec

(* append_data and parse_messages keep buffer_[read_pos_, write_pos_)     *)
(* equal to the received, unconsumed bytes of the stream, in order, with   *)
(* write_pos_ inside the buffer and the buffer within MAX_BUFFER_SIZE.     *)
THEOREM BufferSafety == Spec => []BufferHoldsStream
<1>1. IInv => BufferHoldsStream
  BY DEF IInv
<1>2. QED
  BY <1>1, InitIInv, NextIInv, PTL DEF Spec

(* After parse_messages returns, fewer bytes than the largest frame are    *)
(* left in the buffer, so append_data never drops an ingest.               *)
THEOREM ResidueBounded == Spec => []ResidueBound
<1>1. IInv => ResidueBound
  BY DEF IInv
<1>2. QED
  BY <1>1, InitIInv, NextIInv, PTL DEF Spec

(* Only a receive changes recvd, and it stores all it received.           *)
LEMMA NextIngest ==
    IInv /\ [Next]_vars
      => [recvd' # recvd => Len(buf') = Len(buf) + (recvd' - recvd)]_vars
<1> SUFFICES ASSUME IInv, [Next]_vars
             PROVE  recvd' # recvd => Len(buf') = Len(buf) + (recvd' - recvd)
  OBVIOUS
<1>1. CASE \E n \in 1 .. RecvSize : Receive(n)
  <2>1. PICK n \in 1 .. RecvSize : Receive(n)
    BY <1>1
  <2>2. Len(buf') = Len(buf) + n /\ recvd' = recvd + n
    BY <2>1, ReceiveIInv
  <2>3. recvd \in Nat /\ n \in Nat
    BY SizeFacts DEF IInv, TypeOK
  <2>4. QED
    BY <2>2, <2>3
<1>2. CASE ~\E n \in 1 .. RecvSize : Receive(n)
  <2>1. recvd' = recvd
    BY <1>2 DEF Next, vars, Transmit, ParseNeedHeader, ParseInvalid,
                ParseNeedMore, ParseBadChecksum, ParseFrame
  <2>2. QED
    BY <2>1
<1>3. QED
  BY <1>1, <1>2

(* IngestKept: append_data never drops what receive() returned; every     *)
(* step that receives bytes lengthens the buffer by exactly that many.     *)
THEOREM IngestKeptHolds == Spec => IngestKept
<1>1. Spec => []IInv
  BY InitIInv, NextIInv, PTL DEF Spec
<1>2. QED
  BY <1>1, NextIngest, PTL DEF Spec, IngestKept

=============================================================================

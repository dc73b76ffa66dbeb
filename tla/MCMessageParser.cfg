\* Three frames, one written in part, one skipped sequence number.
CONSTANTS
    HeaderSize = 1
    HeartbeatSize = 2
    TradeSize = 3
    QuoteSize = 4
    RecvSize = 4
    InitialCap = 4
    MaxCap = 16
    SeqMod = 4
    MaxFrames = 3
    MaxLosses = 1
    MaxSkips = 1

SPECIFICATION Spec

\* The stream is bounded: once every frame is written and parsed the
\* client only waits for data, which the model leaves as stuttering.
CHECK_DEADLOCK FALSE

INVARIANT TypeOK
INVARIANT BufferHoldsStream
INVARIANT ResidueBound
INVARIANT DeliveredExact
INVARIANT GapsCountLosses
PROPERTY DrainTerminates
PROPERTY IngestKept

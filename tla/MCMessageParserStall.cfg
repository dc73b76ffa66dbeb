\* A frame written in part, then whole frames: the parser stops at a
\* misaligned kind value while a whole frame waits in the buffer.
CONSTANTS
    HeaderSize = 1
    HeartbeatSize = 2
    TradeSize = 3
    QuoteSize = 4
    RecvSize = 4
    InitialCap = 4
    MaxCap = 16
    SeqMod = 4
    MaxFrames = 3
    MaxLosses = 1
    MaxSkips = 1

SPECIFICATION Spec

\* The stream is bounded: once every frame is written and parsed the
\* client only waits for data, which the model leaves as stuttering.
CHECK_DEADLOCK FALSE

INVARIANT NoStall

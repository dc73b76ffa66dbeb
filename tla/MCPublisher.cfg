CONSTANTS
    f1 = f1
    f2 = f2
    s1 = s1
    s2 = s2
    Fds <- MCFds
    Symbols <- MCSymbols
    HeartbeatSize = 2
    TradeSize = 3
    QuoteSize = 4
    SlowHigh = 6
    SndBufSizes = {6, 12}
SPECIFICATION Spec
INVARIANTS
    TypeOK
    TornTailIsSlow
PROPERTIES
    SlowRecovers

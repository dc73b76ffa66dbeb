CONSTANTS
    b1 = b1
    b2 = b2
    t1 = t1
    t2 = t2
    null = null
    foreign = foreign
    Blocks <- MCBlocks
    Threads <- MCThreads
    Null <- null
    Foreign <- foreign
    MaxOps = 6
SPECIFICATION Spec
CONSTANT Allocators <- MCThreads
INVARIANT NoDoubleAllocation

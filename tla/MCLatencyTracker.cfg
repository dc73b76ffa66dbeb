CONSTANTS
    w1 = w1
    w2 = w2
    Writers <- MCWriters
    Samples = {1, 5, 8}
    Width = 4
    NumBuckets = 2
    MinInit = 100
    RingSize = 2
    MaxRecords = 3
SPECIFICATION Spec
INVARIANTS TypeOK QuiescentTalliesExact QuiescentExtremaExact PercentilesOrdered
PROPERTIES ExtremaMonotone RecordCompletes

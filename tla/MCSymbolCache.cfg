\* Two entries, one reader, two updates and one reset outside of readers.
CONSTANTS
    r1 = r1
    Readers <- MCReaders
    NumSymbols = 2
    MaxUpdates = 2
    MaxResets = 1
    ResetQuiescent = TRUE

SPECIFICATION Spec

INVARIANT TypeInv
INVARIANT SnapshotConsistent
INVARIANT SeqlockInv
PROPERTY SnapshotReturns

\* reset() called while a reader is inside get_snapshot (nothing in the code
\* prevents it): one entry, one reader, one update, one reset.
CONSTANTS
    r1 = r1
    Readers <- MCReaders
    NumSymbols = 1
    MaxUpdates = 1
    MaxResets = 1
    ResetQuiescent = FALSE

SPECIFICATION Spec

INVARIANT SnapshotConsistent

\* Up to three snapshots and lookups of up to three distinct NIDs: a lookup of stored snapshots fails.
CONSTANTS
    b1 = b1
    b2 = b2
    BlockLists <- MCBlockLists
    MaxNID = 3
    MaxRequest = 3
    Err = Err
    ErrNoRows = ErrNoRows
    NoCall = NoCall
SPECIFICATION Spec
INVARIANT BulkLookupCorrect

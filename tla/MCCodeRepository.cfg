SPECIFICATION Spec
CONSTANTS
    seed = seed
    a1 = a1
    a2 = a2
    d1 = d1
    b1 = b1
    b2 = b2
    Op <- MCOp
    Deps <- MCDeps
    Deletes <- MCDeletes
    Conflicts <- MCConflicts
    Seed <- MCSeed
    Update <- MCUpdate
    Key = {k1, k2, k3, k4, k5, k6}
    Bytes <- MCBytes
    CompactAfterUpdateCount = 2
    CompactAfterUpdateBytes = 3
    MaxUpdateLogCount = 3
    MaxWorkspaceBytes = 6
    MaxUpdateBytes = 5
    MaxReceiptCount = 5
    MaxColdSyncParts = 4
SYMMETRY Keys
INVARIANTS
    AckedIsDurable
    AlwaysLoadable
    ColdSyncServable
    StoredOnce
    
PROPERTIES
    FullLogOnlyCompacts
    KeepsPromise

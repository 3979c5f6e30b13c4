SPECIFICATION SyncSpec
CONSTANTS
    seed = seed
    e1 = e1
    e2 = e2
    e3 = e3
    ta = ta
    tb = tb
    da = da
    db = db
    Op <- TwoEdits
    Seed <- MCSeed
    Deps <- Chain
    Deletes = {}
    Conflicts = {}
    Update <- MCUpdate
    Bytes <- MCBytes
    Key <- OneDeviceKeys
    Tab <- MCTab
    Device = {da}
    DeviceOf <- OneDevice
    Author <- TwoAuthors
    NoOp = NoOp
    CompactAfterUpdateCount = 2
    CompactAfterUpdateBytes = 4
    MaxUpdateLogCount = 3
    MaxWorkspaceBytes = 6
    MaxUpdateBytes = 6
    MaxReceiptCount = 6
    MaxColdSyncParts = 4
    MaxDisconnects = 1
    MaxReloads = 1
    MaxWriteFailures = 1
    MaxRefusals = 0
    MaxSyncRefusals = 1
    MaxEarlyTimeouts = 1
CHECK_DEADLOCK FALSE
INVARIANTS
    SyncTypeOK
    OnlyDurableIsSent
    DurableEditIsKept
    SynchronizedIsSaved

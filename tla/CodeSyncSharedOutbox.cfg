SPECIFICATION SyncSpec
CONSTANTS
    seed = seed
    e1 = e1
    e2 = e2
    e3 = e3
    ta = ta
    tb = tb
    da = da
    db = db
    Op <- TwoEdits
    Seed <- MCSeed
    Deps <- Concurrent
    Deletes = {}
    Conflicts = {}
    Update <- MCUpdate
    Bytes <- MCBytes
    Key <- OneDeviceKeys
    Tab <- MCTab
    Device = {da}
    DeviceOf <- OneDevice
    Author <- TwoAuthors
    NoOp = NoOp
    CompactAfterUpdateCount = 2
    CompactAfterUpdateBytes = 4
    MaxUpdateLogCount = 3
    MaxWorkspaceBytes = 6
    MaxUpdateBytes = 6
    MaxReceiptCount = 6
    MaxColdSyncParts = 4
    MaxDisconnects = 0
    MaxReloads = 0
    MaxWriteFailures = 0
    MaxRefusals = 0
    MaxSyncRefusals = 0
    MaxEarlyTimeouts = 0
CHECK_DEADLOCK FALSE
INVARIANTS
    QuietTabsAgree

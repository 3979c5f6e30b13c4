SPECIFICATION FairSpec
CONSTANTS
    seed = seed
    e1 = e1
    e2 = e2
    e3 = e3
    ta = ta
    tb = tb
    da = da
    db = db
    Op <- ThreeEdits
    Seed <- MCSeed
    Deps <- Chain
    Deletes = {}
    Conflicts = {}
    Update <- MCUpdate
    Bytes <- MCBytes
    Key <- TwoDeviceKeys
    Tab <- MCTab
    Device = {da, db}
    DeviceOf <- TwoDevices
    Author <- TwoAuthors
    NoOp = NoOp
    CompactAfterUpdateCount = 2
    CompactAfterUpdateBytes = 4
    MaxUpdateLogCount = 3
    MaxWorkspaceBytes = 6
    MaxUpdateBytes = 6
    MaxReceiptCount = 6
    MaxColdSyncParts = 4
    MaxDisconnects = 1
    MaxReloads = 0
    MaxWriteFailures = 0
    MaxRefusals = 1
    MaxSyncRefusals = 0
    MaxEarlyTimeouts = 0
CHECK_DEADLOCK FALSE
INVARIANTS
    ServerSeesCauseFirst
    QuietTabsAgree
PROPERTIES
    OutboxDrains
    TabsCatchUp

SPECIFICATION FairSpec
CONSTANTS
    a = a
    b = b
    e1 = e1
    e2 = e2
    browser = browser
    Op <- Chain
    Deps <- ChainDeps
    Browser = {browser}
    Tab <- TwoTabs
    Home <- OneBrowser
    Author <- ByA
    Faulty = {a}
    MaxFaults = 1
CHECK_DEADLOCK FALSE
INVARIANTS
    BoardSyncTypeOK
    Converged
    StoresComplete
PROPERTIES
    RowOutlivesUpload
    OutboxDrains

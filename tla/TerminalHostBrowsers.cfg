SPECIFICATION HostSpec
CONSTANTS
    Socket = {s1, s2}
    Browser = {b1, b2}
    ActionId = {}
    Test = {t1}
    None = None
    MaxRemembered = 1
    MaxSeq = 0
    MaxEpoch = 3
    MaxRun = 3
    MaxActs = 3
    Faults = {"idle"}
CHECK_DEADLOCK FALSE
INVARIANTS
    HostTypeOK
PROPERTIES
    FilesBelongToTheRun
    NoFilesAfterReconnect

SPECIFICATION HostSpec
CONSTANTS
    Socket = {s1}
    Browser = {b1}
    ActionId = {}
    Test = {t1}
    None = None
    MaxRemembered = 1
    MaxSeq = 0
    MaxEpoch = 2
    MaxRun = 3
    MaxActs = 3
    Faults = {"risk", "long", "idle"}
CHECK_DEADLOCK FALSE
PROPERTIES
    StopEndsRun

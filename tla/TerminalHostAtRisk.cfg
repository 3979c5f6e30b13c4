SPECIFICATION HostSpec
CONSTANTS
    Socket = {s1}
    Browser = {b1}
    ActionId = {}
    Test = {t1}
    None = None
    MaxRemembered = 1
    MaxSeq = 0
    MaxEpoch = 2
    MaxRun = 2
    MaxActs = 2
    Faults = {"risk"}
CHECK_DEADLOCK FALSE
PROPERTIES
    StopAlwaysEndsRun

SPECIFICATION Spec
CONSTANTS
    Socket = {s1, s2}
    ActionId = {i1, i2}
    Test = {t1}
    None = None
    MaxRemembered = 1
    MaxSeq = 5
    MaxEpoch = 2
    MaxRun = 2
SYMMETRY Names
CHECK_DEADLOCK FALSE
INVARIANTS
    TypeOK
    ModeCoherent
    LeasesConnected
    RunsAreFresh
PROPERTIES
    ChangesArePublished
    RunsStayWithTheirHost
    RejectionChangesNothing

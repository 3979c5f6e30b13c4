SPECIFICATION Spec
CONSTANTS
    a = a
    b = b
    e1 = e1
    e2 = e2
    browser = browser
    Op <- Chain
    Deps <- ChainDeps
    Browser = {browser}
    Tab <- TwoTabs
    Home <- OneBrowser
    Author <- OneEach
    Faulty = {}
    MaxFaults = 0
CHECK_DEADLOCK FALSE
INVARIANTS
    GapRowIsRetried

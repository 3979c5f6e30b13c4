SPECIFICATION ServerSpec
CONSTANTS
    a1 = a1
    a2 = a2
    b = b
    c = c
    Op <- MCOp
    Deps <- MCDeps
    Illegal <- MCIllegal
    Update <- MCUpdate
    Message = {m1, m2, m3, m4}
    Actor = {u1, u2}
    MinUpdateCount = 2
SYMMETRY Messages
INVARIANTS
    EveryPrefixIntegrates
    CacheIsStored
    
PROPERTIES
    AnswersAreTrue
    KeepsPromise

SPECIFICATION FairSpec
CONSTANTS
    t1 = t1
    t2 = t2
    a = a
    b = b
    plain = plain
    cyclic = cyclic
    Threads = {t1, t2}
    Paths = {a, b}
    Texts = {plain, cyclic}
    Missing = Missing
    Imports <- MCImports
    Requests <- MCRequests
    Fails <- MCFails
    Wanted = {3}
    MaxCalls = 3
    MaxRefs = 4
INVARIANTS
    OneLiveGeneration
    EdgesAgree
    PhasesNeverNest
    AnswersAreFresh
    StuckNeedsCycle
PROPERTIES
    CallsReturn
    FailureStays
CHECK_DEADLOCK FALSE

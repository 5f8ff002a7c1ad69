SPECIFICATION ClassesSpec
CONSTANTS
    f1 = f1
    f2 = f2
    node = node
    object = object
    script = script
    T = T
    U = U
    show = show
    int = int
    str = str
    Threads = {t1, t2}
    Files = {f1, f2}
    Targets = {node, object, script}
    Natives = {node, object}
    Traits = {T, U}
    Methods = {show}
    Arguments = {int, str}
    NoArguments = NoArguments
    OnChain <- MCOnChain
    Versions <- MCVersions
    MaxAnalyses = 4
    Alphabets <- MCAlphabets
INVARIANTS
    TypeOK
    MembershipIsUnique
    WitnessIsUnique
    ChainsCohere
    BindingsAreJudged
    FinalsAreAssigned
    TwiceOnlyRoundLoops
    ValueIsReturned
    NarrowedReadsHold
CHECK_DEADLOCK FALSE

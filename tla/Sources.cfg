SPECIFICATION SourcesSpec
CONSTANTS
    lib = lib
    app = app
    t1 = t1
    good = good
    bad = bad
    Threads = {t1, t2}
    Paths = {lib, app}
    NoPath = NoPath
    Texts = {good, bad}
    NoText = NoText
    Drafts <- MCDrafts
    Outcome <- MCOutcome
    Affects <- MCAffects
    Observers <- MCObservers
    MaxCalls = 3
    Alphabets <- MCAlphabets
INVARIANTS
    RegistryFollowsClaims
    LastRefreshWins
    NestedGuardsRestore
    CodeIsSound
    OnlyVariablesRefer
PROPERTIES
    SupersededIsHarmless
    RunsTheText
CHECK_DEADLOCK FALSE

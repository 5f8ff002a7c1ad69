SPECIFICATION StoresSpec
CONSTANTS
    Threads = {t1, t2}
    Keepers = {k}
    Paths = {a, b}
    n1 = n1
    geo = geo
    Global = Global
    NoName = NoName
    NoRecord = NoRecord
    HeadNames <- MCNames
    Namespaces <- MCNamespaces
    Records <- MCRecords
    Faults = {"BAD_CHECKSUM"}
    MaxGeneration = 2
    w1 = w1
    w2 = w2
    w3 = w3
    editor = editor
    other = other
    Writers = {w1, w2, w3}
    Readers = {r}
    Processes = {editor, other}
    ProcessOf <- MCProcessOf
    Images = {x, y}
    NoFile = NoFile
    MaxFlushes = 3
    MaxCrashes = 1
INVARIANTS
    TypeOK
    TokenInv
    ObserversAreTold
    SFTypeOK
    StoreIsWhole
    NoLitter
PROPERTIES
    OlderNeverOverwrites
    RefinesTokens
    RefinesAtomicStore
CHECK_DEADLOCK FALSE

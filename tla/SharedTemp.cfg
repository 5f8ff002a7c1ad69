SPECIFICATION SFSpec
CONSTANTS
    w1 = w1
    w2 = w2
    w3 = w3
    editor = editor
    other = other
    Writers = {w1, w2, w3}
    Readers = {r}
    Processes = {editor, other}
    ProcessOf <- MCProcessOf
    Images = {x, y}
    NoFile = NoFile
    MaxFlushes = 3
    MaxCrashes = 1
INVARIANTS
    SharingIsHarmless
CHECK_DEADLOCK FALSE

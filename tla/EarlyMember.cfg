SPECIFICATION Spec
CONSTANTS
    Alphabets <- EarlyAlphabets
PROPERTIES
    RunsTheText
CHECK_DEADLOCK FALSE

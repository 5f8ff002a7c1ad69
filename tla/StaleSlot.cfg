SPECIFICATION Spec
CONSTANTS
    Alphabets <- StaleAlphabets
PROPERTIES
    RunsTheText
CHECK_DEADLOCK FALSE

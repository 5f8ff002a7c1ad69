SPECIFICATION Spec
CONSTANTS
    Alphabets <- OfInnerAssignments
INVARIANTS
    AssignmentClearsNarrowing
CHECK_DEADLOCK FALSE

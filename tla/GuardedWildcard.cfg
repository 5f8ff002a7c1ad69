SPECIFICATION Spec
CONSTANTS
    Alphabets <- OfGuardedArms
INVARIANTS
    ArmsNarrowRightly
CHECK_DEADLOCK FALSE

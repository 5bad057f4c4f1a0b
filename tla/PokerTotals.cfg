SPECIFICATION Spec
CONSTANTS
    None = None
    Profiles <- MCProfiles
    Multiples <- MCMultiples
    MaxRaises = 3
    MaxRecorded = 4
    LastStreet = "turn"
    Hands <- MCHands
INVARIANTS
    CompletedIsAccepted
CHECK_DEADLOCK FALSE

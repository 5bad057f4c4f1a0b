SPECIFICATION Spec
CONSTANTS
    None = None
    Profiles <- ShortProfiles
    Multiples <- ShortMultiples
    MaxRaises = 3
    MaxRecorded = 4
    LastStreet = "flop"
    Hands <- MCHands
INVARIANTS
    BandsAreValid
CHECK_DEADLOCK FALSE

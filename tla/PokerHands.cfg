SPECIFICATION Spec
CONSTANTS
    None = None
    Profiles <- MCProfiles
    Multiples <- MCMultiples
    MaxRaises = 3
    MaxRecorded = 4
    LastStreet = "turn"
    Hands <- MCHands
INVARIANTS
    ContextIsTrue
    AdviceIsLegal
    RangesFollowTheHand
    TrueHistoryIsAccepted
    WagersAreTrue
    TrueWagersAreAccepted
    AcceptedIsSolvable
CHECK_DEADLOCK FALSE

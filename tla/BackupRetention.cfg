\* Three runs in any order, each with or without --retain, and one loss of power.
CONSTANTS
    None = None
    Exporters <- Runs
    Earlier <- OldAndFuture
    Retains = {None, 1, 2}
    MaxOutages = 1
SPECIFICATION Spec
CHECK_DEADLOCK FALSE
INVARIANTS
    RetainedSurvive
    ReportedIsDurable

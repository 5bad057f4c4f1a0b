\* Three hands, and a process that may die inside any operation.
CONSTANTS
    None = None
    j1 = j1
    j2 = j2
    j3 = j3
    Jobs = {j1, j2, j3}
    MaxSaves = 5
    MaxDatasetCases = 1
SPECIFICATION Spec
CHECK_DEADLOCK FALSE
INVARIANTS
    TypeOK
    CorpusWithinLimit
PROPERTIES
    AppearsWithImage
    RestoreNeverOverwrites

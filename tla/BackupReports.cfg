\* A backup after a scored hand was deleted.
CONSTANTS
    None = None
    j1 = j1
    j2 = j2
    j3 = j3
    Jobs = {j1, j2}
    MaxSaves = 4
    MaxDatasetCases = 1
SPECIFICATION SteadySpec
CHECK_DEADLOCK FALSE
INVARIANTS
    ExportsParse

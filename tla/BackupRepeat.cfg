\* A restore repeated after the process died inside it.
CONSTANTS
    None = None
    j1 = j1
    j2 = j2
    j3 = j3
    Jobs = {j1, j2}
    MaxSaves = 4
    MaxDatasetCases = 1
SPECIFICATION Spec
CHECK_DEADLOCK FALSE
INVARIANTS
    RestoreCanBeRepeated

\* Three hands; writes of a restore may fail, the process lives.
CONSTANTS
    None = None
    j1 = j1
    j2 = j2
    j3 = j3
    Jobs = {j1, j2, j3}
    MaxSaves = 6
    MaxDatasetCases = 1
SPECIFICATION SteadySpec
CHECK_DEADLOCK FALSE
PROPERTIES
    ImplementsAtomicBackup

\* Three hands, a journaled import and direct ones, two interruptions.
CONSTANTS
    None = None
    s1 = s1
    s2 = s2
    j1 = j1
    j2 = j2
    j3 = j3
    r1 = r1
    r2 = r2
    Jobs = {j1, j2, j3}
    Solvers = {}
    States = {s1, s2}
    Decisions = {}
    Verdicts = {}
    Misses = {}
    RequestIds = {}
    ImportIds = {r1}
    Titles = {}
    AutoApprove = FALSE
    MaxDatasetCases = 2
    Datasets <- MCDatasets
    MaxInterruptions = 2
SPECIFICATION Spec
INVARIANTS
    TypeOK
    CorpusIsExportable
PROPERTIES
    ImportNeverOverwrites
    CompletedMeansImported
    ResumedUnlessRelabelled
    PendingImportEnds

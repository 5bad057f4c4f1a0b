\* One hand with everything that can happen to it, and two solver threads.
CONSTANTS
    None = None
    s1 = s1
    s2 = s2
    d1 = d1
    d2 = d2
    v1 = v1
    v2 = v2
    r1 = r1
    t1 = t1
    j1 = j1
    j2 = j2
    a = a
    b = b
    Jobs = {j1}
    Solvers = {a, b}
    States = {s1, s2}
    Decisions = {d1, d2}
    Verdicts = {v1, v2}
    Misses <- MCMisses
    RequestIds = {r1}
    ImportIds = {}
    Titles = {t1}
    AutoApprove = TRUE
    MaxDatasetCases = 1
SPECIFICATION Spec
INVARIANTS
    TypeOK
    PendingHasOneOwner
    ComparisonIsCurrent
    StatusMatchesRecord
PROPERTIES
    DeletedStaysDeleted
    CompletionsKeepUserEdits
    LateParserKeepsStatus
    ImplementsTrainingHand
    ActiveWorkEnds

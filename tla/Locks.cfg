\* Every handler against every other one, and three at once of those with several
\* locks; one thread that waits for flock and two handler threads.
CONSTANTS
    r1 = r1
    r2 = r2
    r3 = r3
    a = a
    b = b
    c = c
    Requests = {r1, r2, r3}
    Jobs = {a, b, c}
    Stripes = {1, 2}
    StripeOf <- MCStripeOf
    Workers = 1
    Tokens = 2
    Kinds = {"upload", "edit", "recommend", "include", "delete", "archive",
             "import", "import_journaled", "import_poll", "benchmark", "restore",
             "backup", "list", "get", "export_dataset", "cli_backup", "startup"}
    Crowd = {"delete", "archive", "import_journaled", "restore", "backup", "list",
             "cli_backup"}
SPECIFICATION MixedSpec
SYMMETRY Symmetry
CHECK_DEADLOCK FALSE
INVARIANTS
    ExportsSeeWholeRequests
    OneWriterPerHand
    ListsSeeWholeBatches
    CorpusMembersAreStable
    NoStandstill

SPECIFICATION ModeSpec
CONSTANTS
    r1 = r1
    r2 = r2
    r3 = r3
    b1 = b1
    None = None
    CallError = CallError
    MaxExtra = 1
    Reqs <- MCReqs
    Buckets <- MCBuckets
    Hash <- MCHash
    MaxItems = 2
    MaxRequestWorkers = 1
    Exec <- MCExec
    AnswersFor <- MCAnswersFor
    Ids = {"i1", "i2"}
    MaxInputs = 3
    Catalog <- MCCatalog
    Exotic = {"p4"}
    Claims <- MCClaims
    InitOffers <- MCInitOffers
    MaxCount = 1
    MaxAttempts = 2
    MaxEvents = 1
    Workloads = {"d1"}
    BatchJobs = {"j1"}
    MaxReplicas = 2
    MaxAudit = 4
    MaxMishaps = 1
SYMMETRY MCSymmetry
INVARIANTS
    FleetInv
    InstanceBatchInv
    LaunchInv
    ReplayInv
PROPERTIES
    AnswerKept
    LaunchIsRight
    RefusedIsNotAskedAgain
CHECK_DEADLOCK FALSE

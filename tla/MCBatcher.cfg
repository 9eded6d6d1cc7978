SPECIFICATION FairSpec
CONSTANTS
    r1 = r1
    r2 = r2
    r3 = r3
    b1 = b1
    b2 = b2
    None = None
    CallError = CallError
    Reqs <- MCReqs
    Buckets <- MCBuckets
    Hash <- MCHash
    MaxItems = 2
    MaxRequestWorkers = 2
    Exec <- MCExec
    AnswersFor <- MCAnswersFor
INVARIANTS
    BatcherInv
PROPERTIES
    BatcherLive
    ServiceSafety
CHECK_DEADLOCK FALSE

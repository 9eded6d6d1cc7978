SPECIFICATION Spec
CONSTANTS
    NoTemplate = NoTemplate
    NoEntry = NoEntry
    Janitor = Janitor
    Launches = {"l1", "l2"}
    Needs <- MCNeeds
    Earlier = {"n2"}
    MaxId = 3
    MaxForeign = 1
    Instances = {"i1", "i2"}
    Queries = {"q1"}
    Capacity = 1
    MaxClock = 1
    MaxOthers = 1
INVARIANTS
    TemplateInv
    ReservationInv
PROPERTIES
    NotDeletedInUse
    TemplatesSettle
    ReservationUsableAgain
CHECK_DEADLOCK FALSE

SPECIFICATION OfferingsSpec
CONSTANTS
    None = None
    Procs = {"p1"}
    Classes = {"class", "pgclass"}
    Signals <- MCSignals
    MaxMarks = 1
    AllOfferings <- MCAllOfferings
    SubnetsOf <- MCSubnetsOf
    PlacementGroup <- MCPlacementGroup
INVARIANTS
    ResultIsFresh

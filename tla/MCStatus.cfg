SPECIFICATION Spec
CONSTANTS
    PricedTypes = {"t", "m"}
    MetalTypes = {"m"}
    StaticTypes = {"t"}
    PriceZones = {"a", "b"}
    SteadyOffers <- MCSteadyOffers
    MaxPrice = 2
    MaxPricingEvents = 2
    Groups = {"g1", "g2"}
    Subnetworks = {"n1", "n2"}
    Reservations = {"r1"}
    Selections <- MCSelections
    MaxDriftEvents = 2
    NoInstance = NoInstance
INVARIANTS
    PricingInv
PROPERTIES
    PricingLive
    DriftIsJustified
    DriftLive
CHECK_DEADLOCK FALSE

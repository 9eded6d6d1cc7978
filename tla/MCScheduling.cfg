SPECIFICATION Spec
CONSTANTS
    None = None
    Procs = {"p1"}
    Classes = {"pgclass"}
    Signals <- MCSignals
    MaxMarks = 2
    AllOfferings <- MCAllOfferings
    SubnetsOf <- MCSubnetsOf
    PlacementGroup <- MCPlacementGroup
    KubeletFamilies <- MCKubeletFamilies
    KubeletConfigs <- MCKubeletConfigs
    Infos <- MCInfos
    ReservedENIs = 1
    MaxInt = 127
    MaxPodsLimit = 16
    MaxKubeletEvents = 1
INVARIANTS
    OfferingsInv
    KubeletInv
PROPERTIES
    OfferedAgain

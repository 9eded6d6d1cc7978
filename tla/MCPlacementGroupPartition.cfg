SPECIFICATION PlacementSpec
CONSTANTS
    Partitions = {1, 2}
    Requirements = {{1, 2}}
    MaxForgets = 2
INVARIANT
    PartitionIsAccurate
CHECK_DEADLOCK FALSE

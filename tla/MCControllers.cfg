SPECIFICATION Spec
CONSTANTS
  Subnets = {1, 2}
  SubnetZone <- MCSubnetZone
  c1 = c1
  c2 = c2
  l1 = l1
  l2 = l2
  Launches = {l1, l2}
  minPods <- MCMinPods
  Addresses = {0, 2, 3}
  Unknown = Unknown
  MaxSubnetEvents = 2
  HashClaims = {c1, c2}
  Specs = {1, 2}
  MaxHashEvents = 3
  Zones = {z1, z2}
  ReachableZones = {z1}
  ShiftHorizon = 1
  MaxShiftEvents = 3
  ReservedClaims = {c1, c2}
  Blocks = {c2}
  MaxSyncEvents = 2
  Partitions = {1, 2}
  Requirements = {{}, {1}, {2}}
  MaxForgets = 2
  Ids = {1, 2}
  ChunkSize = 1
  RetrySteps = 2
  MaxKwokEvents = 1
INVARIANTS
  PlacementInv
PROPERTIES
  SubnetContract
  HashContract
  ZonalShiftContract
  SyncContract
  KwokContract
CHECK_DEADLOCK FALSE

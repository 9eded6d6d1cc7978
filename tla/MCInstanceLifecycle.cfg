SPECIFICATION LifecycleSpec
CONSTANTS
  Claims = {c1}
  Instances = {i1, i2}
  None = None
  MaxEvents = 2
INVARIANTS
  LifecycleInv
PROPERTIES
  ShiftKeepsEntries
  LifecycleLive

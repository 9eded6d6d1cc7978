SPECIFICATION InterruptionSpec
CONSTANTS
  i1 = i1
  i2 = i2
  m1 = m1
  m2 = m2
  Instances = {i1, i2}
  Messages = {m1, m2}
  Scenarios <- MCScenarios
  Unlaunched = {i2}
  DrainBlocked = {i1}
  MaxEvents = 2
INVARIANTS
  InterruptionInv
PROPERTIES
  MarkedBeforeReplaced
  InterruptionLive
CHECK_DEADLOCK FALSE

SPECIFICATION Spec
CONSTANTS
  ClassSpecs = {"valid", "invalid", "terminal", "alias"}
  Found <- MCFound
  MaxReadyEvents = 2
  Variants = {"arm", "x86"}
  Images = {1, 2, 3}
  VariantOf <- MCVariantOf
  MaxAmiEvents = 3
  Listers = {"l1", "l2"}
  Memories = {1, 2}
  MaxTypeEvents = 2
PROPERTIES
  ReadyContract
  AmiContract
  TypesContract
CHECK_DEADLOCK FALSE

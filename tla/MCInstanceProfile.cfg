SPECIFICATION Spec
CONSTANTS
    Profiles = {p1, p2}
    Legacy = legacy
    Unmanaged = user
    Roles = {"role1", "path/role2"}
    BaseOf <- MCBaseOf
    InitRole = "role1"
    UserRole = "role2"
    Missing = {"role1"}
    Upgraded = {FALSE, TRUE}
    Claims = {c1}
    MaxEvents = 1
INVARIANTS
    ProfileInv
PROPERTIES
    FinalizedIsClean
    ProfileLive

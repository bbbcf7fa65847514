\* Every request at most two fields away from four good ones.
SPECIFICATION Spec
CONSTANTS
    Supplied <- AllSupplied
    Targets <- TwoTargets
    Offered <- AllOffered
    Profile <- Profiles
    DefaultRegion <- Regions
    Environments <- PlanEnvironments
    StateIds = {"s1", "s2"}
    Backends = {"b1", "b2"}
    MaxId = 5
    Wellformed = {1, 2, 3, 4}
    RegionOf <- ZoneRegions
    OfferedIds = {1}
    OfferedZones = {1, 2, 3, 4}
    OfferedKeys = {1}
    DefaultProfile = 1
INVARIANTS TypeOK WrittenIsReadable OnlyFrozen OnlyWhole SuppliedIsKept OneSource MadeNamesFit
CHECK_DEADLOCK FALSE

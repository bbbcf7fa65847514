\* A Classic target without the optional endpoints, operated later where one is set.
SPECIFICATION Spec
CONSTANTS
    Supplied <- ClassicOnly
    Targets <- TwoTargets
    Offered <- AllOffered
    Profile <- Profiles
    DefaultRegion <- Regions
    Environments <- LaterEnvironments
    StateIds = {"s1", "s2"}
    Backends = {"b1", "b2"}
    MaxId = 5
    Wellformed = {1, 2, 3, 4}
    RegionOf <- ZoneRegions
    OfferedIds = {1}
    OfferedZones = {1, 2, 3, 4}
    OfferedKeys = {1}
    DefaultProfile = 1
INVARIANT EndpointsAreFrozen
CHECK_DEADLOCK FALSE

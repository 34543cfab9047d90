SPECIFICATION Spec
CONSTANTS
    Objects <- MCObjects
    Packages <- MCPackages
    Gas = "gas"
    Wanted <- MCWanted
    Flavours <- MCFlavours
    OldEffects = TRUE
    PageSize = 1
    Timeout = 1
    Interval = 1
    MaxNow = 2
    MaxLog = 4
    MaxFaults = 1
PROPERTY KeepsAwait
CHECK_DEADLOCK FALSE

\* Two invocations at a time, three in all; one is killed.
SPECIFICATION Spec
CONSTANTS
    Procs = {p1, p2}
    Modules <- MCModules
    Requests <- MCRequests
    Versions = {1, 2}
    FrameworkVersion = 1
    LegacyModules <- MCLegacy
    LegacyRoutes <- MCLegacyRoutes
    MaxSessions = 3
    MaxCrashes = 1
CHECK_DEADLOCK FALSE
SYMMETRY Symmetry
INVARIANTS
    TypeOK
    ManifestHonest
    RoutesCompile
PROPERTIES
    NeverClobbers
    SuccessMeans

\* Three invocations one after another, neither killed: Add fails by itself.
SPECIFICATION Spec
CONSTANTS
    Procs = {p1}
    Modules <- MCModules
    Requests <- MCRequests
    Versions = {1, 2}
    FrameworkVersion = 1
    LegacyModules <- MCLegacy
    LegacyRoutes <- MCLegacyRoutes
    MaxSessions = 3
    MaxCrashes = 0
CHECK_DEADLOCK FALSE
INVARIANT
    AddInstallable

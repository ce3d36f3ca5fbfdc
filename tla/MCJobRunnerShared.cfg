\* Two Run calls share one Runner.
SPECIFICATION Spec
CONSTANTS
    Runs = {r1, r2}
    Jobs = {j1, j2}
    NoJob = NoJob
    Configs <- MCConfigs
    DefaultWorkers = 1
    MaxWorkers = 2
    DefaultIdleDelay = 1
    DefaultJobTimeout = 2
    MinJobTimeout = 1
    MaxJobTimeout = 4
INVARIANT
    HandleBound

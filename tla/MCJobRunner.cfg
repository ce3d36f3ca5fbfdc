\* Safety and liveness of one Run call with up to two workers.
SPECIFICATION LiveSpec
CONSTANTS
    Runs = {r1}
    Jobs = {j1, j2, j3}
    NoJob = NoJob
    Configs <- MCConfigs
    DefaultWorkers = 1
    MaxWorkers = 2
    DefaultIdleDelay = 1
    DefaultJobTimeout = 2
    MinJobTimeout = 1
    MaxJobTimeout = 4
INVARIANTS
    TypeOK
    ReturnHasCause
    NoJobDropped
    LateWorkBounded
PROPERTIES
    FirstErrorStands
    StopTerminates
    HandleEnds
    QueueDrains

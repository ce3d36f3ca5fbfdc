\* Two requests, every way to stop.
SPECIFICATION LiveSpec
CONSTANTS
    Requests = {r1, r2}
    ExitCodes <- MCExitCodes
    RenderTimeout = 1
    ShutdownTimeout = 3
    SupervisorDeadline = 2
    WorkerDeadline = 2
CHECK_DEADLOCK FALSE
INVARIANTS
    TypeOK
    ExitCodeHonest
    NoneLeftBehind
PROPERTIES
    PagesAnswered
    AnyEndStopsAll

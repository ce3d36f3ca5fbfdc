\* The supervisor cuts a request before the drain is over.
SPECIFICATION Spec
CONSTANTS
    Requests = {r1, r2}
    ExitCodes <- MCExitCodes
    RenderTimeout = 1
    ShutdownTimeout = 3
    SupervisorDeadline = 2
    WorkerDeadline = 2
CHECK_DEADLOCK FALSE
PROPERTY
    DrainHonoured

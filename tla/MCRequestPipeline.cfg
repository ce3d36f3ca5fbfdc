\* Handlers of up to four calls with statuses that are informational, final or
\* no status code at all.
SPECIFICATION Spec
CONSTANTS
    Chains <- MCChains
    Statuses = {0, 42, 101, 103, 204, 404}
    Writes = {0, 2}
    MaxCalls = 4
CHECK_DEADLOCK FALSE
INVARIANTS
    TypeOK
    StatusReported
    BodyReported
    PanicAnswered
    Answered

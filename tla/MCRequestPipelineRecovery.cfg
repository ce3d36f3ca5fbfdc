\* Handlers that pass WriteHeader an integer that is no status code, or that send
\* early hints before they panic.
SPECIFICATION Spec
CONSTANTS
    Chains <- MCChains
    Statuses = {42, 103, 404}
    Writes = {0, 2}
    MaxCalls = 2
CHECK_DEADLOCK FALSE
INVARIANT
    PanicRecovered

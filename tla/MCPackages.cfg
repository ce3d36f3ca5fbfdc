\* One decision of up to three grants, one call of AuthenticateSession, two
\* signatures and every header of up to three parts, and two callers of a
\* limiter with three keys and room for two (one by default).
SPECIFICATION Spec
CONSTANTS
    Features = {f1, f2}
    MaxUint = 3
    MaxGrants = 3
    GrantTimes = {0, 1, 2}
    Callers = {c1}
    Tokens = {t1, t2}
    MaxClock = 3
    s1 = s1
    s2 = s2
    b1 = b1
    b2 = b2
    Secrets = {s1, s2}
    Bodies = {b1, b2}
    SizeOf <- MCSizes
    Configs <- MCConfigs
    MaxSecrets = 2
    MaxAge = 2
    DefaultMaxAge = 1
    MaxBodyBytes = 2
    DefaultBody = 2
    MaxDuration = 4
    Clocks = {0, 2, 3, 5}
    FarStamp = 9
    MaxSignatures = 2
    MaxParts = 3
    MaxSigned = 2
    LimiterCallers = {g1, g2}
    Keys = {k1, k2, k3}
    NoKey = NoKey
    Policies <- MCPolicies
    DefaultWindow = 2
    MinWindow = 1
    MaxWindow = 4
    DefaultMaxKeys = 1
    MaxKeys = 2
    LimiterMaxClock = 5
SYMMETRY Symmetry
CHECK_DEADLOCK FALSE
INVARIANTS
    PackagesTypeOK
    DecisionExact
    AnswerOfAnInstant
    VerifiedExactly
    KeysBounded
PROPERTIES
    WindowBudget
    CapacityHonest
    WindowMovesForward

\* Three stream requests compete for two slots while events are published.
SPECIFICATION Spec
CONSTANTS
    Conns = {c1, c2, c3}
    Topics <- MCTopics
    MaxEvents = 2
    MaxClientsOption = 2
    DefaultMaxClients = 1
SYMMETRY Symmetry
INVARIANTS
    TypeOK
    NoPanic
    CapacityKept
    NothingLeaks
    TopicIsolation
PROPERTY
    ImplementsStream

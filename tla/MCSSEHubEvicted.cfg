\* One slot and two stream requests: an evicted stream is still being served.
SPECIFICATION Spec
CONSTANTS
    Conns = {c1, c2}
    Topics <- MCOneTopic
    MaxEvents = 2
    MaxClientsOption = 1
    DefaultMaxClients = 1
INVARIANT
    ClientsBounded

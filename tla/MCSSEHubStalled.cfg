\* One stream whose peer may stop reading.
SPECIFICATION FairSpec
CONSTANTS
    Conns = {c1}
    Topics <- MCOneTopic
    MaxEvents = 1
    MaxClientsOption = 1
    DefaultMaxClients = 1
PROPERTY
    StreamEnds

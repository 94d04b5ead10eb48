\* Two servers and two clients of every lab; two processes may be killed.
CONSTANTS
    Servers = {s1, s2}
    Clients = {c1, c2}
    NoServer = NoServer
    Labs <- AllLabs
    MaxKills = 2
SPECIFICATION FairSpec
\* The programs end, and a client may wait for ever.
CHECK_DEADLOCK FALSE
INVARIANTS
    TypeOK
    GarbageNeedsFault
PROPERTIES
    ConnectedClientEnds

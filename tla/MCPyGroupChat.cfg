\* Two clients, of which one says three things and the other two.
CONSTANTS
    c1 = c1
    c2 = c2
    Addrs <- TwoClients
    SockBuf = 2
    MaxSent <- Budget
    Threads <- AllThreads
    None = None
SPECIFICATION FairSpec
\* Everything may have been said.
CHECK_DEADLOCK FALSE
INVARIANTS
    TypeOK
    EnteredTwiceOnlyByRace
    HeardOncePerEntry
PROPERTIES
    LineReachesMembers

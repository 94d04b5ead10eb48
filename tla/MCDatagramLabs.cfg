\* Every exercise with two clients; two datagrams fill a socket, so that
\* datagrams queue behind each other and a third is lost.
CONSTANTS
    Clients = {c1, c2}
    Server = Server
    Labs <- AllLabs
    Buf = 2
SPECIFICATION FairSpec
\* The programs end, and a lost datagram may stop them for ever.
CHECK_DEADLOCK FALSE
INVARIANTS
    TypeOK
    StuckOnlyByLoss
    ByeEndsServer
PROPERTIES
    AskedIsAnswered

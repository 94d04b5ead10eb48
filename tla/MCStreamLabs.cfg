\* Every exercise with two clients; buffers hold one message, so that a write
\* often waits.
CONSTANTS
    Conns = {c1, c2}
    Labs <- AllLabs
    Buf = 1
SPECIFICATION FairSpec
\* The programs end, and a client may wait for ever.
CHECK_DEADLOCK FALSE
INVARIANTS
    TypeOK
    SpinsOnlyWithoutWord
    OneTurn
    InStep
PROPERTIES
    FallsByVanished
    WordEndsServer
    OwnWordLeaves

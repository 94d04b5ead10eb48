\* Two peers and buffers of two units, so that a recv may split "#END" itself.
CONSTANTS
    Units <- Halves
    Lines <- Typed
    Word <- TheWord
    Junk <- Another
    BUFFER_LEN = 2
    SockBuf = 3
    Quitters = {"client"}
SPECIFICATION FairSpec
\* Both processes may be gone: the system really stops.
CHECK_DEADLOCK FALSE
INVARIANTS
    TypeOK
    StopsOnlyAfterEnd
    JoinNeverWaits
PROPERTIES
    EndStopsThreads
    EndReachesPeer

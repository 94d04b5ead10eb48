\* The same instance: does "#END" end the process?
CONSTANTS
    Units <- Halves
    Lines <- Typed
    Word <- TheWord
    Junk <- Another
    BUFFER_LEN = 2
    SockBuf = 3
    Quitters = {"client"}
SPECIFICATION FairSpec
\* Both processes may be gone: the system really stops.
CHECK_DEADLOCK FALSE
PROPERTIES
    EndTerminates

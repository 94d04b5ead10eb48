\* Without a fault: what END does to the connection.
CONSTANTS
    Units = {"hi", "NUL"}
    Nul = "NUL"
    Lines <- OneLine
    FRAME = 2
    SockBuf = 2
    MaxLines = 1
    Faults = FALSE
SPECIFICATION FairSpec
\* Both parents may have ended, and the children wait for each other.
CHECK_DEADLOCK FALSE
PROPERTIES
    EndCloses

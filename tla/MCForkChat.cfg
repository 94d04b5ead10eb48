\* Two frames each way through buffers that hold one and a part of the next, with every fault.
CONSTANTS
    Units = {"hi", "NUL"}
    Nul = "NUL"
    Lines <- OneLine
    FRAME = 2
    SockBuf = 3
    MaxLines = 2
    Faults = TRUE
SPECIFICATION FairSpec
\* All four processes may have ended.
CHECK_DEADLOCK FALSE
INVARIANTS
    TypeOK
    RepeatsOnlyWhenAlone
PROPERTIES
    WrittenIsPrinted

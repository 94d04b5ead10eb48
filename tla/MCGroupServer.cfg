\* Three clients; two lines, or a line and an echo of a closed connection: safety.
CONSTANTS
    Clients = {a, b, c}
    NoClient = NoClient
    NoThread = NoThread
    Auth = Auth
    Stack = Stack
    MAX_NUM_CLIENT = 3
    SockBuf = 1
    Hangs = {}
    MaxLines = 2
    MaxEchoes = 1
SPECIFICATION Spec
SYMMETRY ClientSymmetry
CONSTRAINT FewShouts
\* The server may have died, or may wait for clients that say nothing more.
CHECK_DEADLOCK FALSE
INVARIANTS
    TypeOK
    GreetedFirst
    RightName
    EveryoneHeard
    OneOrder

\* One client more than the array holds.
CONSTANTS
    Clients = {a, b}
    NoClient = NoClient
    NoThread = NoThread
    Auth = Auth
    Stack = Stack
    MAX_NUM_CLIENT = 1
    SockBuf = 1
    Hangs = {}
    MaxLines = 2
    MaxEchoes = 1
SPECIFICATION Spec
SYMMETRY ClientSymmetry
\* The server may have died, or may wait for clients that say nothing more.
CHECK_DEADLOCK FALSE
INVARIANTS
    InBounds

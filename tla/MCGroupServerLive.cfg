\* Two clients, two lines and an echo: the server against the Room it implements; a shout
\* ends, and whoever connects is greeted, under fairness.
CONSTANTS
    Clients = {a, b}
    NoClient = NoClient
    NoThread = NoThread
    Auth = Auth
    Stack = Stack
    MAX_NUM_CLIENT = 2
    SockBuf = 1
    Hangs = {a}
    MaxLines = 2
    MaxEchoes = 1
SPECIFICATION FairSpec
\* The server may have died, or may wait for clients that say nothing more.
CHECK_DEADLOCK FALSE
PROPERTIES
    ImplementsRoom
    ShoutEnds
    ConnectedIsGreeted

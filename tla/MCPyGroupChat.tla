--------------------------- MODULE MCPyGroupChat ---------------------------
EXTENDS PyGroupChat
CONSTANTS c1, c2
TwoClients == {c1, c2}
\* c1 may say hello and two lines, c2 hello twice, or hello and a line.
Budget == [c \in TwoClients |-> IF c = c1 THEN 3 ELSE 2]
\* One thread more than there can be hellos.
AllThreads == 0..5
=============================================================================

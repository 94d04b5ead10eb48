------------------------------ MODULE Programs ------------------------------
(***************************************************************************)
(* The C programs of week0 from main to the end of their first exchange:   *)
(* the server and the client of one exercise, the lab, are each started    *)
(* several times on one host and one port.  Every program is a straight    *)
(* list of calls whose failure ends it, so a program is modelled as the    *)
(* sequence of its calls, its script, and a process walks along it; the    *)
(* two accept loops go back to "accept".  What a call does to the port and *)
(* to the connections is the kernel's part.  A chat ends here at "chat":   *)
(* Chat, ForkChat and GroupServer go on from there.                        *)
(***************************************************************************)
EXTENDS Integers, Sequences, SequencesExt

CONSTANTS
    Servers, Clients,  \* the processes that run the server and the client of the lab
    NoServer,          \* no server process
    Labs,              \* the labs to start, among the names of Lab
    MaxKills           \* how many processes may be killed

(* The calls that concern the process alone. *)
Local == {"args", "resolve", "socket", "reuse"}

Q1TcpServer == <<"args", "socket", "bind", "listen", "accept", "read", "reply", "exit">>
Q1TcpClient == <<"args", "socket", "resolve", "connect", "ask", "read_answer", "exit">>
Q1UdpServer == <<"args", "socket", "bind", "recv_hello", "send_greeting", "exit">>
Q1UdpClient == <<"args", "socket", "resolve", "send_hello", "recv_greeting", "exit">>
(* VARIANT: the socket is never bound. *)
Q2ServerUnbound == <<"args", "socket", "listen", "accept", "read", "reply", "exit">>
Q2Server == <<"args", "socket", "bind", "listen", "accept", "read", "reply", "exit">>
Q2Client == <<"args", "socket", "resolve", "connect", "ask_date", "read_answer", "exit">>
Q3Server == <<"args", "socket", "bind", "listen", "accept", "chat">>
Q3Client == <<"args", "socket", "resolve", "connect", "chat">>
SimpleServer == <<"resolve", "socket", "reuse", "bind", "listen", "accept", "fork">>
SimpleClient == <<"args", "resolve", "socket", "connect", "recv_answer", "exit">>
ChatServer == <<"resolve", "socket", "reuse", "bind", "listen", "accept", "chat">>
ChatClient == <<"args", "resolve", "socket", "connect", "chat">>
GroupServer == <<"resolve", "socket", "reuse", "bind", "listen", "accept", "spawn">>
GroupClient == <<"args", "resolve", "socket", "connect", "chat">>
UdpChatServer == <<"resolve", "socket", "reuse", "bind", "recvfrom", "chat">>
UdpChatClient == <<"args", "resolve", "socket", "sendto", "chat">>

Lab == [
    q1_tcp   |-> [server |-> Q1TcpServer,   client |-> Q1TcpClient],
    q1_udp   |-> [server |-> Q1UdpServer,   client |-> Q1UdpClient],
    q2       |-> [server |-> Q2Server,      client |-> Q2Client],
    q3       |-> [server |-> Q3Server,      client |-> Q3Client],
    simple   |-> [server |-> SimpleServer,  client |-> SimpleClient],
    chat     |-> [server |-> ChatServer,    client |-> ChatClient],
    group    |-> [server |-> GroupServer,   client |-> GroupClient],
    chat_udp |-> [server |-> UdpChatServer, client |-> UdpChatClient]]

ASSUME ProgramsAssumption ==
    /\ Servers \cap Clients = {}
    /\ NoServer \notin Servers
    /\ Labs \subseteq DOMAIN Lab
    /\ MaxKills \in Nat

Procs == Servers \cup Clients

VARIABLES
    lab,       \* the lab that is running
    pc, fate,  \* per process: the call of its script it is at, and how it ended
    bound,     \* the servers whose socket is bound to the port
    listener,  \* the server whose socket listens on the port
    queue,     \* the clients connected to that socket and not yet accepted
    link,      \* per client: its connection, or its datagrams
    kid,       \* per client: the forked child that answers it
    shown,     \* per client: what it printed
    mute,      \* the clients whose user had closed standard input (history)
    misfork,   \* a fork has failed (history)
    kills      \* how many processes were killed

net == <<bound, listener, queue, link, kid>>
vars == <<lab, pc, fate, bound, listener, queue, link, kid, shown, mute, misfork, kills>>

Links == [state : {"none", "queued", "open", "closed", "reset", "peer"},
          server : Servers \cup {NoServer}, request : BOOLEAN, answer : BOOLEAN]

TypeOK ==
    /\ lab \in Labs
    /\ pc \in [Procs -> 1..8]
    /\ fate \in [Procs -> {"running", "done", "failed", "killed"}]
    /\ bound \subseteq Servers
    /\ listener \in bound \cup {NoServer}
    /\ queue \in Seq(Clients)
    /\ link \in [Clients -> Links]
    /\ kid \in [Clients -> {"none", "start", "send", "gone"}]
    /\ shown \in [Clients -> {"nothing", "answer", "blank", "garbage"}]
    /\ mute \subseteq Clients
    /\ misfork \in BOOLEAN
    /\ kills \in 0..MaxKills

Init ==
    /\ lab \in Labs
    /\ pc = [p \in Procs |-> 1]
    /\ fate = [p \in Procs |-> "running"]
    /\ bound = {} /\ listener = NoServer /\ queue = <<>>
    /\ link = [c \in Clients |->
                  [state |-> "none", server |-> NoServer, request |-> FALSE, answer |-> FALSE]]
    /\ kid = [c \in Clients |-> "none"]
    /\ shown = [c \in Clients |-> "nothing"]
    /\ mute = {} /\ misfork = FALSE /\ kills = 0

Running(p) == fate[p] = "running"
Script(p) == IF p \in Servers THEN Lab[lab].server ELSE Lab[lab].client
At(p, call) == Running(p) /\ Script(p)[pc[p]] = call
Advance(p) == pc' = [pc EXCEPT ![p] = @ + 1]
GoTo(p, call) == pc' = [pc EXCEPT ![p] = SelectInSeq(Script(p), LAMBDA s : s = call)]
Reuses(s) == Contains(Script(s), "reuse")
Quiet == UNCHANGED <<lab, shown, mute, misfork, kills>>

-----------------------------------------------------------------------------
(* The kernel *)

(* A listening socket outlives its process in a child that has not closed  *)
(* its copy.  c is a child that is closing it now.                         *)
Holders(s, c) == {d \in Clients \ {c} : kid[d] = "start" /\ link[d].server = s}

(* The socket of server s is closed everywhere: whoever is still in its    *)
(* queue is reset.                                                         *)
Release(s, links) ==
    /\ bound' = bound \ {s}
    /\ listener' = IF listener = s THEN NoServer ELSE listener
    /\ queue' = IF listener = s THEN <<>> ELSE queue
    /\ link' = [c \in Clients |->
                   IF links[c].server = s /\ links[c].state = "queued"
                   THEN [links[c] EXCEPT !.state = "reset"] ELSE links[c]]

(* What is left of the connection of c to server s when s closes it: what  *)
(* s had not read resets it.  A datagram nobody will read is lost.         *)
Dropped(s, c) ==
    LET l == link[c] IN
    IF l.server # s \/ kid[c] \in {"start", "send"} THEN l
    ELSE IF l.state = "none" THEN [l EXCEPT !.request = FALSE]
    ELSE IF l.state = "open" THEN [l EXCEPT !.state = IF l.request THEN "reset" ELSE "closed"]
    ELSE l

(* A process ends and its descriptors are closed. *)
End(p, how) ==
    /\ fate' = [fate EXCEPT ![p] = how]
    /\ IF p \in Clients THEN UNCHANGED net
       ELSE /\ UNCHANGED kid
            /\ LET links == [c \in Clients |-> Dropped(p, c)] IN
               IF \E c \in Clients : kid[c] = "start" /\ link[c].server = p
               THEN link' = links /\ UNCHANGED <<bound, listener, queue>>
               ELSE Release(p, links)
    /\ UNCHANGED pc

Fail(p) == End(p, "failed")

-----------------------------------------------------------------------------
(* Start-up *)

(* The calls before the first one that concerns others: they all succeed,  *)
(* or one of them ends the program.                                        *)
Setup(p) ==
    /\ Running(p) /\ pc[p] = 1
    /\ \/ /\ pc' = [pc EXCEPT ![p] = SelectInSeq(Script(p), LAMBDA s : s \notin Local)]
          /\ UNCHANGED <<fate, net>>
       \/ Fail(p)
    /\ Quiet

(* Sockets that all set SO_REUSEADDR share the port until one listens.     *)
(* Without it a connection the server side closed first also holds the     *)
(* port, for the time of TIME_WAIT.                                        *)
Bind(s) ==
    /\ At(s, "bind")
    /\ \/ /\ listener = NoServer
          /\ Reuses(s) \/ bound = {}
          /\ bound' = bound \cup {s}
          /\ Advance(s)
          /\ UNCHANGED <<fate, listener, queue, link, kid>>
       \/ /\ \/ listener # NoServer
             \/ ~Reuses(s) /\ (bound # {} \/ \E c \in Clients : link[c].state = "closed")
          /\ Fail(s)
    /\ Quiet

(* listen fails when another socket listens on the port, and nobody looks: *)
(* the beej servers test the result of bind again.                         *)
Listen(s) ==
    /\ At(s, "listen")
    /\ listener' = IF listener = NoServer THEN s ELSE listener
    /\ Advance(s)
    /\ UNCHANGED <<fate, bound, queue, link, kid>> /\ Quiet

(* The listening socket completes the connection by itself.                *)
Connect(c) ==
    /\ At(c, "connect")
    /\ IF listener = NoServer THEN Fail(c)
       ELSE /\ link' = [link EXCEPT ![c].state = "queued", ![c].server = listener]
            /\ queue' = Append(queue, c)
            /\ Advance(c)
            /\ UNCHANGED <<fate, bound, listener, kid>>
    /\ Quiet

(* accept fails on a socket that does not listen. *)
Accept(s) ==
    /\ At(s, "accept")
    /\ IF listener # s THEN Fail(s)
       ELSE /\ queue # <<>>
            /\ link' = [link EXCEPT ![Head(queue)].state = "open"]
            /\ queue' = Tail(queue)
            /\ Advance(s)
            /\ UNCHANGED <<fate, bound, listener, kid>>
    /\ Quiet

(* The group server enters and greets the client and starts its thread.    *)
Spawn(s) ==
    /\ At(s, "spawn")
    /\ GoTo(s, "accept")
    /\ UNCHANGED <<fate, net>> /\ Quiet

-----------------------------------------------------------------------------
(* q1 and q2 over TCP: one request, one reply, and the server returns *)

Accepted(s) == {c \in Clients : link[c].server = s /\ link[c].state = "open" /\ kid[c] = "none"}

(* read also returns, with 0, when the client is gone: the server goes on. *)
Read(s) ==
    /\ At(s, "read")
    /\ \E c \in Accepted(s) :
          /\ link[c].request \/ ~Running(c)
          /\ link' = [link EXCEPT ![c].request = FALSE]
    /\ Advance(s)
    /\ UNCHANGED <<fate, bound, listener, queue, kid>> /\ Quiet

Reply(s) ==
    /\ At(s, "reply")
    /\ \E c \in Accepted(s) : link' = [link EXCEPT ![c].answer = TRUE]
    /\ Advance(s)
    /\ UNCHANGED <<fate, bound, listener, queue, kid>> /\ Quiet

Exit(p) ==
    /\ At(p, "exit")
    /\ End(p, "done") /\ Quiet

(* A write is an error on a connection that was reset, and resets one that *)
(* the server has closed.                                                  *)
Write(c) ==
    IF link[c].state = "reset" THEN Fail(c)
    ELSE /\ link' = [link EXCEPT ![c].request = (link[c].state # "closed"),
                                 ![c].state = IF @ = "closed" THEN "reset" ELSE @]
         /\ Advance(c)
         /\ UNCHANGED <<fate, bound, listener, queue, kid>>

(* q1 sends the line its user types. *)
Ask(c) ==
    /\ At(c, "ask")
    /\ Write(c)
    /\ Quiet

(* With standard input closed strlen(buffer) is 0 and nothing is sent.     *)
AskNothing(c) ==
    /\ At(c, "ask") /\ link[c].state # "reset"
    /\ mute' = mute \cup {c}
    /\ Advance(c)
    /\ UNCHANGED <<lab, fate, net, shown, misfork, kills>>

(* q2 always has a request. *)
AskDate(c) ==
    /\ At(c, "ask_date")
    /\ Write(c)
    /\ Quiet

(* The answer, also when a reset followed it; the end of the stream, which *)
(* prints a cleared buffer in q1 and q2 and an uninitialised one in        *)
(* simple; or an error.                                                    *)
Receive(c) ==
    /\ At(c, "read_answer") \/ At(c, "recv_answer")
    /\ IF link[c].answer \/ link[c].state = "closed"
       THEN /\ shown' = [shown EXCEPT ![c] =
                   IF link[c].answer THEN "answer"
                   ELSE IF At(c, "recv_answer") THEN "garbage" ELSE "blank"]
            /\ Advance(c)
            /\ UNCHANGED <<fate, net>>
       ELSE /\ link[c].state = "reset"
            /\ Fail(c)
            /\ UNCHANGED shown
    /\ UNCHANGED <<lab, mute, misfork, kills>>

-----------------------------------------------------------------------------
(* simple: a child answers every client *)

(* VARIANT: the parent closes the connection only after a fork that worked. *)
ForkKeeps(s) ==
    /\ At(s, "fork")
    /\ \E c \in Accepted(s) :
          \/ /\ kid' = [kid EXCEPT ![c] = "start"]
             /\ UNCHANGED misfork
          \/ /\ misfork' = TRUE
             /\ UNCHANGED kid
    /\ GoTo(s, "accept")
    /\ UNCHANGED <<lab, fate, bound, listener, queue, link, shown, mute, kills>>

(* fork, and the parent's close of the connection.  A failed fork returns  *)
(* -1, which is not 0: the client is dropped.                              *)
Fork(s) ==
    /\ At(s, "fork")
    /\ \E c \in Accepted(s) :
          \/ /\ kid' = [kid EXCEPT ![c] = "start"]
             /\ UNCHANGED <<link, misfork>>
          \/ /\ link' = [link EXCEPT ![c].state = "closed"]
             /\ misfork' = TRUE
             /\ UNCHANGED kid
    /\ GoTo(s, "accept")
    /\ UNCHANGED <<lab, fate, bound, listener, queue, shown, mute, kills>>

(* The child closes its copy of the listening socket. *)
KidClose(c) ==
    /\ kid[c] = "start"
    /\ kid' = [kid EXCEPT ![c] = "send"]
    /\ LET s == link[c].server IN
       IF Running(s) \/ Holders(s, c) # {} THEN UNCHANGED <<bound, listener, queue, link>>
       ELSE Release(s, link)
    /\ UNCHANGED <<pc, fate>> /\ Quiet

(* VARIANT: the child exits without its send. *)
KidSendNothing(c) ==
    /\ kid[c] = "send"
    /\ kid' = [kid EXCEPT ![c] = "gone"]
    /\ link' = [link EXCEPT ![c].state = "closed"]
    /\ UNCHANGED <<pc, fate, bound, listener, queue>> /\ Quiet

(* It sends its greeting and exits; nobody waits for it. *)
KidSend(c) ==
    /\ kid[c] = "send"
    /\ kid' = [kid EXCEPT ![c] = "gone"]
    /\ link' = [link EXCEPT ![c].answer = TRUE, ![c].state = "closed"]
    /\ UNCHANGED <<pc, fate, bound, listener, queue>> /\ Quiet

-----------------------------------------------------------------------------
(* q1 over UDP: a hello, a greeting, either of which may be lost *)

SendHello(c) ==
    /\ At(c, "send_hello")
    /\ \/ UNCHANGED link
       \/ \E s \in bound :
             link' = [link EXCEPT ![c].server = s, ![c].request = TRUE]
    /\ Advance(c)
    /\ UNCHANGED <<fate, bound, listener, queue, kid>> /\ Quiet

(* Whichever hello comes first is the only one: it fills in cli_addr.      *)
RecvHello(s) ==
    /\ At(s, "recv_hello")
    /\ \E c \in Clients :
          /\ link[c].server = s /\ link[c].request
          /\ link' = [link EXCEPT ![c].request = FALSE, ![c].state = "peer"]
    /\ Advance(s)
    /\ UNCHANGED <<fate, bound, listener, queue, kid>> /\ Quiet

SendGreeting(s) ==
    /\ At(s, "send_greeting")
    /\ \E c \in Clients :
          /\ link[c].server = s /\ link[c].state = "peer"
          /\ \/ link' = [link EXCEPT ![c].answer = TRUE]
             \/ UNCHANGED link
    /\ Advance(s)
    /\ UNCHANGED <<fate, bound, listener, queue, kid>> /\ Quiet

(* servlen is not initialised: a negative one makes recvfrom fail.         *)
RecvGreeting(c) ==
    /\ At(c, "recv_greeting")
    /\ link[c].answer
    /\ \/ /\ shown' = [shown EXCEPT ![c] = "answer"]
          /\ Advance(c)
          /\ UNCHANGED <<fate, net>>
       \/ Fail(c) /\ UNCHANGED shown
    /\ UNCHANGED <<lab, mute, misfork, kills>>

(* The UDP chat asks for SOCK_STREAM: sendto and recvfrom on a stream      *)
(* socket that is not connected are errors (the first may raise SIGPIPE).  *)
Unconnected(p) ==
    /\ At(p, "sendto") \/ At(p, "recvfrom")
    /\ Fail(p) /\ Quiet

-----------------------------------------------------------------------------
Kill(p) ==
    /\ Running(p) /\ kills < MaxKills
    /\ End(p, "killed")
    /\ kills' = kills + 1
    /\ UNCHANGED <<lab, shown, mute, misfork>>

Server(s) ==
    \/ Setup(s) \/ Bind(s) \/ Listen(s) \/ Accept(s) \/ Spawn(s) \/ Read(s) \/ Reply(s)
    \/ Exit(s) \/ Fork(s) \/ RecvHello(s) \/ SendGreeting(s) \/ Unconnected(s)
Client(c) ==
    \/ Setup(c) \/ Connect(c) \/ Ask(c) \/ AskNothing(c) \/ AskDate(c) \/ Receive(c)
    \/ Exit(c) \/ SendHello(c) \/ RecvGreeting(c) \/ Unconnected(c)
Kid(c) == KidClose(c) \/ KidSend(c)

Next ==
    \/ \E s \in Servers : Server(s)
    \/ \E c \in Clients : Client(c) \/ Kid(c)
    \/ \E p \in Procs : Kill(p)

(* Every process that can take a step does, and a user who is prompted     *)
(* types a line or has closed standard input.                              *)
Fairness ==
    /\ \A s \in Servers : WF_vars(Server(s))
    /\ \A c \in Clients : WF_vars(Client(c)) /\ WF_vars(Kid(c))

Spec == Init /\ [][Next]_vars
FairSpec == Spec /\ Fairness
-----------------------------------------------------------------------------
(* Properties *)

(* A client prints what nobody has sent only after a fault.  The clients   *)
(* take the end of the stream, where recv and read return 0, for an        *)
(* answer.  simple/client.c prints an uninitialised buffer only if a fork  *)
(* has failed or the server was killed between accept and fork: no order   *)
(* of the child's send and exit, the parent's close, and the client's recv *)
(* does it.  q1 and q2 print a cleared one only if a server was killed: a  *)
(* server that runs to its end has answered the client it accepted, and    *)
(* whoever waits in its queue is reset, which is an error.                 *)
GarbageNeedsFault ==
    \A c \in Clients : /\ shown[c] = "garbage" => misfork \/ kills > 0
                       /\ shown[c] = "blank" => kills > 0

(* Every TCP client of q1, q2 and simple that was connected ends, whether  *)
(* answered, dropped from the queue, or cut off by a server that ended,    *)
(* unless a user who closed standard input keeps the only server waiting.  *)
ConnectedClientEnds ==
    \A c \in Clients :
        link[c].state = "queued" ~> (~Running(c) \/ At(c, "chat") \/ mute # {})
=============================================================================

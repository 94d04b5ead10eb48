--------------------------- MODULE ProgramsProofs ---------------------------
(***************************************************************************)
(* Machine-checked proofs about Programs, for every set of servers and     *)
(* clients, every choice among the labs and every number of kills.  The    *)
(* argument of the theorem about what is printed: a client that waits      *)
(* in the queue is reset, never closed (Queued); a connection is closed    *)
(* without an answer only by a server that dies of a kill or by a fork     *)
(* that fails (Closing), because a server of q1 or q2 ends with an answer  *)
(* to the only client it has accepted (Serving), a child sends before it   *)
(* ends (Kids), and a server that fails on its way has no client yet       *)
(* (Listening, Linked).                                                    *)
(***************************************************************************)
EXTENDS Programs, SequenceTheorems, TLAPS

(* The scripts. *)
ServerScripts == {Q1TcpServer, Q1UdpServer, Q2Server, Q3Server, SimpleServer, ChatServer,
                  GroupServer, UdpChatServer}
ClientScripts == {Q1TcpClient, Q1UdpClient, Q2Client, Q3Client, SimpleClient, ChatClient,
                  GroupClient, UdpChatClient}
LastCalls == {"exit", "chat", "fork", "spawn"}
Indices(S) == 1..Len(S)
OneShot == lab \in {"q1_tcp", "q2"}

LEMMA LabNames ==
    TypeOK => lab \in {"q1_tcp", "q1_udp", "q2", "q3", "simple", "chat", "group", "chat_udp"}
  BY ProgramsAssumption DEF TypeOK, Lab

LEMMA Scripts ==
    ASSUME TypeOK, NEW p \in Procs
    PROVE  /\ p \in Servers => Script(p) \in ServerScripts
           /\ p \in Clients => Script(p) \in ClientScripts /\ p \notin Servers
  <1>1. p \in Clients => p \notin Servers
    BY ProgramsAssumption
  <1>2. Lab[lab].server \in ServerScripts
    <2>1. CASE lab = "q1_tcp"
      BY <2>1 DEF Lab, ServerScripts
    <2>2. CASE lab = "q1_udp"
      BY <2>2 DEF Lab, ServerScripts
    <2>3. CASE lab = "q2"
      BY <2>3 DEF Lab, ServerScripts
    <2>4. CASE lab = "q3"
      BY <2>4 DEF Lab, ServerScripts
    <2>5. CASE lab = "simple"
      BY <2>5 DEF Lab, ServerScripts
    <2>6. CASE lab = "chat"
      BY <2>6 DEF Lab, ServerScripts
    <2>7. CASE lab = "group"
      BY <2>7 DEF Lab, ServerScripts
    <2>8. CASE lab = "chat_udp"
      BY <2>8 DEF Lab, ServerScripts
    <2>9. QED
      BY <2>1, <2>2, <2>3, <2>4, <2>5, <2>6, <2>7, <2>8, LabNames
  <1>3. Lab[lab].client \in ClientScripts
    <2>1. CASE lab = "q1_tcp"
      BY <2>1 DEF Lab, ClientScripts
    <2>2. CASE lab = "q1_udp"
      BY <2>2 DEF Lab, ClientScripts
    <2>3. CASE lab = "q2"
      BY <2>3 DEF Lab, ClientScripts
    <2>4. CASE lab = "q3"
      BY <2>4 DEF Lab, ClientScripts
    <2>5. CASE lab = "simple"
      BY <2>5 DEF Lab, ClientScripts
    <2>6. CASE lab = "chat"
      BY <2>6 DEF Lab, ClientScripts
    <2>7. CASE lab = "group"
      BY <2>7 DEF Lab, ClientScripts
    <2>8. CASE lab = "chat_udp"
      BY <2>8 DEF Lab, ClientScripts
    <2>9. QED
      BY <2>1, <2>2, <2>3, <2>4, <2>5, <2>6, <2>7, <2>8, LabNames
  <1>4. QED
    BY <1>1, <1>2, <1>3 DEF Script

(* What holds of every server's script. *)
ServerFacts(S) ==
    /\ Len(S) \in 5..8
    /\ S[1] \in Local
    /\ \A k \in Indices(S) : S[k] \notin LastCalls => k + 1 \in Indices(S)
    /\ \A k \in Indices(S) : S[k] \notin LastCalls \cup Local \cup {"bind"} =>
           S[k + 1] \notin Local \cup {"bind", "listen"}
LEMMA ServerCalls == \A S \in ServerScripts : ServerFacts(S)
  <1>1. ServerFacts(Q1TcpServer) /\ ServerFacts(Q2Server)
    BY DEF ServerFacts, Indices, LastCalls, Local, Q1TcpServer, Q2Server
  <1>2. ServerFacts(Q1UdpServer)
    BY DEF ServerFacts, Indices, LastCalls, Local, Q1UdpServer
  <1>3. ServerFacts(Q3Server)
    BY DEF ServerFacts, Indices, LastCalls, Local, Q3Server
  <1>4. ServerFacts(SimpleServer)
    BY DEF ServerFacts, Indices, LastCalls, Local, SimpleServer
  <1>5. ServerFacts(ChatServer)
    BY DEF ServerFacts, Indices, LastCalls, Local, ChatServer
  <1>6. ServerFacts(GroupServer)
    BY DEF ServerFacts, Indices, LastCalls, Local, GroupServer
  <1>7. ServerFacts(UdpChatServer)
    BY DEF ServerFacts, Indices, LastCalls, Local, UdpChatServer
  <1>8. QED
    BY <1>1, <1>2, <1>3, <1>4, <1>5, <1>6, <1>7 DEF ServerScripts

LEMMA MinFacts ==
    ASSUME NEW S \in SUBSET (1..8), S # {}
    PROVE  Min(S) \in S /\ \A y \in S : Min(S) <= y
  <1>1. 1..8 = {1, 2, 3, 4, 5, 6, 7, 8}
    OBVIOUS
  <1>2. \E x \in S : \A y \in S : x <= y
    <2>1. CASE 1 \in S
      BY <2>1
    <2>2. CASE 1 \notin S /\ 2 \in S
      BY <2>2
    <2>3. CASE 1 \notin S /\ 2 \notin S /\ 3 \in S
      BY <2>3
    <2>4. CASE S \subseteq {4, 5, 6, 7, 8} /\ 4 \in S
      BY <2>4
    <2>5. CASE S \subseteq {5, 6, 7, 8} /\ 5 \in S
      BY <2>5
    <2>6. CASE S \subseteq {6, 7, 8} /\ 6 \in S
      BY <2>6
    <2>7. CASE S \subseteq {7, 8} /\ 7 \in S
      BY <2>7
    <2>8. CASE S = {8}
      BY <2>8
    <2>9. QED
      BY <1>1, <2>1, <2>2, <2>3, <2>4, <2>5, <2>6, <2>7, <2>8
  <1>3. QED
    BY <1>2 DEF Min

(* The first call of a server that concerns others is bind. *)
FirstBind(S) ==
    \E b \in Indices(S) : S[b] = "bind" /\ \A k \in 1..(b - 1) : S[k] \in Local
LEMMA BindFirst == \A S \in ServerScripts : FirstBind(S)
  <1>1. FirstBind(Q1TcpServer) /\ FirstBind(Q2Server)
    BY DEF FirstBind, Indices, Local, Q1TcpServer, Q2Server
  <1>2. FirstBind(Q1UdpServer)
    BY DEF FirstBind, Indices, Local, Q1UdpServer
  <1>3. FirstBind(Q3Server)
    BY DEF FirstBind, Indices, Local, Q3Server
  <1>4. FirstBind(SimpleServer)
    BY DEF FirstBind, Indices, Local, SimpleServer
  <1>5. FirstBind(ChatServer) /\ FirstBind(GroupServer)
    BY DEF FirstBind, Indices, Local, ChatServer, GroupServer
  <1>6. FirstBind(UdpChatServer)
    BY DEF FirstBind, Indices, Local, UdpChatServer
  <1>7. QED
    BY <1>1, <1>2, <1>3, <1>4, <1>5, <1>6 DEF ServerScripts
LEMMA ServerSetup ==
    ASSUME NEW S \in ServerScripts, NEW n, n = SelectInSeq(S, LAMBDA s : s \notin Local)
    PROVE  n \in Indices(S) /\ S[n] = "bind"
  <1> DEFINE I == {k \in 1..Len(S) : S[k] \notin Local}
  <1>1. Len(S) \in 5..8
    BY ServerCalls DEF ServerFacts
  <1>2. PICK b \in Indices(S) : S[b] = "bind" /\ \A k \in 1..(b - 1) : S[k] \in Local
    BY BindFirst DEF FirstBind
  <1>3. b \in I /\ I \in SUBSET (1..8)
    BY <1>1, <1>2 DEF Indices, Local
  <1>4. n = Min(I)
    BY <1>3 DEF SelectInSeq
  <1>5. n \in I /\ n <= b
    BY <1>3, <1>4, MinFacts
  <1>6. n \notin 1..(b - 1)
    BY <1>2, <1>5
  <1>7. n = b
    BY <1>2, <1>5, <1>6 DEF Indices
  <1>8. QED
    BY <1>2, <1>7

(* After an accepted client has been passed on, the server accepts again.  *)
LEMMA BackToAccept ==
    ASSUME NEW S \in ServerScripts, NEW k \in Indices(S), S[k] \in {"fork", "spawn"},
           NEW n, n = SelectInSeq(S, LAMBDA s : s = "accept")
    PROVE  n \in Indices(S) /\ S[n] = "accept"
  <1> DEFINE I == {l \in 1..Len(S) : S[l] = "accept"}
  <1>1. Len(S) \in 5..8
    BY ServerCalls DEF ServerFacts
  <1>2. S = SimpleServer \/ S = GroupServer
    BY DEF ServerScripts, Indices, Q1TcpServer, Q1UdpServer, Q2Server, Q3Server, ChatServer,
           UdpChatServer
  <1>3. 6 \in I
    BY <1>2 DEF SimpleServer, GroupServer
  <1>4. I \in SUBSET (1..8)
    BY <1>1
  <1>5. n = Min(I)
    BY <1>3 DEF SelectInSeq
  <1>6. n \in I
    BY <1>3, <1>4, <1>5, MinFacts
  <1>7. QED
    BY <1>6 DEF Indices

(* What holds of every client's script. *)
ClientFacts(S) ==
    /\ Len(S) \in 5..8
    /\ S[1] \in Local
    /\ \A k \in Indices(S) : S[k] \notin LastCalls => k + 1 \in Indices(S)
    /\ \A k \in Indices(S) : S[k] \notin LastCalls \cup Local =>
           S[k + 1] \notin Local \cup {"connect", "send_hello"}
    /\ \A k \in Indices(S) : S[k] \notin {"fork", "spawn"}
LEMMA ClientCalls == \A S \in ClientScripts : ClientFacts(S)
  <1>1. ClientFacts(Q1TcpClient)
    BY DEF ClientFacts, Indices, LastCalls, Local, Q1TcpClient
  <1>2. ClientFacts(Q1UdpClient)
    BY DEF ClientFacts, Indices, LastCalls, Local, Q1UdpClient
  <1>3. ClientFacts(Q2Client)
    BY DEF ClientFacts, Indices, LastCalls, Local, Q2Client
  <1>4. ClientFacts(Q3Client)
    BY DEF ClientFacts, Indices, LastCalls, Local, Q3Client
  <1>5. ClientFacts(SimpleClient)
    BY DEF ClientFacts, Indices, LastCalls, Local, SimpleClient
  <1>6. ClientFacts(ChatClient) /\ ClientFacts(GroupClient)
    BY DEF ClientFacts, Indices, LastCalls, Local, ChatClient, GroupClient
  <1>7. ClientFacts(UdpChatClient)
    BY DEF ClientFacts, Indices, LastCalls, Local, UdpChatClient
  <1>8. QED
    BY <1>1, <1>2, <1>3, <1>4, <1>5, <1>6, <1>7 DEF ClientScripts
LEMMA ClientSetup ==
    ASSUME NEW S \in ClientScripts, NEW n, n = SelectInSeq(S, LAMBDA s : s \notin Local)
    PROVE  n \in Indices(S)
  <1> DEFINE I == {k \in 1..Len(S) : S[k] \notin Local}
  <1>1. Len(S) \in 5..8
    BY ClientCalls DEF ClientFacts
  <1>2. 4 \in I
    BY <1>1 DEF ClientScripts, Local, Q1TcpClient, Q1UdpClient, Q2Client, Q3Client, SimpleClient,
                ChatClient, GroupClient, UdpChatClient
  <1>3. I \in SUBSET (1..8)
    BY <1>1
  <1>4. n = Min(I)
    BY <1>2 DEF SelectInSeq
  <1>5. n \in I
    BY <1>2, <1>3, <1>4, MinFacts
  <1>6. QED
    BY <1>5 DEF Indices

-----------------------------------------------------------------------------
(* The invariants.  Everybody is somewhere in its script. *)
Call(p) == Script(p)[pc[p]]
InScript == \A p \in Procs : pc[p] \in Indices(Script(p))

(* A server that is past its bind is bound, and one that listens is past   *)
(* its listen.                                                             *)
Ready == \A s \in Servers : Running(s) /\ Call(s) \notin Local \cup {"bind"} => s \in bound
Listening ==
    \A s \in Servers :
        Running(s) /\ listener = s => Call(s) \notin Local \cup {"bind", "listen"}

(* A connection to a server that runs is one to the server that listens.   *)
Linked ==
    lab # "q1_udp" =>
        \A c \in Clients, s \in Servers : link[c].server = s /\ Running(s) => listener = s

(* A client that has called nobody has no connection. *)
NoLink == [state |-> "none", server |-> NoServer, request |-> FALSE, answer |-> FALSE]
Fresh ==
    \A c \in Clients :
        Running(c) /\ Call(c) \in Local \cup {"connect", "send_hello"} => link[c] = NoLink

(* Only simple forks; a child keeps its connection open. *)
Kids ==
    \A c \in Clients : /\ kid[c] # "none" => lab = "simple"
                       /\ kid[c] \in {"start", "send"} => link[c].state = "open"

(* Who is in the queue waits there once, for the server that listens.      *)
Waits(c) ==
    /\ link[c].state = "queued" /\ link[c].server = listener
    /\ listener # NoServer /\ lab # "q1_udp"
Queued ==
    /\ \A n \in 1..Len(queue) : Waits(queue[n])
    /\ \A m, n \in 1..Len(queue) : queue[m] = queue[n] => m = n

(* The servers of q1 and q2 accept one client and answer it before they    *)
(* end.                                                                    *)
Open(s) == {c \in Clients : link[c].server = s /\ link[c].state = "open"}
Serving ==
    OneShot => \A s \in Servers : Running(s) =>
        /\ pc[s] <= 5 => Open(s) = {}
        /\ \A c, d \in Open(s) : c = d
        /\ pc[s] = 8 => \A c \in Open(s) : link[c].answer

(* A connection that was closed without an answer needed a fault. *)
Closing ==
    OneShot \/ lab = "simple" =>
        \A c \in Clients : link[c].state = "closed" /\ ~link[c].answer => misfork \/ kills > 0
Misforks == misfork => lab = "simple"

LEMMA ScriptFacts ==
    ASSUME TypeOK
    PROVE  /\ \A s \in Servers : ServerFacts(Script(s)) /\ Script(s) \in ServerScripts /\ s \in Procs
           /\ \A c \in Clients : /\ ClientFacts(Script(c)) /\ Script(c) \in ClientScripts
                                 /\ c \in Procs /\ c \notin Servers
  BY Scripts, ServerCalls, ClientCalls DEF Procs

(* Nobody changes the exercise. *)
LEMMA SameLab ==
    ASSUME [Next]_vars
    PROVE  lab' = lab /\ \A p : Script(p)' = Script(p)
  <1>1. lab' = lab
    <2>1. CASE UNCHANGED vars
      BY <2>1 DEF vars
    <2>2. ASSUME NEW s \in Servers, Server(s) PROVE lab' = lab
      BY <2>2 DEF Server, Setup, Bind, Listen, Accept, Spawn, Read, Reply, Exit, Fork, RecvHello,
                  SendGreeting, Unconnected, Quiet
    <2>3. ASSUME NEW c \in Clients, Client(c) \/ Kid(c) PROVE lab' = lab
      BY <2>3 DEF Client, Kid, Setup, Connect, Ask, AskNothing, AskDate, Receive, Exit, SendHello,
                  RecvGreeting, Unconnected, KidClose, KidSend, Quiet
    <2>4. ASSUME NEW p \in Procs, Kill(p) PROVE lab' = lab
      BY <2>4 DEF Kill
    <2>5. QED
      BY <2>1, <2>2, <2>3, <2>4 DEF Next
  <1>2. QED
    BY <1>1 DEF Script

(* What the end of a process does. *)
EndDid(p, how) ==
    /\ fate' = [fate EXCEPT ![p] = how] /\ UNCHANGED <<pc, kid>>
    /\ p \in Clients => UNCHANGED net
    /\ bound' \subseteq bound /\ \A s \in bound : s # p => s \in bound'
    /\ \/ /\ UNCHANGED <<bound, listener, queue>>
          /\ \A c \in Clients : link[c].state = "queued" => link'[c] = link[c]
       \/ listener # p /\ UNCHANGED <<listener, queue>>
       \/ listener = p /\ listener' = NoServer /\ queue' = <<>>
    /\ link' \in [Clients -> Links]
    /\ \A c \in Clients :
          \/ link'[c] = link[c]
          \/ /\ link[c].server = p /\ link'[c].server = p /\ link'[c].answer = link[c].answer
             /\ kid[c] \notin {"start", "send"} \/ link[c].state = "queued"
             /\ \/ link[c].state = "none" /\ link'[c].state = "none"
                \/ link[c].state = "open" /\ link'[c].state \in {"closed", "reset"}
                \/ link[c].state = "queued" /\ link'[c].state = "reset"

LEMMA DroppedFacts ==
    ASSUME TypeOK, NEW p \in Servers, NEW c \in Clients
    PROVE  /\ Dropped(p, c) \in Links
           /\ \/ Dropped(p, c) = link[c]
              \/ /\ link[c].server = p /\ Dropped(p, c).server = p
                 /\ Dropped(p, c).answer = link[c].answer
                 /\ kid[c] \notin {"start", "send"}
                 /\ \/ link[c].state = "none" /\ Dropped(p, c).state = "none"
                    \/ link[c].state = "open" /\ Dropped(p, c).state \in {"closed", "reset"}
  <1>1. link[c] \in Links
    BY DEF TypeOK
  <1>2. QED
    BY <1>1 DEF Dropped, Links

(* What the release of a socket does. *)
LEMMA ReleaseFacts ==
    ASSUME TypeOK, NEW p, NEW links \in [Clients -> Links], Release(p, links)
    PROVE  /\ bound' = bound \ {p}
           /\ \/ listener # p /\ UNCHANGED <<listener, queue>>
              \/ listener = p /\ listener' = NoServer /\ queue' = <<>>
           /\ link' \in [Clients -> Links]
           /\ \A c \in Clients :
                 \/ link'[c] = links[c]
                 \/ /\ links[c].server = p /\ links[c].state = "queued"
                    /\ link'[c] = [links[c] EXCEPT !.state = "reset"]
  <1>1. \A c \in Clients : [links[c] EXCEPT !.state = "reset"] \in Links
    BY DEF Links
  <1>2. QED
    BY <1>1 DEF Release

LEMMA EndFacts ==
    ASSUME TypeOK, NEW p \in Procs, NEW how, End(p, how)
    PROVE  EndDid(p, how)
  <1>1. CASE p \in Clients
    BY <1>1 DEF End, EndDid, net, TypeOK
  <1>2. CASE p \notin Clients
    <2> DEFINE links == [c \in Clients |-> Dropped(p, c)]
    <2>1. p \in Servers
      BY <1>2 DEF Procs
    <2>2. links \in [Clients -> Links] /\ \A c \in Clients : links[c] = Dropped(p, c)
      BY <2>1, DroppedFacts
    <2>3. fate' = [fate EXCEPT ![p] = how] /\ UNCHANGED <<pc, kid>>
      BY <1>2 DEF End
    <2>4. (link' = links /\ UNCHANGED <<bound, listener, queue>>) \/ Release(p, links)
      BY <1>2 DEF End
    <2> HIDE DEF links
    <2>5. CASE link' = links /\ UNCHANGED <<bound, listener, queue>>
      BY <1>2, <2>1, <2>2, <2>3, <2>5, DroppedFacts DEF EndDid
    <2>6. CASE Release(p, links)
      <3>1. /\ bound' = bound \ {p}
            /\ \/ listener # p /\ UNCHANGED <<listener, queue>>
               \/ listener = p /\ listener' = NoServer /\ queue' = <<>>
            /\ link' \in [Clients -> Links]
        BY <2>2, <2>6, ReleaseFacts
      <3>2. ASSUME NEW c \in Clients
            PROVE  \/ link'[c] = link[c]
                   \/ /\ link[c].server = p /\ link'[c].server = p /\ link'[c].answer = link[c].answer
                      /\ kid[c] \notin {"start", "send"} \/ link[c].state = "queued"
                      /\ \/ link[c].state = "none" /\ link'[c].state = "none"
                         \/ link[c].state = "open" /\ link'[c].state \in {"closed", "reset"}
                         \/ link[c].state = "queued" /\ link'[c].state = "reset"
        <4>1. links[c] = Dropped(p, c) /\ links[c] \in Links
          BY <2>2
        <4>2. CASE link'[c] = links[c]
          BY <2>1, <4>1, <4>2, DroppedFacts
        <4>3. CASE /\ links[c].server = p /\ links[c].state = "queued"
                   /\ link'[c] = [links[c] EXCEPT !.state = "reset"]
          <5>1. links[c] = link[c]
            BY <2>1, <4>1, <4>3, DroppedFacts
          <5>2. QED
            BY <4>1, <4>3, <5>1 DEF Links
        <4>4. QED
          BY <2>2, <2>6, <4>2, <4>3, ReleaseFacts
      <3>3. QED
        BY <1>2, <2>3, <3>1, <3>2 DEF EndDid
    <2>7. QED
      BY <2>4, <2>5, <2>6
  <1>3. QED
    BY <1>1, <1>2

-----------------------------------------------------------------------------
(* How a process walks along its script. *)
ServerMove(s, n) ==
    \/ pc[s] = 1 /\ Script(s)[n] = "bind"
    \/ Call(s) \notin LastCalls \cup Local /\ n = pc[s] + 1
    \/ Call(s) \in {"fork", "spawn"} /\ Script(s)[n] = "accept"
ClientMove(c, n) == pc[c] = 1 \/ (Call(c) \notin LastCalls \cup Local /\ n = pc[c] + 1)

LEMMA ServerSteps ==
    ASSUME TypeOK, InScript, NEW s \in Servers, Server(s)
    PROVE  \/ End(s, "done") \/ End(s, "failed")
           \/ /\ Running(s) /\ UNCHANGED fate
              /\ \E n \in Indices(Script(s)) : pc' = [pc EXCEPT ![s] = n] /\ ServerMove(s, n)
  <1>1. /\ ServerFacts(Script(s)) /\ Script(s) \in ServerScripts /\ s \in Procs
        /\ pc[s] \in Indices(Script(s))
    BY ScriptFacts DEF InScript
  <1>2. ASSUME NEW call, call \notin LastCalls \cup Local, At(s, call), Advance(s), UNCHANGED fate
        PROVE  /\ Running(s) /\ UNCHANGED fate
               /\ \E n \in Indices(Script(s)) : pc' = [pc EXCEPT ![s] = n] /\ ServerMove(s, n)
    <2>1. Running(s) /\ Call(s) = call
      BY <1>2 DEF At, Call
    <2>2. pc[s] + 1 \in Indices(Script(s))
      BY <1>1, <1>2, <2>1 DEF ServerFacts, Call
    <2>3. pc' = [pc EXCEPT ![s] = pc[s] + 1]
      BY <1>2 DEF Advance
    <2>4. QED
      BY <1>2, <2>1, <2>2, <2>3 DEF ServerMove
  <1>3. CASE Setup(s)
    <2>1. CASE Fail(s)
      BY <2>1 DEF Fail
    <2> DEFINE n == SelectInSeq(Script(s), LAMBDA call : call \notin Local)
    <2>2. CASE pc' = [pc EXCEPT ![s] = n] /\ UNCHANGED <<fate, net>>
      <3>1. n \in Indices(Script(s)) /\ Script(s)[n] = "bind"
        BY <1>1, ServerSetup
      <3>2. Running(s) /\ pc[s] = 1
        BY <1>3 DEF Setup
      <3> HIDE DEF n
      <3>3. QED
        BY <2>2, <3>1, <3>2 DEF ServerMove
    <2>3. QED
      BY <1>3, <2>1, <2>2 DEF Setup
  <1>4. CASE Spawn(s) \/ Fork(s)
    <2> DEFINE n == SelectInSeq(Script(s), LAMBDA call : call = "accept")
    <2>1. pc' = [pc EXCEPT ![s] = n] /\ UNCHANGED fate /\ Running(s)
      BY <1>4 DEF Spawn, Fork, GoTo, At
    <2>2. Call(s) \in {"fork", "spawn"}
      BY <1>4 DEF Spawn, Fork, At, Call
    <2>3. n \in Indices(Script(s)) /\ Script(s)[n] = "accept"
      BY <1>1, <2>2, BackToAccept DEF Call
    <2> HIDE DEF n
    <2>4. QED
      BY <2>1, <2>2, <2>3 DEF ServerMove
  <1>5. CASE Bind(s)
    <2>1. Fail(s) \/ (At(s, "bind") /\ Advance(s) /\ UNCHANGED fate)
      BY <1>5 DEF Bind
    <2>2. QED
      BY <1>2, <2>1 DEF Fail, LastCalls, Local
  <1>6. CASE Listen(s)
    BY <1>2, <1>6 DEF Listen, LastCalls, Local
  <1>7. CASE Accept(s)
    <2>1. Fail(s) \/ (At(s, "accept") /\ Advance(s) /\ UNCHANGED fate)
      BY <1>7 DEF Accept
    <2>2. QED
      BY <1>2, <2>1 DEF Fail, LastCalls, Local
  <1>8. CASE Read(s)
    BY <1>2, <1>8 DEF Read, LastCalls, Local
  <1>9. CASE Reply(s)
    BY <1>2, <1>9 DEF Reply, LastCalls, Local
  <1>10. CASE RecvHello(s)
    BY <1>2, <1>10 DEF RecvHello, LastCalls, Local
  <1>11. CASE SendGreeting(s)
    BY <1>2, <1>11 DEF SendGreeting, LastCalls, Local
  <1>12. CASE Exit(s) \/ Unconnected(s)
    BY <1>12 DEF Exit, Unconnected, Fail
  <1>13. QED
    BY <1>3, <1>4, <1>5, <1>6, <1>7, <1>8, <1>9, <1>10, <1>11, <1>12 DEF Server

LEMMA ClientSteps ==
    ASSUME TypeOK, InScript, NEW c \in Clients, Client(c)
    PROVE  \/ End(c, "done") \/ End(c, "failed")
           \/ /\ Running(c) /\ UNCHANGED fate
              /\ \E n \in Indices(Script(c)) : pc' = [pc EXCEPT ![c] = n] /\ ClientMove(c, n)
  <1>1. /\ ClientFacts(Script(c)) /\ Script(c) \in ClientScripts /\ c \in Procs
        /\ pc[c] \in Indices(Script(c))
    BY ScriptFacts DEF InScript
  <1>2. ASSUME NEW call, call \notin LastCalls \cup Local, At(c, call), Advance(c), UNCHANGED fate
        PROVE  /\ Running(c) /\ UNCHANGED fate
               /\ \E n \in Indices(Script(c)) : pc' = [pc EXCEPT ![c] = n] /\ ClientMove(c, n)
    <2>1. Running(c) /\ Call(c) = call
      BY <1>2 DEF At, Call
    <2>2. pc[c] + 1 \in Indices(Script(c))
      BY <1>1, <1>2, <2>1 DEF ClientFacts, Call
    <2>3. pc' = [pc EXCEPT ![c] = pc[c] + 1]
      BY <1>2 DEF Advance
    <2>4. QED
      BY <1>2, <2>1, <2>2, <2>3 DEF ClientMove
  <1>3. CASE Setup(c)
    <2>1. CASE Fail(c)
      BY <2>1 DEF Fail
    <2> DEFINE n == SelectInSeq(Script(c), LAMBDA call : call \notin Local)
    <2>2. CASE pc' = [pc EXCEPT ![c] = n] /\ UNCHANGED <<fate, net>>
      <3>1. n \in Indices(Script(c))
        BY <1>1, ClientSetup
      <3>2. Running(c) /\ pc[c] = 1
        BY <1>3 DEF Setup
      <3> HIDE DEF n
      <3>3. QED
        BY <2>2, <3>1, <3>2 DEF ClientMove
    <2>3. QED
      BY <1>3, <2>1, <2>2 DEF Setup
  <1>4. CASE Connect(c)
    <2>1. Fail(c) \/ (At(c, "connect") /\ Advance(c) /\ UNCHANGED fate)
      BY <1>4 DEF Connect
    <2>2. QED
      BY <1>2, <2>1 DEF Fail, LastCalls, Local
  <1>5. CASE Ask(c) \/ AskDate(c)
    <2>1. \/ Fail(c)
          \/ (At(c, "ask") \/ At(c, "ask_date")) /\ Advance(c) /\ UNCHANGED fate
      BY <1>5 DEF Ask, AskDate, Write
    <2>2. QED
      BY <1>2, <2>1 DEF Fail, LastCalls, Local
  <1>6. CASE AskNothing(c)
    BY <1>2, <1>6 DEF AskNothing, LastCalls, Local
  <1>7. CASE Receive(c)
    <2>1. \/ Fail(c)
          \/ (At(c, "read_answer") \/ At(c, "recv_answer")) /\ Advance(c) /\ UNCHANGED fate
      BY <1>7 DEF Receive
    <2>2. QED
      BY <1>2, <2>1 DEF Fail, LastCalls, Local
  <1>8. CASE SendHello(c)
    BY <1>2, <1>8 DEF SendHello, LastCalls, Local
  <1>9. CASE RecvGreeting(c)
    <2>1. Fail(c) \/ (At(c, "recv_greeting") /\ Advance(c) /\ UNCHANGED fate)
      BY <1>9 DEF RecvGreeting
    <2>2. QED
      BY <1>2, <2>1 DEF Fail, LastCalls, Local
  <1>10. CASE Exit(c) \/ Unconnected(c)
    BY <1>10 DEF Exit, Unconnected, Fail
  <1>11. QED
    BY <1>3, <1>4, <1>5, <1>6, <1>7, <1>8, <1>9, <1>10 DEF Client

(* Nobody comes back to life, and everybody walks along its own script.    *)
Walked ==
    /\ pc' \in [Procs -> 1..8]
    /\ fate' \in [Procs -> {"running", "done", "failed", "killed"}]
    /\ \A p \in Procs : pc'[p] \in Indices(Script(p))
    /\ \A p \in Procs : fate'[p] = "running" => Running(p)
    /\ \A s \in Servers : pc'[s] = pc[s] \/ ServerMove(s, pc'[s])
    /\ \A c \in Clients : pc'[c] = pc[c] \/ ClientMove(c, pc'[c])

LEMMA StepWalked ==
    ASSUME TypeOK, InScript, [Next]_vars
    PROVE  Walked
  <1>1. /\ pc \in [Procs -> 1..8] /\ \A p \in Procs : pc[p] \in Indices(Script(p))
        /\ fate \in [Procs -> {"running", "done", "failed", "killed"}]
    BY DEF TypeOK, InScript
  <1>2. \A p \in Procs : Indices(Script(p)) \subseteq 1..8
    <2>1. SUFFICES ASSUME NEW p \in Procs PROVE Indices(Script(p)) \subseteq 1..8
      OBVIOUS
    <2>2. Len(Script(p)) \in 5..8
      <3>1. CASE p \in Servers
        BY <3>1, ScriptFacts DEF ServerFacts
      <3>2. CASE p \in Clients
        BY <3>2, ScriptFacts DEF ClientFacts
      <3>3. QED
        BY <3>1, <3>2 DEF Procs
    <2>3. PICK n \in 5..8 : n = Len(Script(p))
      BY <2>2
    <2>4. 1..n \subseteq 1..8
      OBVIOUS
    <2>5. QED
      BY <2>3, <2>4 DEF Indices
  <1>3. CASE UNCHANGED <<pc, fate>>
    BY <1>1, <1>3 DEF Walked, Running
  <1>4. ASSUME NEW p \in Procs, NEW how \in {"done", "failed", "killed"}, End(p, how) PROVE Walked
    <2>1. fate' = [fate EXCEPT ![p] = how] /\ pc' = pc
      BY <1>4, EndFacts DEF EndDid
    <2>2. QED
      BY <1>1, <2>1 DEF Walked, Running
  <1>5. ASSUME NEW s \in Servers, Server(s) PROVE Walked
    <2>1. s \in Procs /\ \A c \in Clients : c # s
      BY ScriptFacts
    <2>2. CASE /\ Running(s) /\ UNCHANGED fate
               /\ \E n \in Indices(Script(s)) : pc' = [pc EXCEPT ![s] = n] /\ ServerMove(s, n)
      <3>1. PICK n \in Indices(Script(s)) : pc' = [pc EXCEPT ![s] = n] /\ ServerMove(s, n)
        BY <2>2
      <3>2. pc'[s] = n /\ \A p \in Procs : p # s => pc'[p] = pc[p]
        BY <1>1, <2>1, <3>1
      <3>3. n \in 1..8
        BY <1>2, <2>1
      <3>4. pc' \in [Procs -> 1..8]
        BY <1>1, <3>1, <3>3
      <3>5. \A d \in Clients : pc'[d] = pc[d]
        BY <2>1, <3>2 DEF Procs
      <3>6. \A t \in Servers : pc'[t] = pc[t] \/ ServerMove(t, pc'[t])
        BY <3>1, <3>2 DEF Procs
      <3>7. QED
        BY <1>1, <2>2, <3>2, <3>4, <3>5, <3>6 DEF Walked, Running
    <2>3. QED
      BY <1>4, <1>5, <2>1, <2>2, ServerSteps
  <1>6. ASSUME NEW c \in Clients, Client(c) PROVE Walked
    <2>1. c \in Procs /\ \A s \in Servers : s # c
      BY ScriptFacts
    <2>2. CASE /\ Running(c) /\ UNCHANGED fate
               /\ \E n \in Indices(Script(c)) : pc' = [pc EXCEPT ![c] = n] /\ ClientMove(c, n)
      <3>1. PICK n \in Indices(Script(c)) : pc' = [pc EXCEPT ![c] = n] /\ ClientMove(c, n)
        BY <2>2
      <3>2. pc'[c] = n /\ \A p \in Procs : p # c => pc'[p] = pc[p]
        BY <1>1, <2>1, <3>1
      <3>3. n \in 1..8
        BY <1>2, <2>1
      <3>4. pc' \in [Procs -> 1..8]
        BY <1>1, <3>1, <3>3
      <3>5. \A s \in Servers : pc'[s] = pc[s]
        BY <2>1, <3>2 DEF Procs
      <3>6. \A d \in Clients : pc'[d] = pc[d] \/ ClientMove(d, pc'[d])
        BY <3>1, <3>2 DEF Procs
      <3>7. QED
        BY <1>1, <2>2, <3>2, <3>4, <3>5, <3>6 DEF Walked, Running
    <2>3. QED
      BY <1>4, <1>6, <2>1, <2>2, ClientSteps
  <1>7. ASSUME NEW c \in Clients, Kid(c) PROVE UNCHANGED <<pc, fate>>
    BY <1>7 DEF Kid, KidClose, KidSend
  <1>8. ASSUME NEW p \in Procs, Kill(p) PROVE Walked
    BY <1>4, <1>8 DEF Kill
  <1>9. CASE UNCHANGED vars
    BY <1>3, <1>9 DEF vars
  <1>10. QED
    BY <1>3, <1>5, <1>6, <1>7, <1>8, <1>9 DEF Next

LEMMA StepInScript ==
    ASSUME TypeOK, InScript, [Next]_vars
    PROVE  InScript'
  <1>1. /\ \A p \in Procs : pc'[p] \in Indices(Script(p))
        /\ \A p : Script(p)' = Script(p)
    BY StepWalked, SameLab DEF Walked
  <1>2. QED
    BY <1>1 DEF InScript, Indices

(* The call a server makes next. *)
LEMMA ServerCall ==
    ASSUME TypeOK, InScript, [Next]_vars, NEW s \in Servers
    PROVE  \/ pc'[s] = pc[s] /\ Call(s)' = Call(s)
           \/ Call(s) \in Local /\ Call(s)' = "bind"
           \/ /\ Call(s) \notin LastCalls \cup Local \cup {"bind"} /\ pc'[s] = pc[s] + 1
              /\ Call(s)' \notin Local \cup {"bind", "listen"}
           \/ Call(s) = "bind" /\ pc'[s] = pc[s] + 1
           \/ Call(s) \in {"fork", "spawn"} /\ Call(s)' = "accept"
  <1>1. ServerFacts(Script(s)) /\ pc[s] \in Indices(Script(s)) /\ Script(s)' = Script(s)
    BY ScriptFacts, SameLab DEF InScript
  <1>2. pc'[s] = pc[s] \/ ServerMove(s, pc'[s])
    BY StepWalked DEF Walked
  <1>3. QED
    BY <1>1, <1>2 DEF ServerMove, ServerFacts, Call

(* A client that has called somebody does not do so again. *)
LEMMA ClientCall ==
    ASSUME TypeOK, InScript, [Next]_vars, NEW c \in Clients
    PROVE  \/ pc'[c] = pc[c] /\ Call(c)' = Call(c)
           \/ Call(c) \in Local
           \/ Call(c)' \notin Local \cup {"connect", "send_hello"}
  <1>1. ClientFacts(Script(c)) /\ pc[c] \in Indices(Script(c)) /\ Script(c)' = Script(c)
    BY ScriptFacts, SameLab DEF InScript
  <1>2. pc'[c] = pc[c] \/ ClientMove(c, pc'[c])
    BY StepWalked DEF Walked
  <1>3. QED
    BY <1>1, <1>2 DEF ClientMove, ClientFacts, Call

-----------------------------------------------------------------------------
(* Types. *)
NetOK ==
    /\ bound \subseteq Servers
    /\ listener \in bound \cup {NoServer}
    /\ queue \in Seq(Clients)
    /\ link \in [Clients -> Links]
    /\ kid \in [Clients -> {"none", "start", "send", "gone"}]
UserOK ==
    /\ shown \in [Clients -> {"nothing", "answer", "blank", "garbage"}]
    /\ mute \subseteq Clients
    /\ misfork \in BOOLEAN
    /\ kills \in 0..MaxKills

LEMMA EndNetOK ==
    ASSUME TypeOK, NEW p \in Procs, NEW how, End(p, how)
    PROVE  NetOK'
  <1>1. EndDid(p, how) /\ NetOK
    BY EndFacts DEF TypeOK, NetOK
  <1>2. bound' \subseteq Servers /\ listener' \in bound' \cup {NoServer}
    BY <1>1 DEF EndDid, NetOK
  <1>3. queue' \in Seq(Clients)
    BY <1>1, EmptySeq DEF EndDid, NetOK
  <1>4. link' \in [Clients -> Links] /\ kid' = kid
    BY <1>1 DEF EndDid
  <1>5. QED
    BY <1>1, <1>2, <1>3, <1>4 DEF NetOK

LEMMA ServerNetOK ==
    ASSUME TypeOK, Ready, NEW s \in Servers, Server(s)
    PROVE  NetOK'
  <1>1. s \in Procs /\ NetOK
    BY DEF Procs, TypeOK, NetOK
  <1>2. CASE Fail(s) \/ Exit(s)
    BY <1>1, <1>2, EndNetOK DEF Fail, Exit
  <1>3. CASE UNCHANGED net
    BY <1>1, <1>3 DEF net, NetOK
  <1>4. CASE Setup(s) \/ Spawn(s) \/ Unconnected(s)
    BY <1>2, <1>3, <1>4 DEF Setup, Spawn, Unconnected
  <1>5. CASE Bind(s)
    <2>1. CASE bound' = bound \cup {s} /\ UNCHANGED <<listener, queue, link, kid>>
      BY <1>1, <2>1 DEF NetOK
    <2>2. QED
      BY <1>2, <1>5, <2>1 DEF Bind
  <1>6. CASE Listen(s)
    <2>1. s \in bound
      BY <1>6 DEF Listen, At, Ready, Call, Local
    <2>2. listener' \in {listener, s} /\ UNCHANGED <<bound, queue, link, kid>>
      BY <1>6 DEF Listen
    <2>3. QED
      BY <1>1, <2>1, <2>2 DEF NetOK
  <1>7. ASSUME UNCHANGED <<bound, listener, queue, kid>>, link' \in [Clients -> Links] PROVE NetOK'
    BY <1>1, <1>7 DEF NetOK
  <1>8. CASE Accept(s)
    <2>1. CASE /\ queue # <<>>
               /\ link' = [link EXCEPT ![Head(queue)].state = "open"]
               /\ queue' = Tail(queue)
               /\ UNCHANGED <<fate, bound, listener, kid>>
      <3>1. Head(queue) \in Clients /\ Tail(queue) \in Seq(Clients)
        BY <1>1, <2>1, HeadTailProperties DEF NetOK
      <3>2. link' \in [Clients -> Links]
        <4>1. link \in [Clients -> Links] /\ link[Head(queue)] \in Links
          BY <1>1, <3>1 DEF NetOK
        <4>2. [link[Head(queue)] EXCEPT !.state = "open"] \in Links
          BY <4>1 DEF Links
        <4>3. link' = [link EXCEPT ![Head(queue)] = [link[Head(queue)] EXCEPT !.state = "open"]]
          BY <2>1, <4>1
        <4>4. QED
          BY <3>1, <4>1, <4>2, <4>3
      <3>3. QED
        BY <1>1, <2>1, <3>1, <3>2 DEF NetOK
    <2>2. QED
      BY <1>2, <1>8, <2>1 DEF Accept
  <1>9. CASE Read(s) \/ Reply(s) \/ RecvHello(s) \/ SendGreeting(s)
    <2>1. \E c \in Clients : \/ link' = [link EXCEPT ![c].request = FALSE]
                             \/ link' = [link EXCEPT ![c].answer = TRUE]
                             \/ link' = [link EXCEPT ![c].request = FALSE, ![c].state = "peer"]
                             \/ link' = link
      BY <1>9 DEF Read, Reply, RecvHello, SendGreeting, Accepted
    <2>2. link' \in [Clients -> Links]
      <3>1. link \in [Clients -> Links]
        BY <1>1 DEF NetOK
      <3>2. ASSUME NEW c \in Clients
            PROVE  /\ [link EXCEPT ![c].request = FALSE] \in [Clients -> Links]
                   /\ [link EXCEPT ![c].answer = TRUE] \in [Clients -> Links]
        BY <3>1 DEF Links
      <3>3. ASSUME NEW c \in Clients
            PROVE  [link EXCEPT ![c].request = FALSE, ![c].state = "peer"] \in [Clients -> Links]
        BY <3>1 DEF Links
      <3>4. PICK c \in Clients : \/ link' = [link EXCEPT ![c].request = FALSE]
                                 \/ link' = [link EXCEPT ![c].answer = TRUE]
                                 \/ link' = [link EXCEPT ![c].request = FALSE, ![c].state = "peer"]
                                 \/ link' = link
        BY <2>1
      <3>5. CASE link' = [link EXCEPT ![c].request = FALSE] \/ link' = [link EXCEPT ![c].answer = TRUE]
        BY <3>2, <3>5
      <3>6. CASE link' = [link EXCEPT ![c].request = FALSE, ![c].state = "peer"]
        BY <3>3, <3>6
      <3>7. QED
        BY <3>1, <3>4, <3>5, <3>6
    <2>3. QED
      BY <1>7, <1>9, <2>2 DEF Read, Reply, RecvHello, SendGreeting
  <1>10. CASE Fork(s)
    <2>1. PICK c \in Clients : \/ kid' = [kid EXCEPT ![c] = "start"] /\ link' = link
                               \/ kid' = kid /\ link' = [link EXCEPT ![c].state = "closed"]
      BY <1>10 DEF Fork, Accepted
    <2>2. link' \in [Clients -> Links]
      <3>1. link \in [Clients -> Links]
        BY <1>1 DEF NetOK
      <3>2. [link EXCEPT ![c].state = "closed"] \in [Clients -> Links]
        BY <3>1 DEF Links
      <3>3. QED
        BY <2>1, <3>1, <3>2
    <2>3. kid' \in [Clients -> {"none", "start", "send", "gone"}]
      BY <1>1, <2>1 DEF NetOK
    <2>4. UNCHANGED <<bound, listener, queue>>
      BY <1>10 DEF Fork
    <2>5. QED
      BY <1>1, <2>2, <2>3, <2>4 DEF NetOK
  <1>11. QED
    BY <1>2, <1>4, <1>5, <1>6, <1>8, <1>9, <1>10 DEF Server

LEMMA ClientNetOK ==
    ASSUME TypeOK, NEW c \in Clients, Client(c)
    PROVE  NetOK'
  <1>1. c \in Procs /\ NetOK
    BY DEF Procs, TypeOK, NetOK
  <1>2. CASE Fail(c) \/ Exit(c)
    BY <1>1, <1>2, EndNetOK DEF Fail, Exit
  <1>3. CASE UNCHANGED net
    BY <1>1, <1>3 DEF net, NetOK
  <1>4. CASE Setup(c) \/ AskNothing(c) \/ Receive(c) \/ RecvGreeting(c) \/ Unconnected(c)
    BY <1>2, <1>3, <1>4 DEF Setup, AskNothing, Receive, RecvGreeting, Unconnected
  <1>5. ASSUME UNCHANGED <<bound, listener, queue, kid>>, link' \in [Clients -> Links] PROVE NetOK'
    BY <1>1, <1>5 DEF NetOK
  <1>6. CASE Connect(c)
    <2>1. CASE /\ link' = [link EXCEPT ![c].state = "queued", ![c].server = listener]
               /\ queue' = Append(queue, c)
               /\ UNCHANGED <<fate, bound, listener, kid>>
      <3>1. Append(queue, c) \in Seq(Clients)
        BY <1>1, AppendProperties DEF NetOK
      <3>2. listener \in Servers \cup {NoServer}
        BY <1>1 DEF NetOK
      <3>3. link' \in [Clients -> Links]
        <4>1. link \in [Clients -> Links] /\ link[c] \in Links
          BY <1>1 DEF NetOK
        <4>2. [link[c] EXCEPT !.state = "queued", !.server = listener] \in Links
          BY <3>2, <4>1 DEF Links
        <4>3. link' = [link EXCEPT ![c] = [link[c] EXCEPT !.state = "queued", !.server = listener]]
          BY <2>1, <4>1
        <4>4. QED
          BY <4>1, <4>2, <4>3
      <3>4. QED
        BY <1>1, <2>1, <3>1, <3>3 DEF NetOK
    <2>2. QED
      BY <1>2, <1>6, <2>1 DEF Connect
  <1>7. CASE Ask(c) \/ AskDate(c)
    <2>1. CASE /\ link' = [link EXCEPT ![c].request = (link[c].state # "closed"),
                                       ![c].state = IF @ = "closed" THEN "reset" ELSE @]
               /\ UNCHANGED <<fate, bound, listener, queue, kid>>
      <3>1. link \in [Clients -> Links] /\ (link[c].state # "closed") \in BOOLEAN
        BY <1>1 DEF NetOK
      <3>2. (IF link[c].state = "closed" THEN "reset" ELSE link[c].state)
                \in {"none", "queued", "open", "closed", "reset", "peer"}
        BY <3>1 DEF Links
      <3>3. \A b \in BOOLEAN, st \in {"none", "queued", "open", "closed", "reset", "peer"} :
                [link[c] EXCEPT !.request = b, !.state = st] \in Links
        BY <3>1 DEF Links
      <3>4. [link[c] EXCEPT !.request = (link[c].state # "closed"),
                            !.state = IF link[c].state = "closed" THEN "reset" ELSE link[c].state]
                \in Links
        BY <3>1, <3>2, <3>3
      <3>5. link' \in [Clients -> Links]
        BY <2>1, <3>1, <3>4
      <3>6. QED
        BY <1>5, <2>1, <3>5
    <2>2. QED
      BY <1>2, <1>7, <2>1 DEF Ask, AskDate, Write
  <1>8. CASE SendHello(c)
    <2>1. bound \subseteq Servers
      BY <1>1 DEF NetOK
    <2>2. link' \in [Clients -> Links]
      <3>1. link \in [Clients -> Links]
        BY <1>1 DEF NetOK
      <3>2. \/ link' = link
            \/ \E s \in bound : link' = [link EXCEPT ![c].server = s, ![c].request = TRUE]
        BY <1>8 DEF SendHello
      <3>3. ASSUME NEW s \in bound
            PROVE  [link EXCEPT ![c].server = s, ![c].request = TRUE] \in [Clients -> Links]
        BY <2>1, <3>1 DEF Links
      <3>4. QED
        BY <3>1, <3>2, <3>3
    <2>3. QED
      BY <1>5, <1>8, <2>2 DEF SendHello
  <1>9. QED
    BY <1>2, <1>4, <1>6, <1>7, <1>8 DEF Client

LEMMA KidNetOK ==
    ASSUME TypeOK, NEW c \in Clients, Kid(c)
    PROVE  NetOK'
  <1>1. NetOK /\ link \in [Clients -> Links]
    BY DEF TypeOK, NetOK
  <1>2. CASE KidClose(c)
    <2>1. kid' \in [Clients -> {"none", "start", "send", "gone"}]
      BY <1>1, <1>2 DEF KidClose, NetOK
    <2>2. CASE UNCHANGED <<bound, listener, queue, link>>
      BY <1>1, <2>1, <2>2 DEF NetOK
    <2>3. CASE Release(link[c].server, link)
      <3> DEFINE s == link[c].server
      <3> HIDE DEF s
      <3>1. Release(s, link)
        BY <2>3 DEF s
      <3>2. /\ bound' = bound \ {s}
            /\ \/ listener # s /\ UNCHANGED <<listener, queue>>
               \/ listener = s /\ listener' = NoServer /\ queue' = <<>>
            /\ link' \in [Clients -> Links]
        BY <1>1, <3>1, ReleaseFacts
      <3>3. QED
        BY <1>1, <2>1, <3>2, EmptySeq DEF NetOK
    <2>4. QED
      BY <1>2, <2>2, <2>3 DEF KidClose
  <1>3. CASE KidSend(c)
    <2>1. link' \in [Clients -> Links]
      <3>1. link' = [link EXCEPT ![c] = [link[c] EXCEPT !.answer = TRUE, !.state = "closed"]]
        BY <1>1, <1>3 DEF KidSend
      <3>2. [link[c] EXCEPT !.answer = TRUE, !.state = "closed"] \in Links
        BY <1>1 DEF Links
      <3>3. QED
        BY <1>1, <3>1, <3>2
    <2>2. kid' \in [Clients -> {"none", "start", "send", "gone"}]
      BY <1>1, <1>3 DEF KidSend, NetOK
    <2>3. QED
      BY <1>1, <1>3, <2>1, <2>2 DEF KidSend, NetOK
  <1>4. QED
    BY <1>2, <1>3 DEF Kid

LEMMA StepUserOK ==
    ASSUME TypeOK, [Next]_vars
    PROVE  UserOK'
  <1>1. UserOK /\ MaxKills \in Nat
    BY ProgramsAssumption DEF TypeOK, UserOK
  <1>2. CASE UNCHANGED <<shown, mute, misfork, kills>>
    BY <1>1, <1>2 DEF UserOK
  <1>3. ASSUME NEW s \in Servers, Server(s) PROVE UserOK'
    <2>1. \/ UNCHANGED <<shown, mute, misfork, kills>>
          \/ UNCHANGED <<shown, mute, kills>> /\ misfork' = TRUE
      BY <1>3 DEF Server, Setup, Bind, Listen, Accept, Spawn, Read, Reply, Exit, Fork, RecvHello,
                  SendGreeting, Unconnected, Quiet
    <2>2. QED
      BY <1>1, <1>2, <2>1 DEF UserOK
  <1>4. ASSUME NEW c \in Clients, Client(c) \/ Kid(c) PROVE UserOK'
    <2>1. CASE Receive(c) \/ RecvGreeting(c)
      <3>1. shown' \in [Clients -> {"nothing", "answer", "blank", "garbage"}]
        BY <1>1, <2>1 DEF Receive, RecvGreeting, UserOK
      <3>2. UNCHANGED <<mute, misfork, kills>>
        BY <2>1 DEF Receive, RecvGreeting
      <3>3. QED
        BY <1>1, <3>1, <3>2 DEF UserOK
    <2>2. CASE AskNothing(c)
      BY <1>1, <2>2 DEF AskNothing, UserOK
    <2>3. QED
      BY <1>2, <1>4, <2>1, <2>2 DEF Client, Kid, Setup, Connect, Ask, AskDate, Exit, SendHello,
                                    Unconnected, KidClose, KidSend, Quiet
  <1>5. ASSUME NEW p \in Procs, Kill(p) PROVE UserOK'
    BY <1>1, <1>5 DEF Kill, UserOK
  <1>6. CASE UNCHANGED vars
    BY <1>2, <1>6 DEF vars
  <1>7. QED
    BY <1>3, <1>4, <1>5, <1>6 DEF Next

LEMMA StepTypeOK ==
    ASSUME TypeOK, InScript, Ready, [Next]_vars
    PROVE  TypeOK'
  <1>1. /\ lab' = lab
        /\ pc' \in [Procs -> 1..8]
        /\ fate' \in [Procs -> {"running", "done", "failed", "killed"}]
    BY SameLab, StepWalked DEF Walked
  <1>2. NetOK'
    <2>1. CASE UNCHANGED vars
      BY <2>1 DEF vars, TypeOK, NetOK
    <2>2. ASSUME NEW p \in Procs, Kill(p) PROVE NetOK'
      BY <2>2, EndNetOK DEF Kill
    <2>3. QED
      BY <2>1, <2>2, ServerNetOK, ClientNetOK, KidNetOK DEF Next
  <1>3. UserOK'
    BY StepUserOK
  <1>4. QED
    BY <1>1, <1>2, <1>3 DEF TypeOK, NetOK, UserOK

-----------------------------------------------------------------------------
(* Who holds the port.  A step takes it from nobody that runs on. *)
LEMMA PortStays ==
    ASSUME TypeOK, [Next]_vars
    PROVE  /\ \A s \in Servers : s \in bound /\ fate'[s] = "running" => s \in bound'
           /\ \/ listener' = listener
              \/ listener' = NoServer /\ (listener \in Servers => fate'[listener] # "running")
              \/ listener = NoServer /\ \E s \in Servers : Listen(s) /\ listener' = s
  <1>1. fate \in [Procs -> {"running", "done", "failed", "killed"}] /\ bound \subseteq Servers
    BY DEF TypeOK
  <1>2. CASE UNCHANGED <<bound, listener>>
    BY <1>2
  <1>3. ASSUME NEW p \in Procs, NEW how \in {"done", "failed", "killed"}, End(p, how)
        PROVE  /\ \A s \in Servers : s \in bound /\ fate'[s] = "running" => s \in bound'
               /\ \/ listener' = listener
                  \/ listener' = NoServer /\ (listener \in Servers => fate'[listener] # "running")
    <2>1. EndDid(p, how) /\ fate'[p] # "running"
      BY <1>1, <1>3, EndFacts DEF EndDid
    <2>2. QED
      BY <2>1 DEF EndDid
  <1>4. ASSUME NEW c \in Clients, KidClose(c)
        PROVE  /\ \A s \in Servers : s \in bound /\ fate'[s] = "running" => s \in bound'
               /\ \/ listener' = listener
                  \/ listener' = NoServer /\ (listener \in Servers => fate'[listener] # "running")
    <2> DEFINE t == link[c].server
    <2>1. UNCHANGED <<bound, listener>> \/ (~Running(t) /\ Release(t, link))
      BY <1>4 DEF KidClose
    <2>2. link \in [Clients -> Links] /\ fate' = fate
      BY <1>4 DEF TypeOK, KidClose
    <2> HIDE DEF t
    <2>3. CASE ~Running(t) /\ Release(t, link)
      <3>1. bound' = bound \ {t} /\ (listener' = listener \/ (listener = t /\ listener' = NoServer))
        BY <2>2, <2>3, ReleaseFacts
      <3>2. QED
        BY <2>2, <2>3, <3>1 DEF Running
    <2>4. QED
      BY <2>1, <2>3
  <1>5. ASSUME NEW s \in Servers, Server(s)
        PROVE  \/ End(s, "done") \/ End(s, "failed") \/ UNCHANGED <<bound, listener>>
               \/ bound' = bound \cup {s} /\ UNCHANGED listener
               \/ Listen(s) /\ UNCHANGED bound /\ (UNCHANGED listener \/ (listener = NoServer /\ listener' = s))
    <2>1. CASE Listen(s)
      BY <2>1 DEF Listen
    <2>2. CASE Bind(s)
      BY <2>2 DEF Bind, Fail
    <2>3. QED
      BY <1>5, <2>1, <2>2 DEF Server, Setup, Accept, Spawn, Read, Reply, Exit, Fork, RecvHello,
                              SendGreeting, Unconnected, Fail, net
  <1>6. ASSUME NEW c \in Clients, Client(c)
        PROVE  End(c, "done") \/ End(c, "failed") \/ UNCHANGED <<bound, listener>>
    BY <1>6 DEF Client, Setup, Connect, Ask, AskNothing, AskDate, Write, Receive, Exit, SendHello,
                RecvGreeting, Unconnected, Fail, net
  <1>7. ASSUME NEW c \in Clients, KidSend(c) PROVE UNCHANGED <<bound, listener>>
    BY <1>7 DEF KidSend
  <1>8. CASE UNCHANGED vars
    BY <1>8 DEF vars
  <1>9. ASSUME NEW s \in Servers, Server(s)
        PROVE  /\ \A t \in Servers : t \in bound /\ fate'[t] = "running" => t \in bound'
               /\ \/ listener' = listener
                  \/ listener' = NoServer /\ (listener \in Servers => fate'[listener] # "running")
                  \/ listener = NoServer /\ \E t \in Servers : Listen(t) /\ listener' = t
    BY <1>3, <1>5, <1>9 DEF Procs
  <1>10. ASSUME NEW c \in Clients, Client(c)
        PROVE  /\ \A s \in Servers : s \in bound /\ fate'[s] = "running" => s \in bound'
               /\ \/ listener' = listener
                  \/ listener' = NoServer /\ (listener \in Servers => fate'[listener] # "running")
    BY <1>3, <1>6, <1>10 DEF Procs
  <1>11. ASSUME NEW p \in Procs, Kill(p)
        PROVE  /\ \A s \in Servers : s \in bound /\ fate'[s] = "running" => s \in bound'
               /\ \/ listener' = listener
                  \/ listener' = NoServer /\ (listener \in Servers => fate'[listener] # "running")
    BY <1>3, <1>11 DEF Kill
  <1>12. QED
    BY <1>2, <1>4, <1>7, <1>8, <1>9, <1>10, <1>11 DEF Next, Kid

(* Only a call of its own takes a server further. *)
LEMMA Mover ==
    ASSUME TypeOK, InScript, [Next]_vars, NEW s \in Servers, pc'[s] # pc[s]
    PROVE  Server(s) /\ fate' = fate
  <1>1. s \in Procs /\ s \notin Clients
    BY ScriptFacts
  <1>2. pc \in [Procs -> 1..8]
    BY DEF TypeOK
  <1>3. ASSUME NEW p \in Procs, NEW how, End(p, how) PROVE FALSE
    BY <1>3, EndFacts DEF EndDid
  <1>4. ASSUME NEW t \in Servers, Server(t) PROVE Server(s) /\ fate' = fate
    <2>1. fate' = fate /\ \E n : pc' = [pc EXCEPT ![t] = n]
      BY <1>3, <1>4, ServerSteps DEF Procs
    <2>2. t = s
      BY <1>1, <1>2, <2>1
    <2>3. QED
      BY <1>4, <2>1, <2>2
  <1>5. ASSUME NEW c \in Clients, Client(c) PROVE FALSE
    <2>1. \E n : pc' = [pc EXCEPT ![c] = n]
      BY <1>3, <1>5, ClientSteps DEF Procs
    <2>2. QED
      BY <1>1, <1>2, <1>5, <2>1
  <1>6. ASSUME NEW c \in Clients, Kid(c) PROVE FALSE
    BY <1>6 DEF Kid, KidClose, KidSend
  <1>7. ASSUME NEW p \in Procs, Kill(p) PROVE FALSE
    BY <1>3, <1>7 DEF Kill
  <1>8. CASE UNCHANGED vars
    BY <1>8 DEF vars
  <1>9. QED
    BY <1>4, <1>5, <1>6, <1>7, <1>8 DEF Next
LEMMA NoCallAtStart ==
    ASSUME TypeOK, NEW s \in Servers, Setup(s)
    PROVE  Call(s) \in Local
  <1>1. pc[s] = 1 /\ ServerFacts(Script(s))
    BY ScriptFacts DEF Setup
  <1>2. QED
    BY <1>1 DEF ServerFacts, Call
LEMMA MoverBinds ==
    ASSUME TypeOK, InScript, [Next]_vars, NEW s \in Servers, pc'[s] # pc[s], Call(s) = "bind"
    PROVE  s \in bound'
  <1>1. Server(s) /\ s \in Procs
    BY Mover DEF Procs
  <1>2. Bind(s) \/ Exit(s) \/ Unconnected(s)
    BY <1>1, NoCallAtStart DEF Server, Listen, Accept, Spawn, Read, Reply, Fork, RecvHello,
                               SendGreeting, At, Call, Local
  <1>3. ~End(s, "done") /\ ~End(s, "failed")
    BY <1>1, EndFacts DEF EndDid
  <1>4. QED
    BY <1>2, <1>3 DEF Bind, Exit, Unconnected, Fail

LEMMA StepReady ==
    ASSUME TypeOK, InScript, Ready, [Next]_vars
    PROVE  Ready'
  <1> SUFFICES ASSUME NEW s \in Servers, fate'[s] = "running", Call(s)' \notin Local \cup {"bind"}
               PROVE  s \in bound'
    BY DEF Ready, Running
  <1>1. Running(s)
    BY StepWalked DEF Walked, Procs
  <1>2. CASE Call(s) = "bind"
    <2>1. pc'[s] # pc[s]
      <3>1. pc[s] \in Int
        BY DEF TypeOK, Procs
      <3>2. QED
        BY <1>2, <3>1, ServerCall DEF Local
    <2>2. QED
      BY <1>2, <2>1, MoverBinds
  <1>3. CASE Call(s) # "bind"
    <2>1. Call(s) \notin Local
      BY <1>3, ServerCall DEF Local
    <2>2. s \in bound
      BY <1>1, <1>3, <2>1 DEF Ready
    <2>3. QED
      BY <2>2, PortStays
  <1>4. QED
    BY <1>2, <1>3

LEMMA StepListening ==
    ASSUME TypeOK, InScript, Listening, [Next]_vars
    PROVE  Listening'
  <1> SUFFICES ASSUME NEW s \in Servers, fate'[s] = "running", listener' = s
               PROVE  Call(s)' \notin Local \cup {"bind", "listen"}
    BY DEF Listening, Running
  <1>1. Running(s) /\ s # NoServer
    BY StepWalked, ProgramsAssumption DEF Walked, Procs
  <1>2. CASE listener = s
    <2>1. Call(s) \notin Local \cup {"bind", "listen"}
      BY <1>1, <1>2 DEF Listening
    <2>2. QED
      BY <2>1, ServerCall DEF Local
  <1>3. CASE Listen(s)
    <2>1. Call(s) = "listen" /\ pc' = [pc EXCEPT ![s] = pc[s] + 1] /\ pc \in [Procs -> 1..8]
      BY <1>3 DEF Listen, At, Call, Advance, TypeOK
    <2>2. pc'[s] # pc[s]
      BY <2>1 DEF Procs
    <2>3. QED
      BY <2>1, <2>2, ServerCall DEF Local
  <1>4. QED
    BY <1>1, <1>2, <1>3, PortStays

-----------------------------------------------------------------------------
(* Which exercise a call belongs to. *)
LEMMA LabCalls ==
    ASSUME TypeOK, InScript
    PROVE  /\ \A s \in Servers :
                 /\ Call(s) = "fork" => lab = "simple"
                 /\ Call(s) \in {"recv_hello", "send_greeting"} => lab = "q1_udp"
                 /\ Call(s) = "recvfrom" => lab = "chat_udp"
                 /\ Call(s) # "sendto"
                 /\ Call(s) = "exit" /\ lab # "q1_udp" => OneShot
                 /\ OneShot => /\ Script(s) = Q1TcpServer /\ Call(s) \notin {"fork", "spawn"}
                               /\ Call(s) = "exit" => pc[s] = 8
           /\ \A c \in Clients :
                 /\ Call(c) = "send_hello" => lab = "q1_udp"
                 /\ Call(c) = "connect" => lab # "q1_udp"
                 /\ Call(c) = "recv_answer" => lab = "simple"
                 /\ Call(c) = "read_answer" => OneShot
  <1> DEFINE ServerSide ==
          \A s \in Servers :
              /\ Call(s) = "fork" => lab = "simple"
              /\ Call(s) \in {"recv_hello", "send_greeting"} => lab = "q1_udp"
              /\ Call(s) = "recvfrom" => lab = "chat_udp"
              /\ Call(s) # "sendto"
              /\ Call(s) = "exit" /\ lab # "q1_udp" => OneShot
              /\ OneShot => /\ Script(s) = Q1TcpServer /\ Call(s) \notin {"fork", "spawn"}
                            /\ Call(s) = "exit" => pc[s] = 8
             ClientSide ==
          \A c \in Clients :
              /\ Call(c) = "send_hello" => lab = "q1_udp"
              /\ Call(c) = "connect" => lab # "q1_udp"
              /\ Call(c) = "recv_answer" => lab = "simple"
              /\ Call(c) = "read_answer" => OneShot
  <1>1. /\ \A s \in Servers : Script(s) = Lab[lab].server /\ pc[s] \in 1..Len(Lab[lab].server)
        /\ \A c \in Clients : Script(c) = Lab[lab].client /\ pc[c] \in 1..Len(Lab[lab].client)
    BY ProgramsAssumption DEF Script, InScript, Indices, Procs
  <1>2. CASE lab = "q1_tcp"
    <2>1. Lab[lab].server = Q1TcpServer /\ Lab[lab].client = Q1TcpClient
      BY <1>2 DEF Lab
    <2>2. QED
      BY <1>1, <1>2, <2>1 DEF OneShot, Call, Q1TcpServer, Q1TcpClient
  <1>3. CASE lab = "q1_udp"
    <2>1. Lab[lab].server = Q1UdpServer /\ Lab[lab].client = Q1UdpClient
      BY <1>3 DEF Lab
    <2>2. QED
      BY <1>1, <1>3, <2>1 DEF OneShot, Call, Q1UdpServer, Q1UdpClient
  <1>4. CASE lab = "q2"
    <2>1. Lab[lab].server = Q2Server /\ Lab[lab].client = Q2Client
      BY <1>4 DEF Lab
    <2>2. Q2Server = Q1TcpServer
      BY DEF Q2Server, Q1TcpServer
    <2>3. QED
      BY <1>1, <1>4, <2>1, <2>2 DEF OneShot, Call, Q1TcpServer, Q2Client
  <1>5. CASE lab = "q3"
    <2>1. Lab[lab].server = Q3Server /\ Lab[lab].client = Q3Client
      BY <1>5 DEF Lab
    <2>2. QED
      BY <1>1, <1>5, <2>1 DEF OneShot, Call, Q3Server, Q3Client
  <1>6. CASE lab = "simple"
    <2>1. Lab[lab].server = SimpleServer /\ Lab[lab].client = SimpleClient
      BY <1>6 DEF Lab
    <2>2. QED
      BY <1>1, <1>6, <2>1 DEF OneShot, Call, SimpleServer, SimpleClient
  <1>7. CASE lab = "chat"
    <2>1. Lab[lab].server = ChatServer /\ Lab[lab].client = ChatClient
      BY <1>7 DEF Lab
    <2>2. QED
      BY <1>1, <1>7, <2>1 DEF OneShot, Call, ChatServer, ChatClient
  <1>8. CASE lab = "group"
    <2>1. Lab[lab].server = GroupServer /\ Lab[lab].client = GroupClient
      BY <1>8 DEF Lab
    <2>2. QED
      BY <1>1, <1>8, <2>1 DEF OneShot, Call, GroupServer, GroupClient
  <1>9. CASE lab = "chat_udp"
    <2>1. Lab[lab].server = UdpChatServer /\ Lab[lab].client = UdpChatClient
      BY <1>9 DEF Lab
    <2>2. QED
      BY <1>1, <1>9, <2>1 DEF OneShot, Call, UdpChatServer, UdpChatClient
  <1>10. QED
    BY <1>2, <1>3, <1>4, <1>5, <1>6, <1>7, <1>8, <1>9, LabNames

-----------------------------------------------------------------------------
(* What a step may do to the connection of a client.  The server's end is  *)
(* lost, and everything the server had not taken from it is reset;         *)
Lost(c) ==
    /\ link'[c].server = link[c].server /\ link'[c].answer = link[c].answer
    /\ \/ /\ link[c].state = "queued" /\ link'[c].state = "reset"
          /\ link[c].server # listener \/ (listener' = NoServer /\ queue' = <<>>)
       \/ /\ link[c].server \in Servers /\ kid[c] \notin {"start", "send"}
          /\ \/ link[c].state = "none" /\ link'[c].state = "none"
             \/ /\ link[c].state = "open" /\ link'[c].state \in {"closed", "reset"}
                /\ \/ Kill(link[c].server)
                   \/ /\ Server(link[c].server)
                      /\ End(link[c].server, "done") \/ End(link[c].server, "failed")
(* the client connects and is queued, it is accepted;                      *)
Queues(c) ==
    /\ Running(c) /\ Call(c) = "connect" /\ pc'[c] # pc[c] /\ listener # NoServer
    /\ link'[c] = [link[c] EXCEPT !.state = "queued", !.server = listener]
Taken(c) ==
    /\ queue # <<>> /\ c = Head(queue) /\ queue' = Tail(queue)
    /\ link'[c] = [link[c] EXCEPT !.state = "open"]
    /\ listener \in Servers /\ Call(listener) = "accept" /\ pc'[listener] = pc[listener] + 1
(* a failed fork closes it, a child answers it, its client writes to it or *)
(* its server reads from it and replies;                                   *)
Refused(c) ==
    /\ lab = "simple" /\ kid[c] = "none" /\ link[c].state = "open" /\ misfork'
    /\ link'[c] = [link[c] EXCEPT !.state = "closed"]
Told(c) ==
    /\ kid[c] = "send" /\ kid'[c] = "gone"
    /\ link'[c] = [link[c] EXCEPT !.answer = TRUE, !.state = "closed"]
Asked(c) ==
    /\ Call(c) \in {"ask", "ask_date"}
    /\ link'[c].server = link[c].server /\ link'[c].answer = link[c].answer
    /\ link'[c].state = link[c].state \/ (link[c].state = "closed" /\ link'[c].state = "reset")
Served(c) ==
    /\ link[c].state = "open" /\ link'[c].state = "open"
    /\ link'[c].server = link[c].server /\ link'[c].answer \in {link[c].answer, TRUE}
(* or a datagram comes or goes.                                            *)
Datagram(c) ==
    /\ lab = "q1_udp"
    /\ \/ Call(c) = "send_hello" /\ pc'[c] # pc[c]
       \/ link[c].request \/ link[c].state = "peer"
LinkStep(c) ==
    \/ link'[c] = link[c] \/ Lost(c) \/ Queues(c) \/ Taken(c) \/ Refused(c) \/ Told(c) \/ Asked(c)
    \/ Served(c) \/ Datagram(c)

LEMMA EndLinks ==
    ASSUME TypeOK, NEW p \in Servers, NEW c \in Clients,
           \/ Kill(p)
           \/ Server(p) /\ (End(p, "done") \/ End(p, "failed"))
    PROVE  LinkStep(c)
  <1>1. p \in Procs /\ p \notin Clients
    BY ScriptFacts
  <1>2. ASSUME NEW how, End(p, how) PROVE link'[c] = link[c] \/ Lost(c)
    <2>1. EndDid(p, how)
      BY <1>1, <1>2, EndFacts
    <2>2. CASE link[c].state = "queued"
      BY <2>1, <2>2 DEF EndDid, Lost
    <2>3. CASE link[c].state # "queued"
      BY <1>1, <2>1, <2>3 DEF EndDid, Lost
    <2>4. QED
      BY <2>2, <2>3
  <1>3. QED
    BY <1>2 DEF LinkStep, Kill

LEMMA ServerLinks ==
    ASSUME TypeOK, InScript, NEW s \in Servers, Server(s), NEW c \in Clients
    PROVE  LinkStep(c)
  <1>1. link \in [Clients -> Links] /\ s \in Procs /\ pc \in [Procs -> 1..8]
    BY DEF TypeOK, Procs
  <1>2. CASE Fail(s) \/ Exit(s)
    BY <1>2, EndLinks DEF Fail, Exit
  <1>3. CASE link' = link
    BY <1>3 DEF LinkStep
  <1>4. CASE Setup(s) \/ Bind(s) \/ Listen(s) \/ Spawn(s) \/ Unconnected(s)
    BY <1>2, <1>3, <1>4 DEF Setup, Bind, Listen, Spawn, Unconnected, net
  <1>5. CASE Accept(s)
    <2>1. CASE /\ listener = s /\ queue # <<>>
               /\ link' = [link EXCEPT ![Head(queue)].state = "open"]
               /\ queue' = Tail(queue) /\ Advance(s)
      <3>1. Head(queue) \in Clients
        BY <2>1, HeadTailProperties DEF TypeOK
      <3>2. CASE c = Head(queue)
        <4>1. link'[c] = [link[c] EXCEPT !.state = "open"]
          BY <1>1, <2>1, <3>1, <3>2
        <4>2. Call(s) = "accept" /\ pc'[s] = pc[s] + 1
          BY <1>1, <1>5, <2>1 DEF Accept, At, Call, Advance
        <4>3. QED
          BY <2>1, <3>2, <4>1, <4>2 DEF Taken, LinkStep
      <3>3. CASE c # Head(queue)
        BY <1>1, <2>1, <3>1, <3>3 DEF LinkStep
      <3>4. QED
        BY <3>2, <3>3
    <2>2. QED
      BY <1>2, <1>5, <2>1 DEF Accept
  <1>6. CASE Read(s) \/ Reply(s)
    <2>1. PICK d \in Accepted(s) : \/ link' = [link EXCEPT ![d].request = FALSE]
                                   \/ link' = [link EXCEPT ![d].answer = TRUE]
      BY <1>6 DEF Read, Reply
    <2>2. link[d].state = "open" /\ d \in Clients
      BY <2>1 DEF Accepted
    <2>3. link'[c] = link[c] \/ Served(c)
      <3>1. link[d] \in Links
        BY <1>1, <2>2
      <3>2. CASE link' = [link EXCEPT ![d].request = FALSE]
        BY <1>1, <2>2, <3>1, <3>2 DEF Served, Links
      <3>3. CASE link' = [link EXCEPT ![d].answer = TRUE]
        BY <1>1, <2>2, <3>1, <3>3 DEF Served, Links
      <3>4. QED
        BY <2>1, <3>2, <3>3
    <2>4. QED
      BY <2>3 DEF LinkStep
  <1>7. CASE Fork(s)
    <2>1. PICK d \in Accepted(s) : \/ link' = link
                                   \/ link' = [link EXCEPT ![d].state = "closed"] /\ misfork'
      BY <1>7 DEF Fork
    <2>2. lab = "simple"
      BY <1>7, LabCalls DEF Fork, At, Call
    <2>3. link[d].state = "open" /\ kid[d] = "none" /\ d \in Clients
      BY <2>1 DEF Accepted
    <2>4. link'[c] = link[c] \/ Refused(c)
      BY <1>1, <2>1, <2>2, <2>3 DEF Refused
    <2>5. QED
      BY <2>4 DEF LinkStep
  <1>8. CASE RecvHello(s) \/ SendGreeting(s)
    <2>1. lab = "q1_udp"
      BY <1>8, LabCalls DEF RecvHello, SendGreeting, At, Call
    <2>2. link'[c] = link[c] \/ link[c].request \/ link[c].state = "peer"
      BY <1>1, <1>8 DEF RecvHello, SendGreeting
    <2>3. QED
      BY <2>1, <2>2 DEF Datagram, LinkStep
  <1>9. QED
    BY <1>2, <1>4, <1>5, <1>6, <1>7, <1>8 DEF Server

LEMMA ClientLinks ==
    ASSUME TypeOK, InScript, NEW d \in Clients, Client(d), NEW c \in Clients
    PROVE  LinkStep(c)
  <1>1. link \in [Clients -> Links] /\ d \in Procs /\ pc \in [Procs -> 1..8]
    BY DEF TypeOK, Procs
  <1>2. CASE Fail(d) \/ Exit(d)
    BY <1>2 DEF Fail, Exit, End, net, LinkStep
  <1>3. CASE link' = link
    BY <1>3 DEF LinkStep
  <1>4. CASE Setup(d) \/ AskNothing(d) \/ Receive(d) \/ RecvGreeting(d) \/ Unconnected(d)
    BY <1>2, <1>3, <1>4 DEF Setup, AskNothing, Receive, RecvGreeting, Unconnected, net
  <1>5. Advance(d) => pc'[d] # pc[d]
    BY <1>1 DEF Advance
  <1>6. CASE Connect(d)
    <2>1. CASE /\ listener # NoServer /\ Advance(d)
               /\ link' = [link EXCEPT ![d].state = "queued", ![d].server = listener]
      <3>1. CASE c = d
        <4>1. link'[c] = [link[c] EXCEPT !.state = "queued", !.server = listener]
          BY <1>1, <2>1, <3>1
        <4>2. Running(c) /\ Call(c) = "connect"
          BY <1>6, <3>1 DEF Connect, At, Call
        <4>3. QED
          BY <1>5, <2>1, <3>1, <4>1, <4>2 DEF Queues, LinkStep
      <3>2. CASE c # d
        BY <1>1, <2>1, <3>2 DEF LinkStep
      <3>3. QED
        BY <3>1, <3>2
    <2>2. QED
      BY <1>2, <1>6, <2>1 DEF Connect
  <1>7. CASE Ask(d) \/ AskDate(d)
    <2>1. CASE link' = [link EXCEPT ![d].request = (link[d].state # "closed"),
                                    ![d].state = IF @ = "closed" THEN "reset" ELSE @]
      <3>1. Call(d) \in {"ask", "ask_date"}
        BY <1>7 DEF Ask, AskDate, At, Call
      <3>2. CASE c = d
        <4>1. link[c] \in Links
          BY <1>1
        <4>2. link'[c] = [link[c] EXCEPT !.request = (link[c].state # "closed"),
                              !.state = IF link[c].state = "closed" THEN "reset" ELSE link[c].state]
          BY <1>1, <2>1, <3>2
        <4>3. Asked(c)
          BY <3>1, <3>2, <4>1, <4>2 DEF Asked, Links
        <4>4. QED
          BY <4>3 DEF LinkStep
      <3>3. CASE c # d
        BY <1>1, <2>1, <3>3 DEF LinkStep
      <3>4. QED
        BY <3>2, <3>3
    <2>2. QED
      BY <1>2, <1>7, <2>1 DEF Ask, AskDate, Write
  <1>8. CASE SendHello(d)
    <2>1. Call(d) = "send_hello" /\ Advance(d)
      BY <1>8 DEF SendHello, At, Call
    <2>2. lab = "q1_udp"
      BY <2>1, LabCalls
    <2>3. c = d \/ link'[c] = link[c]
      BY <1>1, <1>8 DEF SendHello
    <2>4. QED
      BY <1>5, <2>1, <2>2, <2>3 DEF Datagram, LinkStep
  <1>9. QED
    BY <1>2, <1>4, <1>6, <1>7, <1>8 DEF Client

LEMMA KidLinks ==
    ASSUME TypeOK, NEW d \in Clients, Kid(d), NEW c \in Clients
    PROVE  LinkStep(c)
  <1>1. link \in [Clients -> Links] /\ kid \in [Clients -> {"none", "start", "send", "gone"}]
    BY DEF TypeOK
  <1>2. CASE KidClose(d)
    <2> DEFINE s == link[d].server
    <2>1. link' = link \/ Release(s, link)
      BY <1>2 DEF KidClose
    <2> HIDE DEF s
    <2>2. CASE Release(s, link)
      <3>1. \/ link'[c] = link[c]
            \/ /\ link[c].server = s /\ link[c].state = "queued"
               /\ link'[c] = [link[c] EXCEPT !.state = "reset"]
        BY <1>1, <2>2, ReleaseFacts
      <3>2. listener # s \/ (listener' = NoServer /\ queue' = <<>>)
        BY <1>1, <2>2, ReleaseFacts
      <3>3. link'[c] = link[c] \/ Lost(c)
        BY <1>1, <3>1, <3>2 DEF Lost, Links
      <3>4. QED
        BY <3>3 DEF LinkStep
    <2>3. QED
      BY <2>1, <2>2 DEF LinkStep
  <1>3. CASE KidSend(d)
    BY <1>1, <1>3 DEF KidSend, LinkStep, Told
  <1>4. QED
    BY <1>2, <1>3 DEF Kid

LEMMA LinkSteps ==
    ASSUME TypeOK, InScript, [Next]_vars, NEW c \in Clients
    PROVE  LinkStep(c)
  <1>1. CASE UNCHANGED vars
    BY <1>1 DEF vars, LinkStep
  <1>2. ASSUME NEW p \in Procs, Kill(p) PROVE LinkStep(c)
    <2>1. CASE p \in Servers
      BY <1>2, <2>1, EndLinks
    <2>2. CASE p \in Clients
      BY <1>2, <2>2 DEF Kill, End, net, LinkStep
    <2>3. QED
      BY <2>1, <2>2 DEF Procs
  <1>3. QED
    BY <1>1, <1>2, ServerLinks, ClientLinks, KidLinks DEF Next

-----------------------------------------------------------------------------
(* Who is connected to whom. *)
LEMMA HeadQueued ==
    ASSUME TypeOK, Queued, queue # <<>>
    PROVE  /\ Head(queue) \in Clients /\ link[Head(queue)].state = "queued"
           /\ link[Head(queue)].server = listener
  <1>1. queue \in Seq(Clients)
    BY DEF TypeOK
  <1>2. Head(queue) \in Clients
    BY <1>1, HeadTailProperties
  <1>3. Head(queue) = queue[1] /\ 1 \in 1..Len(queue)
    BY <1>1, EmptySeq, LenProperties
  <1>4. QED
    BY <1>2, <1>3 DEF Queued, Waits

LEMMA StepLinked ==
    ASSUME TypeOK, InScript, Linked, [Next]_vars
    PROVE  Linked'
  <1> SUFFICES ASSUME lab # "q1_udp", NEW c \in Clients, NEW s \in Servers,
                      link'[c].server = s, fate'[s] = "running"
               PROVE  listener' = s
    BY SameLab DEF Linked, Running
  <1>1. link[c] \in Links /\ Running(s) /\ s # NoServer
    BY StepWalked, ProgramsAssumption DEF TypeOK, Walked, Procs
  <1>2. link[c].server = s \/ listener = s
    BY <1>1, LinkSteps DEF LinkStep, Lost, Queues, Taken, Refused, Told, Asked, Served, Datagram, Links
  <1>3. listener = s
    BY <1>1, <1>2 DEF Linked
  <1>4. QED
    BY <1>1, <1>3, PortStays

LEMMA StepFresh ==
    ASSUME TypeOK, InScript, Fresh, Kids, Queued, [Next]_vars
    PROVE  Fresh'
  <1> SUFFICES ASSUME NEW c \in Clients, fate'[c] = "running",
                      Call(c)' \in Local \cup {"connect", "send_hello"}
               PROVE  link'[c] = NoLink
    BY DEF Fresh, Running, NoLink
  <1>1. Running(c)
    BY StepWalked DEF Walked, Procs
  <1>2. \/ pc'[c] = pc[c] /\ Call(c) \in Local \cup {"connect", "send_hello"}
        \/ Call(c) \in Local
    BY ClientCall
  <1>3. link[c] = NoLink
    BY <1>1, <1>2 DEF Fresh
  <1>4. /\ link[c].state = "none" /\ link[c].server \notin Servers
        /\ ~link[c].request /\ kid[c] # "send"
    BY <1>3, ProgramsAssumption DEF NoLink, Kids
  <1>5. ~Lost(c) /\ ~Refused(c) /\ ~Told(c) /\ ~Served(c)
    BY <1>4 DEF Lost, Refused, Told, Served
  <1>6. ~Queues(c) /\ ~Datagram(c) /\ ~Asked(c)
    BY <1>2, <1>4 DEF Queues, Datagram, Asked, Local
  <1>7. ~Taken(c)
    BY <1>4, HeadQueued DEF Taken
  <1>8. QED
    BY <1>3, <1>5, <1>6, <1>7, LinkSteps DEF LinkStep

LEMMA StepMisforks ==
    ASSUME TypeOK, InScript, Misforks, [Next]_vars
    PROVE  Misforks' /\ (misfork => misfork') /\ (kills > 0 => kills' > 0)
  <1>1. misfork \in BOOLEAN /\ kills \in Nat /\ lab' = lab
    BY SameLab, ProgramsAssumption DEF TypeOK
  <1>2. CASE UNCHANGED <<misfork, kills>>
    BY <1>1, <1>2 DEF Misforks
  <1>3. ASSUME NEW s \in Servers, Server(s)
        PROVE  UNCHANGED <<misfork, kills>> \/ (Call(s) = "fork" /\ kills' = kills /\ misfork' \in {misfork, TRUE})
    BY <1>3 DEF Server, Setup, Bind, Listen, Accept, Spawn, Read, Reply, Exit, Fork, RecvHello,
                SendGreeting, Unconnected, Quiet, At, Call
  <1>4. ASSUME NEW s \in Servers, Server(s)
        PROVE  Misforks' /\ (misfork => misfork') /\ (kills > 0 => kills' > 0)
    BY <1>1, <1>2, <1>3, <1>4, LabCalls DEF Misforks
  <1>5. ASSUME NEW c \in Clients, Client(c) \/ Kid(c) PROVE UNCHANGED <<misfork, kills>>
    BY <1>5 DEF Client, Kid, Setup, Connect, Ask, AskNothing, AskDate, Receive, Exit, SendHello,
                RecvGreeting, Unconnected, KidClose, KidSend, Quiet
  <1>6. ASSUME NEW p \in Procs, Kill(p)
        PROVE  Misforks' /\ (misfork => misfork') /\ (kills > 0 => kills' > 0)
    BY <1>1, <1>6 DEF Kill, Misforks
  <1>7. CASE UNCHANGED vars
    BY <1>2, <1>7 DEF vars
  <1>8. QED
    BY <1>2, <1>4, <1>5, <1>6, <1>7 DEF Next

(* What becomes of the children. *)
LEMMA KidSteps ==
    ASSUME TypeOK, InScript, [Next]_vars, NEW c \in Clients
    PROVE  \/ kid'[c] = kid[c]
           \/ kid[c] = "none" /\ lab = "simple" /\ link[c].state = "open" /\ link'[c] = link[c]
           \/ kid[c] = "start" /\ kid'[c] = "send"
           \/ kid[c] = "send" /\ kid'[c] = "gone"
  <1>1. kid \in [Clients -> {"none", "start", "send", "gone"}]
    BY DEF TypeOK
  <1>2. CASE UNCHANGED kid
    BY <1>2
  <1>3. ASSUME NEW s \in Servers, Server(s), ~Fork(s) PROVE UNCHANGED kid
    BY <1>3 DEF Server, Setup, Bind, Listen, Accept, Spawn, Read, Reply, Exit, RecvHello,
                SendGreeting, Unconnected, Fail, End, net, Procs
  <1>4. ASSUME NEW s \in Servers, Fork(s)
        PROVE  \/ kid'[c] = kid[c]
               \/ kid[c] = "none" /\ lab = "simple" /\ link[c].state = "open" /\ link'[c] = link[c]
    <2>1. lab = "simple"
      BY <1>4, LabCalls DEF Fork, At, Call
    <2>2. QED
      BY <1>1, <1>4, <2>1 DEF Fork, Accepted
  <1>5. ASSUME NEW d \in Clients, Client(d) PROVE UNCHANGED kid
    BY <1>5 DEF Client, Setup, Connect, Ask, AskNothing, AskDate, Write, Receive, Exit, SendHello,
                RecvGreeting, Unconnected, Fail, End, net
  <1>6. ASSUME NEW d \in Clients, Kid(d)
        PROVE  \/ kid'[c] = kid[c]
               \/ kid[c] = "start" /\ kid'[c] = "send"
               \/ kid[c] = "send" /\ kid'[c] = "gone"
    BY <1>1, <1>6 DEF Kid, KidClose, KidSend
  <1>7. ASSUME NEW p \in Procs, Kill(p) PROVE UNCHANGED kid
    BY <1>7 DEF Kill, End, net
  <1>8. CASE UNCHANGED vars
    BY <1>8 DEF vars
  <1>9. QED
    BY <1>2, <1>3, <1>4, <1>5, <1>6, <1>7, <1>8 DEF Next

LEMMA StepKids ==
    ASSUME TypeOK, InScript, Fresh, Kids, Queued, [Next]_vars
    PROVE  Kids'
  <1> SUFFICES ASSUME NEW c \in Clients
               PROVE  /\ kid'[c] # "none" => lab = "simple"
                      /\ kid'[c] \in {"start", "send"} => link'[c].state = "open"
    BY SameLab DEF Kids
  <1>1. kid'[c] # "none" => lab = "simple"
    BY KidSteps DEF Kids
  <1>2. ASSUME kid'[c] \in {"start", "send"} PROVE link'[c].state = "open"
    <2>1. CASE kid[c] = "none"
      BY <1>2, <2>1, KidSteps
    <2>2. CASE kid[c] \in {"start", "send"}
      <3>1. link[c].state = "open" /\ lab = "simple"
        BY <2>2 DEF Kids
      <3>2. ~Lost(c) /\ ~Refused(c) /\ ~Told(c) /\ ~Datagram(c)
        BY <1>2, <2>2, <3>1 DEF Lost, Refused, Told, Datagram
      <3>3. ~Queues(c)
        BY <3>1 DEF Queues, Fresh, NoLink
      <3>4. ~Taken(c)
        BY <3>1, HeadQueued DEF Taken
      <3>5. QED
        BY <3>1, <3>2, <3>3, <3>4, LinkSteps DEF LinkStep, Asked, Served
    <2>3. QED
      BY <1>2, <2>1, <2>2, KidSteps DEF TypeOK
  <1>3. QED
    BY <1>1, <1>2

(* What a step may do to the queue. *)
QueueStep ==
    \/ queue' = <<>>
    \/ UNCHANGED queue /\ (listener' = listener \/ listener = NoServer)
    \/ \E c \in Clients : /\ Queues(c) /\ queue' = Append(queue, c) /\ listener' = listener
                          /\ \A d \in Clients : d # c => link'[d] = link[d]
    \/ /\ queue # <<>> /\ queue' = Tail(queue) /\ listener' = listener
       /\ \A d \in Clients : d # Head(queue) => link'[d] = link[d]

LEMMA QueueSteps ==
    ASSUME TypeOK, InScript, [Next]_vars
    PROVE  QueueStep
  <1>1. link \in [Clients -> Links] /\ pc \in [Procs -> 1..8]
    BY DEF TypeOK
  <1>2. CASE UNCHANGED <<queue, listener>>
    BY <1>2 DEF QueueStep
  <1>3. ASSUME NEW p \in Procs, NEW how, End(p, how) PROVE QueueStep
    BY <1>3, EndFacts DEF EndDid, QueueStep
  <1>4. ASSUME NEW s \in Servers, Server(s) PROVE QueueStep
    <2>1. s \in Procs
      BY DEF Procs
    <2>2. CASE Accept(s)
      <3>1. CASE /\ queue # <<>> /\ link' = [link EXCEPT ![Head(queue)].state = "open"]
                 /\ queue' = Tail(queue) /\ UNCHANGED listener
        <4>1. \A d \in Clients : d # Head(queue) => link'[d] = link[d]
          BY <1>1, <3>1
        <4>2. QED
          BY <3>1, <4>1 DEF QueueStep
      <3>2. QED
        BY <1>3, <2>1, <2>2, <3>1 DEF Accept, Fail
    <2>3. CASE Listen(s)
      BY <2>3 DEF Listen, QueueStep
    <2>4. QED
      BY <1>2, <1>3, <1>4, <2>1, <2>2, <2>3
      DEF Server, Setup, Bind, Spawn, Read, Reply, Exit, Fork, RecvHello, SendGreeting,
          Unconnected, Fail, net
  <1>5. ASSUME NEW c \in Clients, Client(c) PROVE QueueStep
    <2>1. c \in Procs
      BY DEF Procs
    <2>2. CASE Connect(c)
      <3>1. CASE /\ listener # NoServer /\ Advance(c) /\ queue' = Append(queue, c)
                 /\ link' = [link EXCEPT ![c].state = "queued", ![c].server = listener]
                 /\ UNCHANGED listener
        <4>1. /\ link'[c] = [link[c] EXCEPT !.state = "queued", !.server = listener]
              /\ \A d \in Clients : d # c => link'[d] = link[d]
          BY <1>1, <3>1
        <4>2. Running(c) /\ Call(c) = "connect" /\ pc'[c] # pc[c]
          BY <1>1, <2>1, <2>2, <3>1 DEF Connect, At, Call, Advance
        <4>3. QED
          BY <3>1, <4>1, <4>2 DEF QueueStep, Queues
      <3>2. QED
        BY <1>3, <2>1, <2>2, <3>1 DEF Connect, Fail
    <2>3. QED
      BY <1>2, <1>3, <1>5, <2>1, <2>2
      DEF Client, Setup, Ask, AskNothing, AskDate, Write, Receive, Exit, SendHello, RecvGreeting,
          Unconnected, Fail, net
  <1>6. ASSUME NEW c \in Clients, Kid(c) PROVE QueueStep
    <2>1. CASE KidClose(c)
      <3> DEFINE s == link[c].server
      <3>1. UNCHANGED <<queue, listener>> \/ Release(s, link)
        BY <2>1 DEF KidClose
      <3> HIDE DEF s
      <3>2. CASE Release(s, link)
        BY <1>1, <3>2, ReleaseFacts DEF QueueStep
      <3>3. QED
        BY <1>2, <3>1, <3>2
    <2>2. QED
      BY <1>2, <1>6, <2>1 DEF Kid, KidSend
  <1>7. ASSUME NEW p \in Procs, Kill(p) PROVE QueueStep
    BY <1>3, <1>7 DEF Kill
  <1>8. CASE UNCHANGED vars
    BY <1>2, <1>8 DEF vars
  <1>9. QED
    BY <1>4, <1>5, <1>6, <1>7, <1>8 DEF Next

LEMMA StepQueued ==
    ASSUME TypeOK, InScript, Fresh, Kids, Queued, [Next]_vars
    PROVE  Queued'
  <1>1. queue \in Seq(Clients) /\ lab' = lab
    BY SameLab DEF TypeOK
  <1>2. PICK L \in Nat : L = Len(queue)
    BY <1>1, LenProperties
  <1>3. \A n \in 1..L : queue[n] \in Clients /\ Waits(queue[n])
    BY <1>1, <1>2, ElementOfSeq DEF Queued
  <1>4. \A m, n \in 1..L : queue[m] = queue[n] => m = n
    BY <1>2 DEF Queued
  <1>5. CASE queue' = <<>>
    <2>1. Len(queue') = 0
      BY <1>5, EmptySeq
    <2>2. QED
      BY <2>1 DEF Queued
  <1>6. CASE UNCHANGED queue /\ listener' = listener
    <2>1. ASSUME NEW d \in Clients, Waits(d) PROVE Waits(d)'
      <3>1. ~Lost(d)
        BY <1>6, <2>1 DEF Lost, Waits
      <3>2. ~Refused(d) /\ ~Told(d) /\ ~Served(d) /\ ~Datagram(d)
        BY <2>1 DEF Refused, Told, Served, Datagram, Waits, Kids
      <3>3. ~Queues(d)
        BY <2>1 DEF Queues, Fresh, NoLink, Waits
      <3>4. ~Taken(d)
        <4>1. SUFFICES ASSUME Taken(d) PROVE FALSE
          OBVIOUS
        <4>2. Len(Tail(queue)) = L - 1
          BY <1>1, <1>2, <4>1, HeadTailProperties DEF Taken
        <4>3. Len(Tail(queue)) = L
          BY <1>2, <1>6, <4>1 DEF Taken
        <4>4. QED
          BY <4>2, <4>3
      <3>5. link'[d].state = link[d].state /\ link'[d].server = link[d].server
        BY <2>1, <3>1, <3>2, <3>3, <3>4, LinkSteps DEF LinkStep, Asked, Waits
      <3>6. QED
        BY <1>1, <1>6, <2>1, <3>5 DEF Waits
    <2>2. \A n \in 1..L : Waits(queue[n])'
      BY <1>3, <1>6, <2>1 DEF Waits
    <2>3. QED
      BY <1>2, <1>4, <1>6, <2>2 DEF Queued
  <1>7. CASE UNCHANGED queue /\ listener = NoServer
    <2>1. \A n \in 1..L : FALSE
      BY <1>3, <1>7 DEF Waits
    <2>2. QED
      BY <1>2, <1>7, <2>1 DEF Queued
  <1>8. ASSUME NEW c \in Clients, Queues(c), queue' = Append(queue, c), listener' = listener,
               \A d \in Clients : d # c => link'[d] = link[d]
        PROVE  Queued'
    <2>1. link[c].state = "none" /\ lab # "q1_udp"
      BY <1>8, LabCalls DEF Queues, Fresh, NoLink
    <2>2. link[c] \in Links
      BY DEF TypeOK
    <2>3. Waits(c)'
      BY <1>1, <1>8, <2>1, <2>2 DEF Waits, Queues, Links
    <2>4. Len(queue') = L + 1 /\ queue'[L + 1] = c /\ \A n \in 1..L : queue'[n] = queue[n]
      BY <1>1, <1>2, <1>8, AppendProperties
    <2>5. \A n \in 1..L : queue[n] # c
      BY <1>3, <2>1 DEF Waits
    <2>6. \A n \in 1..L : Waits(queue[n])'
      BY <1>1, <1>3, <1>8, <2>4, <2>5 DEF Waits
    <2>7. \A n \in 1..(L + 1) : n \in 1..L \/ n = L + 1
      OBVIOUS
    <2>8. \A n \in 1..(L + 1) : Waits(queue[n])'
      BY <2>3, <2>4, <2>6, <2>7 DEF Waits
    <2>9. \A m, n \in 1..(L + 1) : queue'[m] = queue'[n] => m = n
      BY <1>4, <2>4, <2>5, <2>7
    <2>10. QED
      BY <2>4, <2>8, <2>9 DEF Queued
  <1>9. CASE /\ queue # <<>> /\ queue' = Tail(queue) /\ listener' = listener
             /\ \A d \in Clients : d # Head(queue) => link'[d] = link[d]
    <2>1. /\ Len(queue') = L - 1 /\ \A n \in 1..(L - 1) : queue'[n] = queue[n + 1]
          /\ Head(queue) = queue[1] /\ L >= 1
      BY <1>1, <1>2, <1>9, HeadTailProperties, EmptySeq, LenProperties
    <2>2. \A n \in 1..(L - 1) : n + 1 \in 1..L /\ n + 1 # 1 /\ 1 \in 1..L
      BY <2>1
    <2>3. \A n \in 1..(L - 1) : queue[n + 1] # Head(queue)
      BY <1>4, <2>1, <2>2
    <2>4. ASSUME NEW n \in 1..(L - 1) PROVE Waits(queue[n])'
      <3>1. PICK d \in Clients : d = queue[n + 1]
        BY <1>3, <2>2
      <3>2. Waits(d) /\ link'[d] = link[d] /\ queue'[n] = d
        BY <1>3, <1>9, <2>1, <2>2, <2>3, <3>1
      <3>3. QED
        BY <1>1, <1>9, <3>2 DEF Waits
    <2>5. \A m, n \in 1..(L - 1) : queue'[m] = queue'[n] => m = n
      <3>1. SUFFICES ASSUME NEW m \in 1..(L - 1), NEW n \in 1..(L - 1), queue'[m] = queue'[n]
                     PROVE  m = n
        OBVIOUS
      <3>2. queue[m + 1] = queue[n + 1] /\ m + 1 \in 1..L /\ n + 1 \in 1..L
        BY <2>1, <2>2, <3>1
      <3>3. m + 1 = n + 1
        BY <1>4, <3>2
      <3>4. QED
        BY <3>3
    <2>6. QED
      BY <2>1, <2>4, <2>5 DEF Queued
  <1>10. QED
    BY <1>5, <1>6, <1>7, <1>8, <1>9, QueueSteps DEF QueueStep

(* A server of q1 or q2 has at most one connection open. *)
LEMMA OpenBefore ==
    ASSUME TypeOK, InScript, Kids, Queued, OneShot, [Next]_vars, NEW s \in Servers, NEW c \in Open(s)'
    PROVE  \/ c \in Open(s) /\ link'[c].answer \in {link[c].answer, TRUE}
           \/ Taken(c) /\ listener = s
  <1>1. c \in Clients /\ link'[c].server = s /\ link'[c].state = "open" /\ link[c] \in Links
    BY DEF Open, TypeOK
  <1>2. ~Lost(c) /\ ~Queues(c) /\ ~Refused(c) /\ ~Told(c) /\ ~Datagram(c)
    BY <1>1 DEF Lost, Queues, Refused, Told, Datagram, OneShot, Links
  <1>3. CASE Taken(c)
    <2>1. link[c].server = listener
      BY <1>3, HeadQueued DEF Taken
    <2>2. link'[c].server = link[c].server
      BY <1>1, <1>3 DEF Taken, Links
    <2>3. QED
      BY <1>1, <1>3, <2>1, <2>2
  <1>4. CASE link'[c] = link[c] \/ Asked(c) \/ Served(c)
    BY <1>1, <1>4 DEF Asked, Served, Open
  <1>5. QED
    BY <1>1, <1>2, <1>3, <1>4, LinkSteps DEF LinkStep

LEMMA StepServing ==
    ASSUME TypeOK, InScript, Kids, Queued, Serving, [Next]_vars
    PROVE  Serving'
  <1> SUFFICES ASSUME OneShot, NEW s \in Servers, fate'[s] = "running"
               PROVE  /\ pc'[s] <= 5 => Open(s)' = {}
                      /\ \A c, d \in Open(s)' : c = d
                      /\ pc'[s] = 8 => \A c \in Open(s)' : link'[c].answer
    BY SameLab DEF Serving, OneShot, Running
  <1>1. Running(s) /\ s \in Procs
    BY StepWalked DEF Walked, Procs
  <1>2. /\ pc[s] <= 5 => Open(s) = {}
        /\ \A c, d \in Open(s) : c = d
        /\ pc[s] = 8 => \A c \in Open(s) : link[c].answer
    BY <1>1 DEF Serving
  <1>3. Script(s) = Q1TcpServer /\ Call(s) \notin {"fork", "spawn"} /\ pc[s] \in 1..8
    BY <1>1, LabCalls DEF TypeOK
  <1>4. CASE \E c \in Clients : Taken(c) /\ listener = s
    <2>1. PICK c \in Clients : Taken(c) /\ listener = s
      BY <1>4
    <2>2. Call(s) = "accept" /\ pc'[s] = pc[s] + 1
      BY <2>1 DEF Taken
    <2>3. pc[s] = 5
      BY <1>3, <2>2 DEF Call, Q1TcpServer
    <2>4. \A d \in Open(s)' : d = Head(queue)
      <3>1. SUFFICES ASSUME NEW d \in Open(s)' PROVE d = Head(queue)
        OBVIOUS
      <3>2. d \notin Open(s)
        BY <1>2, <2>3
      <3>3. Taken(d)
        BY <3>2, OpenBefore
      <3>4. QED
        BY <3>3 DEF Taken
    <2>5. QED
      BY <2>2, <2>3, <2>4
  <1>5. CASE ~(\E c \in Clients : Taken(c) /\ listener = s)
    <2>1. \A c \in Open(s)' : c \in Open(s) /\ link'[c].answer \in {link[c].answer, TRUE}
      BY <1>5, OpenBefore DEF Open
    <2>2. pc'[s] = pc[s] \/ (pc[s] = 1 /\ Q1TcpServer[pc'[s]] = "bind") \/ pc'[s] = pc[s] + 1
      BY <1>3, StepWalked DEF Walked, ServerMove
    <2>3. pc'[s] \in 1..8
      BY <1>1, StepWalked DEF Walked
    <2>4. pc'[s] <= 5 => pc[s] <= 5
      BY <1>3, <2>2, <2>3
    <2>5. pc'[s] = 8 => pc[s] = 8 \/ pc[s] = 7
      BY <1>3, <2>2, <2>3 DEF Q1TcpServer
    <2>6. ASSUME pc'[s] = 8, pc[s] = 7, NEW c \in Open(s)' PROVE link'[c].answer
      <3>1. Call(s) = "reply"
        BY <1>3, <2>6 DEF Call, Q1TcpServer
      <3>2. Server(s) /\ fate' = fate
        BY <2>6, Mover
      <3>3. ~Fail(s) /\ ~Exit(s)
        BY <1>1, <3>2 DEF Fail, Exit, End, TypeOK, Running
      <3>4. Reply(s)
        BY <3>1, <3>2, <3>3, NoCallAtStart
        DEF Server, Bind, Listen, Accept, Spawn, Read, Fork, RecvHello, SendGreeting, Unconnected,
            At, Call, Local
      <3>5. PICK d \in Accepted(s) : link' = [link EXCEPT ![d].answer = TRUE]
        BY <3>4 DEF Reply
      <3>6. d \in Open(s) /\ d \in Clients
        BY DEF Accepted, Open
      <3>7. c = d
        BY <1>2, <2>1, <2>6, <3>6
      <3>8. link'[d].answer = TRUE
        BY <3>5, <3>6 DEF TypeOK, Links
      <3>9. QED
        BY <3>7, <3>8
    <2>7. QED
      BY <1>2, <2>1, <2>4, <2>5, <2>6
  <1>6. QED
    BY <1>4, <1>5

(* Unless it is killed, a server of q1, q2 or simple ends only when its    *)
(* client, if it has accepted one, is answered.                            *)
LEMMA EndsAnswered ==
    ASSUME TypeOK, InScript, Listening, Linked, Serving, OneShot \/ lab = "simple",
           NEW p \in Servers, Server(p), End(p, "done") \/ End(p, "failed"),
           NEW c \in Clients, link[c].server = p, link[c].state = "open"
    PROVE  link[c].answer
  <1>1. Running(p) /\ p \in Procs
    BY DEF Procs, Server, Setup, Bind, Listen, Accept, Spawn, Read, Reply, Exit, Fork, RecvHello,
           SendGreeting, Unconnected, At
  <1>2. listener = p
    BY <1>1 DEF Linked, OneShot
  <1>3. Call(p) \notin Local \cup {"bind", "listen"}
    BY <1>1, <1>2 DEF Listening
  <1>4. fate' # fate
    BY <1>1 DEF End, TypeOK, Running
  <1>5. Exit(p) \/ Unconnected(p)
    BY <1>2, <1>3, <1>4, NoCallAtStart
    DEF Server, Bind, Listen, Accept, Spawn, Read, Reply, Fork, RecvHello, SendGreeting, At, Call
  <1>6. ~Unconnected(p)
    BY LabCalls DEF Unconnected, At, Call, OneShot
  <1>7. Call(p) = "exit"
    BY <1>5, <1>6 DEF Exit, At, Call
  <1>8. OneShot /\ pc[p] = 8
    BY <1>7, LabCalls DEF OneShot
  <1>9. c \in Open(p)
    BY DEF Open
  <1>10. QED
    BY <1>1, <1>8, <1>9 DEF Serving

LEMMA StepClosing ==
    ASSUME TypeOK, InScript, Listening, Linked, Kids, Queued, Serving, Closing, Misforks, [Next]_vars
    PROVE  Closing'
  <1> SUFFICES ASSUME OneShot \/ lab = "simple", NEW c \in Clients,
                      link'[c].state = "closed", ~link'[c].answer
               PROVE  misfork' \/ kills' > 0
    BY SameLab DEF Closing, OneShot
  <1>1. (misfork => misfork') /\ (kills > 0 => kills' > 0)
    BY StepMisforks
  <1>2. link[c] \in Links
    BY DEF TypeOK
  <1>3. CASE link'[c] = link[c] \/ Asked(c)
    BY <1>1, <1>3 DEF Asked, Closing
  <1>4. CASE Lost(c)
    <2>1. PICK p \in Servers : /\ p = link[c].server
                               /\ Kill(p) \/ (Server(p) /\ (End(p, "done") \/ End(p, "failed")))
      BY <1>4 DEF Lost
    <2>2. link[c].state = "open" /\ link'[c].answer = link[c].answer
      BY <1>4 DEF Lost
    <2>3. CASE Kill(p)
      <3>1. kills \in Nat /\ kills' = kills + 1
        BY <2>3, ProgramsAssumption DEF Kill, TypeOK
      <3>2. QED
        BY <3>1
    <2>4. CASE Server(p) /\ (End(p, "done") \/ End(p, "failed"))
      BY <2>1, <2>2, <2>4, EndsAnswered
    <2>5. QED
      BY <2>1, <2>3, <2>4
  <1>5. CASE Refused(c)
    BY <1>5 DEF Refused
  <1>6. ~Queues(c) /\ ~Taken(c) /\ ~Told(c) /\ ~Served(c) /\ ~Datagram(c)
    BY <1>2 DEF Queues, Taken, Told, Served, Datagram, Links, OneShot
  <1>7. QED
    BY <1>3, <1>4, <1>5, <1>6, LinkSteps DEF LinkStep

-----------------------------------------------------------------------------
(* What clients print. *)
LEMMA ShownSteps ==
    ASSUME TypeOK, InScript, [Next]_vars, NEW c \in Clients
    PROVE  \/ shown'[c] = shown[c] \/ shown'[c] = "answer"
           \/ /\ link[c].state = "closed" /\ ~link[c].answer
              /\ \/ shown'[c] = "garbage" /\ lab = "simple"
                 \/ shown'[c] = "blank" /\ OneShot
  <1>1. shown \in [Clients -> {"nothing", "answer", "blank", "garbage"}]
    BY DEF TypeOK
  <1>2. CASE UNCHANGED shown
    BY <1>2
  <1>3. ASSUME NEW s \in Servers, Server(s) PROVE UNCHANGED shown
    BY <1>3 DEF Server, Setup, Bind, Listen, Accept, Spawn, Read, Reply, Exit, Fork, RecvHello,
                SendGreeting, Unconnected, Quiet
  <1>4. ASSUME NEW d \in Clients, Receive(d)
        PROVE  \/ shown'[c] = shown[c] \/ shown'[c] = "answer"
               \/ /\ link[c].state = "closed" /\ ~link[c].answer
                  /\ \/ shown'[c] = "garbage" /\ lab = "simple"
                     \/ shown'[c] = "blank" /\ OneShot
    <2>1. /\ At(d, "recv_answer") => lab = "simple"
          /\ At(d, "read_answer") => OneShot
      BY LabCalls DEF At, Call
    <2>2. CASE link[d].answer
      BY <1>1, <1>4, <2>2 DEF Receive
    <2>3. CASE ~link[d].answer /\ link[d].state = "closed"
      <3>1. shown' = [shown EXCEPT ![d] = IF At(d, "recv_answer") THEN "garbage" ELSE "blank"]
        BY <1>4, <2>3 DEF Receive
      <3>2. shown'[d] = IF At(d, "recv_answer") THEN "garbage" ELSE "blank"
        BY <1>1, <3>1
      <3>3. c # d => shown'[c] = shown[c]
        BY <1>1, <3>1
      <3>4. At(d, "recv_answer") \/ At(d, "read_answer")
        BY <1>4 DEF Receive
      <3>5. QED
        BY <2>1, <2>3, <3>2, <3>3, <3>4
    <2>4. CASE ~link[d].answer /\ link[d].state # "closed"
      BY <1>4, <2>4 DEF Receive
    <2>5. QED
      BY <2>2, <2>3, <2>4
  <1>5. ASSUME NEW d \in Clients, RecvGreeting(d)
        PROVE  shown'[c] = shown[c] \/ shown'[c] = "answer"
    BY <1>1, <1>5 DEF RecvGreeting
  <1>6. ASSUME NEW d \in Clients, Client(d), ~Receive(d), ~RecvGreeting(d) PROVE UNCHANGED shown
    BY <1>6 DEF Client, Setup, Connect, Ask, AskNothing, AskDate, Exit, SendHello, Unconnected,
                Quiet
  <1>7. ASSUME NEW d \in Clients, Kid(d) PROVE UNCHANGED shown
    BY <1>7 DEF Kid, KidClose, KidSend, Quiet
  <1>8. ASSUME NEW p \in Procs, Kill(p) PROVE UNCHANGED shown
    BY <1>8 DEF Kill
  <1>9. CASE UNCHANGED vars
    BY <1>9 DEF vars
  <1>10. QED
    BY <1>2, <1>3, <1>4, <1>5, <1>6, <1>7, <1>8, <1>9 DEF Next

(* Neither q1 nor q2 forks, so that a blank leaves only a kill. *)
LEMMA StepGarbage ==
    ASSUME TypeOK, InScript, Closing, Misforks, GarbageNeedsFault, [Next]_vars
    PROVE  GarbageNeedsFault'
  <1> SUFFICES ASSUME NEW c \in Clients
               PROVE  /\ shown'[c] = "garbage" => misfork' \/ kills' > 0
                      /\ shown'[c] = "blank" => kills' > 0
    BY DEF GarbageNeedsFault
  <1>1. (misfork => misfork') /\ (kills > 0 => kills' > 0)
    BY StepMisforks
  <1>2. CASE shown'[c] = shown[c]
    BY <1>1, <1>2 DEF GarbageNeedsFault
  <1>3. ASSUME shown'[c] # shown[c], shown'[c] = "garbage" PROVE misfork' \/ kills' > 0
    <2>1. link[c].state = "closed" /\ ~link[c].answer /\ lab = "simple"
      BY <1>3, ShownSteps
    <2>2. QED
      BY <1>1, <2>1 DEF Closing
  <1>4. ASSUME shown'[c] # shown[c], shown'[c] = "blank" PROVE kills' > 0
    <2>1. link[c].state = "closed" /\ ~link[c].answer /\ OneShot
      BY <1>4, ShownSteps
    <2>2. ~misfork
      BY <2>1 DEF Misforks, OneShot
    <2>3. QED
      BY <1>1, <2>1, <2>2 DEF Closing
  <1>5. QED
    BY <1>2, <1>3, <1>4

-----------------------------------------------------------------------------
(* The inductive invariant. *)
IInv ==
    /\ TypeOK /\ InScript /\ Ready /\ Listening /\ Linked /\ Fresh /\ Kids /\ Queued
    /\ Serving /\ Closing /\ Misforks /\ GarbageNeedsFault

LEMMA InitInv == Init => IInv
  <1> SUFFICES ASSUME Init PROVE IInv
    OBVIOUS
  <1>1. Len(queue) = 0 /\ queue \in Seq(Clients)
    BY EmptySeq DEF Init
  <1>2. TypeOK
    <2>1. lab \in Labs /\ kills \in 0..MaxKills
      BY ProgramsAssumption DEF Init
    <2>2. pc \in [Procs -> 1..8] /\ fate \in [Procs -> {"running", "done", "failed", "killed"}]
      BY DEF Init
    <2>3. link \in [Clients -> Links]
      BY DEF Init, Links
    <2>4. QED
      BY <1>1, <2>1, <2>2, <2>3 DEF Init, TypeOK
  <1>3. \A p \in Procs : /\ pc[p] = 1 /\ 1 \in Indices(Script(p)) /\ Script(p)[1] \in Local
    BY <1>2, ScriptFacts DEF Init, Procs, ServerFacts, ClientFacts, Indices
  <1>4. InScript
    BY <1>3 DEF InScript
  <1>5. \A s \in Servers : Call(s) \in Local
    BY <1>3 DEF Call, Procs
  <1>6. Ready /\ Listening
    <2>1. Ready
      BY <1>5 DEF Ready
    <2>2. Listening
      BY ProgramsAssumption DEF Init, Listening
    <2>3. QED
      BY <2>1, <2>2
  <1>7. \A c \in Clients : link[c] = NoLink
    BY DEF Init, NoLink
  <1>8. Linked /\ Fresh /\ Kids
    BY <1>7, ProgramsAssumption DEF Linked, Fresh, Kids, NoLink, Init
  <1>9. Queued
    BY <1>1 DEF Queued
  <1>10. Serving /\ Closing
    BY <1>3, <1>7 DEF Serving, Closing, Open, NoLink, Procs
  <1>11. Misforks /\ GarbageNeedsFault
    BY DEF Init, Misforks, GarbageNeedsFault
  <1>12. QED
    BY <1>2, <1>4, <1>6, <1>8, <1>9, <1>10, <1>11 DEF IInv

LEMMA Inductive == IInv /\ [Next]_vars => IInv'
  <1> SUFFICES ASSUME IInv, [Next]_vars PROVE IInv'
    OBVIOUS
  <1>1. /\ TypeOK /\ InScript /\ Ready /\ Listening /\ Linked /\ Fresh /\ Kids /\ Queued
        /\ Serving /\ Closing /\ Misforks /\ GarbageNeedsFault
    BY DEF IInv
  <1>2. TypeOK' /\ InScript' /\ Ready'
    BY <1>1, StepTypeOK, StepInScript, StepReady
  <1>3. Listening' /\ Linked' /\ Fresh'
    BY <1>1, StepListening, StepLinked, StepFresh
  <1>4. Kids' /\ Queued' /\ Serving'
    BY <1>1, StepKids, StepQueued, StepServing
  <1>5. Closing' /\ Misforks'
    BY <1>1, StepClosing, StepMisforks
  <1>6. GarbageNeedsFault'
    BY <1>1, StepGarbage
  <1>7. QED
    BY <1>2, <1>3, <1>4, <1>5, <1>6 DEF IInv

LEMMA Invariant == Spec => []IInv
  BY InitInv, Inductive, PTL DEF Spec

(***************************************************************************)
(* Every variable stays in its type for any number of servers and clients  *)
(* of any of the exercises: a process never walks off the end of its calls *)
(* and only a bound socket listens.                                        *)
(***************************************************************************)
THEOREM ProgramsTypeOK == Spec => []TypeOK
  BY Invariant, PTL DEF IInv

(***************************************************************************)
(* However many servers, clients, children and kills there are: a client   *)
(* of simple prints an uninitialised buffer only if a fork has failed or a *)
(* process was killed (simple/client.c does not look at what recv          *)
(* returned), and a client of q1 or q2 prints a cleared one only if a      *)
(* process was killed (a server that runs to its exit has answered the one *)
(* client it accepted, and resets those it did not).                       *)
(***************************************************************************)
THEOREM ProgramsGarbageNeedsFault == Spec => []GarbageNeedsFault
  BY Invariant, PTL DEF IInv

=============================================================================

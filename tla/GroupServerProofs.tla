-------------------------- MODULE GroupServerProofs --------------------------
(* Machine-checked proofs about GroupServer and GroupRoom, for every set   *)
(* of clients, any length of the array and any bounds.  First the types    *)
(* and the invariants of the server, then that it implements a Room, and   *)
(* on top of both that all clients hear the shouts in one order.           *)
EXTENDS GroupRoom, SequenceTheorems, TLAPS

(* The entries main has written; the one it is still working on counts.    *)
Entered(j) == j < client_id \/ (j = client_id /\ mpc \in {"greet", "spawn", "count"})
Greeted(j) == j < client_id \/ (j = client_id /\ mpc \in {"spawn", "count"})

(* What main knows while it takes one client in. *)
MainKnows ==
    /\ mpc # "accept" => newsockfd \in Clients
    /\ server = "up" /\ mpc \in {"greet", "spawn", "count"} =>
           client_id \in Slots /\ clients[client_id] = [id |-> client_id, sockfd |-> newsockfd]

(* Every entry carries its own index and a client that no other entry has. *)
Registry ==
    /\ \A j \in Slots : Entered(j) => /\ clients[j].id = j
                                      /\ clients[j].sockfd \in Clients
                                      /\ conn[clients[j].sockfd] # "off"
    /\ \A j, l \in Slots :
           Entered(j) /\ Entered(l) /\ clients[j].sockfd = clients[l].sockfd => j = l

(* A client waiting to be taken in is connected, waits once, and has no    *)
(* entry yet.                                                              *)
NoEntry(c) == \A j \in Slots : Entered(j) => clients[j].sockfd # c
Newcomers ==
    /\ \A n \in 1..Len(backlog) : conn[backlog[n]] # "off" /\ NoEntry(backlog[n])
    /\ \A m, n \in 1..Len(backlog) : backlog[m] = backlog[n] => m = n
    /\ mpc = "entry" => /\ conn[newsockfd] # "off" /\ NoEntry(newsockfd)
                        /\ \A n \in 1..Len(backlog) : backlog[n] # newsockfd

(* A thread works for the entry of its slot; whoever shouts has the mutex. *)
ThreadOK(k) ==
    /\ pc[k] # "none" => k < client_id \/ (k = client_id /\ mpc = "count")
    /\ pc[k] \notin {"none", "start"} => id[k] = k /\ sockfd[k] = clients[k].sockfd
    /\ pc[k] \in {"loop", "send"} <=> shouting = k
    /\ pc[k] = "loop" => i[k] <= client_id
    /\ pc[k] = "send" => i[k] < client_id /\ i[k] # k
Threads == \A k \in Slots : ThreadOK(k)

(* Only greeted clients have heard anything, and they have unless they left. *)
Greeting ==
    /\ \A c \in Clients : heard[c] # <<>> =>
           \E j \in Slots : Greeted(j) /\ clients[j].sockfd = c
    /\ \A j \in Slots : Greeted(j) =>
           heard[clients[j].sockfd] # <<>> \/ conn[clients[j].sockfd] # "open"

(* A frame stays with the client that typed it. *)
InboxAuthors ==
    \A c \in Clients : \A n \in 1..Len(inbox[c]) : inbox[c][n][1] = c
BufferAuthors ==
    \A k \in Slots : buffer[k] \in Frames =>
        pc[k] \notin {"none", "start"} /\ buffer[k][1] = sockfd[k]
HeardAuthors ==
    \A c \in Clients : \A n \in 1..Len(heard[c]) :
        heard[c][n].text \in Frames => Entered(heard[c][n].id)

(* The inductive invariant.  GreetedFirst needs Greeting (whom a shout can *)
(* reach has been greeted), RightName needs to know whose frame is in a    *)
(* buffer and that no two entries share a client, EveryoneHeard needs the  *)
(* mutex; all of them need the array to be what main made it.              *)
IInv == /\ TypeOK /\ MainKnows /\ Registry /\ Newcomers /\ Threads
        /\ Greeting /\ GreetedFirst /\ InboxAuthors /\ BufferAuthors
        /\ HeardAuthors /\ RightName /\ EveryoneHeard

-----------------------------------------------------------------------------
(* What a send may have done: server, conn and heard are all it touches. *)
SendDid(c, item) ==
    /\ server' \in {server, "sigpipe"}
    /\ conn' \in [Clients -> {"off", "open", "fin", "rst", "dead"}]
    /\ heard' \in [Clients -> Seq(Items)]
    /\ UNCHANGED <<inbox, sent, read, hung>>
    /\ \A d \in Clients : /\ (conn'[d] = "off") <=> (conn[d] = "off")
                          /\ (conn'[d] = "open") <=> (conn[d] = "open")
    /\ \A d \in Clients : d # c => heard'[d] = heard[d]
    /\ \/ heard'[c] = heard[c] /\ conn[c] # "open"
       \/ /\ conn[c] = "open"
          /\ heard'[c] # <<>> /\ Len(heard'[c]) = Len(heard[c]) + 1
          /\ \A n \in 1..Len(heard[c]) : heard'[c][n] = heard[c][n]
          /\ heard'[c][Len(heard[c]) + 1] = item

LEMMA SendFacts ==
    ASSUME TypeOK, NEW c \in Clients, NEW item \in Items, SendTo(c, item)
    PROVE  SendDid(c, item)
  <1>1. heard[c] \in Seq(Items)
    BY DEF TypeOK
  <1>2. CASE conn[c] = "open"
    <2>1. UNCHANGED <<server, conn, inbox, sent, read, hung>>
      BY <1>2 DEF SendTo
    <2>2. heard' = [heard EXCEPT ![c] = Append(@, item)]
      BY <1>2 DEF SendTo
    <2>3. /\ Append(heard[c], item) \in Seq(Items) /\ Append(heard[c], item) # <<>>
          /\ Len(Append(heard[c], item)) = Len(heard[c]) + 1
          /\ \A n \in 1..Len(heard[c]) : Append(heard[c], item)[n] = heard[c][n]
          /\ Append(heard[c], item)[Len(heard[c]) + 1] = item
      BY <1>1, AppendProperties
    <2>4. heard'[c] = Append(heard[c], item)
      BY <2>2 DEF TypeOK
    <2>5. heard' \in [Clients -> Seq(Items)]
      BY <2>2, <2>3 DEF TypeOK
    <2>6. \A d \in Clients : d # c => heard'[d] = heard[d]
      BY <2>2 DEF TypeOK
    <2>7. conn \in [Clients -> {"off", "open", "fin", "rst", "dead"}]
      BY DEF TypeOK
    <2>8. QED
      BY <1>2, <2>1, <2>3, <2>4, <2>5, <2>6, <2>7 DEF SendDid
  <1>3. CASE conn[c] # "open"
    BY <1>3 DEF SendTo, SendDid, TypeOK
  <1>4. QED
    BY <1>2, <1>3

LEMMA GreetFacts ==
    ASSUME TypeOK, MainKnows, Greet
    PROVE  newsockfd \in Clients /\ SendDid(newsockfd, [id |-> client_id, text |-> Auth])
  <1>1. newsockfd \in Clients /\ [id |-> client_id, text |-> Auth] \in Items
    BY DEF Greet, MainKnows, Items
  <1>2. SendTo(newsockfd, [id |-> client_id, text |-> Auth])
    BY DEF Greet
  <1>3. QED
    BY <1>1, <1>2, SendFacts

LEMMA ShoutFacts ==
    ASSUME TypeOK, Registry, Threads, NEW k \in Slots, ShoutSend(k)
    PROVE  /\ i[k] \in Slots /\ i[k] < client_id /\ i[k] # k
           /\ clients[i[k]].sockfd \in Clients
           /\ SendDid(clients[i[k]].sockfd, [id |-> id[k], text |-> buffer[k]])
  <1>1. i[k] \in 0..MAX_NUM_CLIENT /\ client_id \in 0..MAX_NUM_CLIENT
    BY DEF TypeOK
  <1>2. i[k] < client_id /\ i[k] # k
    BY DEF ShoutSend, Threads, ThreadOK
  <1>3. i[k] \in Slots
    BY <1>1, <1>2, GroupAssumption DEF Slots
  <1>4. clients[i[k]].sockfd \in Clients
    BY <1>2, <1>3 DEF Registry, Entered
  <1>5. [id |-> id[k], text |-> buffer[k]] \in Items
    BY DEF TypeOK, Items
  <1>6. SendTo(clients[i[k]].sockfd, [id |-> id[k], text |-> buffer[k]])
    BY DEF ShoutSend
  <1>7. QED
    BY <1>2, <1>3, <1>4, <1>5, <1>6, SendFacts

LEMMA InitInv == Init => IInv
  <1> SUFFICES ASSUME Init PROVE IInv
    OBVIOUS
  <1> USE GroupAssumption DEF Slots
  <1>1. TypeOK
    <2>1. \A S : <<>> \in Seq(S)
      BY EmptySeq
    <2>2. QED
      BY <2>1 DEF Init, TypeOK
  <1>2. \A k \in Slots : buffer[k] \notin Frames
    BY DEF Init, Frames
  <1>3. MainKnows /\ Registry /\ Newcomers /\ Threads /\ EveryoneHeard
    BY DEF Init, MainKnows, Registry, Newcomers, Threads, ThreadOK, EveryoneHeard, Shouting, Entered, NoEntry
  <1>4. /\ Greeting /\ GreetedFirst /\ InboxAuthors /\ BufferAuthors
        /\ HeardAuthors /\ RightName
    BY <1>2 DEF Init, Greeting, GreetedFirst, InboxAuthors, BufferAuthors, HeardAuthors,
                RightName, Greeted
  <1>5. QED
    BY <1>1, <1>3, <1>4 DEF IInv

-----------------------------------------------------------------------------
(* Types. *)

LEMMA StepTypeOK ==
    TypeOK /\ MainKnows /\ Registry /\ Threads /\ [Next]_vars => TypeOK'
  <1> SUFFICES ASSUME TypeOK, MainKnows, Registry, Threads, [Next]_vars
               PROVE  TypeOK'
    OBVIOUS
  <1> USE GroupAssumption DEF Slots
  <1>1. CASE UNCHANGED vars
    BY <1>1 DEF vars, mainVars, threadVars, netVars, TypeOK
  <1>2. CASE Accept
    <2>1. Head(backlog) \in Clients /\ Tail(backlog) \in Seq(Clients)
      BY <1>2, HeadTailProperties DEF Accept, TypeOK
    <2>2. QED
      BY <1>2, <2>1 DEF Accept, threadVars, netVars, TypeOK
  <1>3. CASE Entry
    <2>1. newsockfd \in Clients
      BY <1>3 DEF Entry, MainKnows
    <2>2. clients' \in [Slots -> [id : Slots, sockfd : Clients \cup {NoClient}]]
      <3>1. CASE client_id \in Slots
        <4>1. [id |-> client_id, sockfd |-> newsockfd] \in [id : Slots, sockfd : Clients \cup {NoClient}]
          BY <2>1, <3>1
        <4>2. clients' = [clients EXCEPT ![client_id] = [id |-> client_id, sockfd |-> newsockfd]]
          BY <1>3, <3>1 DEF Entry
        <4>3. clients \in [Slots -> [id : Slots, sockfd : Clients \cup {NoClient}]]
          BY DEF TypeOK
        <4>4. QED
          BY <3>1, <4>1, <4>2, <4>3
      <3>2. CASE client_id \notin Slots
        BY <1>3, <3>2 DEF Entry, TypeOK
      <3>3. QED
        BY <3>1, <3>2
    <2>3. server' \in {"up", "corrupt"}
      BY <1>3 DEF Entry
    <2>4. QED
      BY <1>3, <2>2, <2>3 DEF Entry, threadVars, TypeOK
  <1>4. CASE Greet
    BY <1>4, GreetFacts DEF Greet, SendDid, threadVars, TypeOK
  <1>5. CASE Spawn
    BY <1>5 DEF Spawn, MainKnows, mainVars, threadVars, netVars, TypeOK
  <1>6. CASE Count
    <2>1. client_id' \in 0..MAX_NUM_CLIENT
      BY <1>6 DEF Count, MainKnows
    <2>2. QED
      BY <1>6, <2>1 DEF Count, threadVars, netVars, TypeOK
  <1>7. ASSUME NEW k \in Slots, HearAll(k) PROVE TypeOK'
    <2>1. CASE Start(k)
      <3>1. /\ pc' = [pc EXCEPT ![k] = "recv"]
            /\ sockfd' = [sockfd EXCEPT ![k] = clients[k].sockfd]
            /\ id' = [id EXCEPT ![k] = clients[k].id]
            /\ UNCHANGED <<mainVars, buffer, i, echoes, shouting, log, netVars>>
        BY <2>1 DEF Start
      <3>2. clients[k] \in [id : Slots, sockfd : Clients \cup {NoClient}]
        BY DEF TypeOK
      <3>3. QED
        BY <3>1, <3>2 DEF mainVars, netVars, TypeOK
    <2>2. CASE Recv(k)
      <3>1. sockfd[k] \in Clients
        BY <2>2 DEF Recv, Threads, ThreadOK, Registry, Entered
      <3>2. Head(inbox[sockfd[k]]) \in Frames /\ Tail(inbox[sockfd[k]]) \in Seq(Frames)
        BY <2>2, <3>1, HeadTailProperties DEF Recv, TypeOK
      <3>3. QED
        BY <2>2, <3>1, <3>2 DEF Recv, mainVars, TypeOK
    <2>3. CASE RecvEof(k)
      <3>1. echoes' \in 0..MaxEchoes
        BY <2>3 DEF RecvEof, TypeOK
      <3>2. QED
        BY <2>3, <3>1 DEF RecvEof, mainVars, netVars, TypeOK
    <2>4. CASE RecvError(k)
      BY <2>4 DEF RecvError, mainVars, threadVars, netVars, TypeOK
    <2>5. CASE Lock(k)
      <3>1. [id |-> id[k], text |-> buffer[k]] \in Items
        BY DEF TypeOK, Items
      <3>2. Append(log, [id |-> id[k], text |-> buffer[k]]) \in Seq(Items)
        BY <3>1, AppendProperties DEF TypeOK
      <3>3. i' \in [Slots -> 0..MAX_NUM_CLIENT]
        <4>1. 0 \in 0..MAX_NUM_CLIENT
          BY GroupAssumption
        <4>2. i \in [Slots -> 0..MAX_NUM_CLIENT] /\ i' = [i EXCEPT ![k] = 0]
          BY <2>5 DEF Lock, TypeOK
        <4>3. QED
          BY <4>1, <4>2
      <3>4. QED
        BY <2>5, <3>2, <3>3 DEF Lock, mainVars, netVars, TypeOK
    <2>6. CASE ShoutNext(k)
      <3>1. i[k] \in 0..MAX_NUM_CLIENT /\ client_id \in 0..MAX_NUM_CLIENT /\ i[k] < client_id
        BY <2>6 DEF ShoutNext, TypeOK
      <3>2. i[k] + 1 \in 0..MAX_NUM_CLIENT
        BY <3>1
      <3>3. i' \in [Slots -> 0..MAX_NUM_CLIENT]
        BY <2>6, <3>2 DEF ShoutNext, TypeOK
      <3>4. pc' \in {pc, [pc EXCEPT ![k] = "send"]}
        BY <2>6 DEF ShoutNext
      <3>5. UNCHANGED <<mainVars, sockfd, id, buffer, echoes, shouting, log, netVars>>
        BY <2>6 DEF ShoutNext
      <3>6. QED
        BY <3>3, <3>4, <3>5 DEF mainVars, netVars, TypeOK
    <2>7. CASE ShoutSend(k)
      <3>1. /\ i[k] \in Slots /\ i[k] < client_id /\ i[k] # k /\ clients[i[k]].sockfd \in Clients
            /\ SendDid(clients[i[k]].sockfd, [id |-> id[k], text |-> buffer[k]])
        BY <2>7, ShoutFacts
      <3>2. i[k] + 1 \in 0..MAX_NUM_CLIENT
        BY <3>1
      <3>3. QED
        BY <2>7, <3>1, <3>2 DEF ShoutSend, SendDid, mainVars, TypeOK
    <2>8. CASE ShoutEnd(k)
      BY <2>8 DEF ShoutEnd, mainVars, threadVars, netVars, TypeOK
    <2>9. QED
      BY <1>7, <2>1, <2>2, <2>3, <2>4, <2>5, <2>6, <2>7, <2>8 DEF HearAll
  <1>8. ASSUME NEW c \in Clients, Client(c) PROVE TypeOK'
    <2>1. CASE Connect(c)
      <3>1. Append(backlog, c) \in Seq(Clients)
        BY AppendProperties DEF TypeOK
      <3>2. QED
        BY <2>1, <3>1 DEF Connect, threadVars, TypeOK
    <2>2. CASE Say(c)
      <3>1. <<c, sent'>> \in Frames /\ sent' \in 0..MaxLines
        <4>1. sent' \in 1..MaxLines
          BY <2>2 DEF Say, TypeOK
        <4>2. QED
          BY <4>1 DEF Frames
      <3>2. Append(inbox[c], <<c, sent'>>) \in Seq(Frames)
        BY <3>1, AppendProperties DEF TypeOK
      <3>3. QED
        BY <2>2, <3>1, <3>2 DEF Say, mainVars, threadVars, TypeOK
    <2>3. CASE Read(c)
      <3>1. Len(heard[c]) \in Nat
        BY LenProperties DEF TypeOK
      <3>2. QED
        BY <2>3, <3>1 DEF Read, mainVars, threadVars, TypeOK
    <2>4. CASE Close(c)
      BY <2>4 DEF Close, mainVars, threadVars, netVars, TypeOK
    <2>5. CASE Hang(c)
      BY <2>5 DEF Hang, mainVars, threadVars, TypeOK
    <2>6. QED
      BY <1>8, <2>1, <2>2, <2>3, <2>4, <2>5 DEF Client
  <1>9. QED
    BY <1>1, <1>2, <1>3, <1>4, <1>5, <1>6, <1>7, <1>8 DEF Next, Main

LEMMA StepMainKnows ==
    TypeOK /\ MainKnows /\ [Next]_vars => MainKnows'
  <1> SUFFICES ASSUME TypeOK, MainKnows, [Next]_vars
               PROVE  MainKnows'
    OBVIOUS
  <1> USE GroupAssumption DEF Slots
  <1>1. CASE UNCHANGED vars
    BY <1>1 DEF vars, mainVars, threadVars, netVars, MainKnows
  <1>2. CASE Accept
    <2>1. Head(backlog) \in Clients
      BY <1>2, HeadTailProperties DEF Accept, TypeOK
    <2>2. QED
      BY <1>2, <2>1 DEF Accept, MainKnows
  <1>3. CASE Entry
    BY <1>3 DEF Entry, MainKnows, TypeOK
  <1>4. CASE Greet
    BY <1>4, GreetFacts DEF Greet, SendDid, MainKnows
  <1>5. CASE Spawn
    BY <1>5 DEF Spawn, mainVars, threadVars, netVars, MainKnows
  <1>6. CASE Count
    BY <1>6 DEF Count, MainKnows
  <1>7. ASSUME NEW k \in Slots, HearAll(k) PROVE MainKnows'
    <2>1. CASE Start(k)
      BY <2>1 DEF Start, mainVars, threadVars, netVars, MainKnows
    <2>2. CASE Recv(k)
      BY <2>2 DEF Recv, mainVars, threadVars, netVars, MainKnows
    <2>3. CASE RecvEof(k)
      BY <2>3 DEF RecvEof, mainVars, threadVars, netVars, MainKnows
    <2>4. CASE RecvError(k)
      BY <2>4 DEF RecvError, mainVars, threadVars, netVars, MainKnows
    <2>5. CASE Lock(k)
      BY <2>5 DEF Lock, mainVars, threadVars, netVars, MainKnows
    <2>6. CASE ShoutNext(k)
      BY <2>6 DEF ShoutNext, mainVars, threadVars, netVars, MainKnows
    <2>7. CASE ShoutSend(k)
      <3>1. server = "up" /\ UNCHANGED mainVars
        BY <2>7 DEF ShoutSend
      <3>2. QED
        BY <3>1 DEF mainVars, MainKnows
    <2>8. CASE ShoutEnd(k)
      BY <2>8 DEF ShoutEnd, mainVars, threadVars, netVars, MainKnows
    <2>9. QED
      BY <1>7, <2>1, <2>2, <2>3, <2>4, <2>5, <2>6, <2>7, <2>8 DEF HearAll
  <1>8. ASSUME NEW c \in Clients, Client(c) PROVE MainKnows'
    <2>1. CASE Connect(c)
      BY <2>1 DEF Connect, mainVars, threadVars, netVars, MainKnows
    <2>2. CASE Say(c)
      BY <2>2 DEF Say, mainVars, threadVars, netVars, MainKnows
    <2>3. CASE Read(c)
      BY <2>3 DEF Read, mainVars, threadVars, netVars, MainKnows
    <2>4. CASE Close(c)
      BY <2>4 DEF Close, mainVars, threadVars, netVars, MainKnows
    <2>5. CASE Hang(c)
      BY <2>5 DEF Hang, mainVars, threadVars, netVars, MainKnows
    <2>6. QED
      BY <1>8, <2>1, <2>2, <2>3, <2>4, <2>5 DEF Client
  <1>9. QED
    BY <1>1, <1>2, <1>3, <1>4, <1>5, <1>6, <1>7, <1>8 DEF Next, Main

-----------------------------------------------------------------------------
(* The threads. *)

LEMMA StepThreads ==
    TypeOK /\ MainKnows /\ Registry /\ Threads /\ [Next]_vars => Threads'
  <1> SUFFICES ASSUME TypeOK, MainKnows, Registry, Threads, [Next]_vars
               PROVE  Threads'
    OBVIOUS
  <1> USE DEF Slots
  <1>t. /\ pc \in [Slots -> {"none", "start", "recv", "lock", "loop", "send"}]
        /\ sockfd \in [Slots -> Clients \cup {NoClient}] /\ id \in [Slots -> Slots]
        /\ i \in [Slots -> 0..MAX_NUM_CLIENT] /\ client_id \in 0..MAX_NUM_CLIENT
        /\ shouting \in Slots \cup {NoThread}
        /\ clients \in [Slots -> [id : Slots, sockfd : Clients \cup {NoClient}]]
        /\ MAX_NUM_CLIENT \in Nat \ {0} /\ NoThread \notin Slots
    BY GroupAssumption DEF TypeOK
  <1>1. CASE UNCHANGED vars
    BY <1>1 DEF vars, mainVars, threadVars, netVars, Threads, ThreadOK
  <1>2. CASE Accept
    <2>9. ASSUME NEW l \in Slots PROVE ThreadOK(l)'
      BY <1>2, <1>t DEF Accept, mainVars, threadVars, netVars, Threads, ThreadOK
    <2>10. QED
      BY <2>9 DEF Threads
  <1>3. CASE Entry
    <2>9. ASSUME NEW l \in Slots PROVE ThreadOK(l)'
      <3>1. ThreadOK(l)
        BY DEF Threads
      <3>2. pc[l] # "none" => l < client_id /\ clients'[l] = clients[l]
        <4>1. SUFFICES ASSUME pc[l] # "none" PROVE l < client_id /\ clients'[l] = clients[l]
          OBVIOUS
        <4>2. l < client_id
          BY <1>3, <3>1, <4>1 DEF Entry, ThreadOK
        <4>3. l # client_id
          BY <4>2, <1>t
        <4>4. clients' \in {clients, [clients EXCEPT ![client_id] = [id |-> client_id, sockfd |-> newsockfd]]}
          BY <1>3 DEF Entry
        <4>5. QED
          BY <4>2, <4>3, <4>4, <1>t
      <3>3. UNCHANGED <<client_id, threadVars>>
        BY <1>3 DEF Entry
      <3>4. QED
        BY <1>3, <3>1, <3>2, <3>3 DEF Entry, ThreadOK, threadVars
    <2>10. QED
      BY <2>9 DEF Threads
  <1>4. CASE Greet
    <2>9. ASSUME NEW l \in Slots PROVE ThreadOK(l)'
      BY <1>4, <1>t DEF Greet, mainVars, threadVars, netVars, Threads, ThreadOK
    <2>10. QED
      BY <2>9 DEF Threads
  <1>5. CASE Spawn
    <2>8. client_id \in Slots
      BY <1>5 DEF Spawn, MainKnows
    <2>9. ASSUME NEW l \in Slots PROVE ThreadOK(l)'
      <3>1. ThreadOK(l)
        BY DEF Threads
      <3>2. /\ pc'[l] = IF l = client_id THEN "start" ELSE pc[l]
            /\ mpc = "spawn" /\ mpc' = "count"
            /\ UNCHANGED <<client_id, clients, sockfd, id, i, shouting>>
        BY <1>5, <1>t DEF Spawn
      <3>3. CASE l = client_id
        <4>1. pc[l] = "none"
          BY <3>1, <3>2, <3>3, <1>t DEF ThreadOK
        <4>2. QED
          BY <3>1, <3>2, <3>3, <4>1 DEF ThreadOK
      <3>4. CASE l # client_id
        BY <3>1, <3>2, <3>4 DEF ThreadOK
      <3>5. QED
        BY <3>3, <3>4
    <2>10. QED
      BY <2>9 DEF Threads
  <1>6. CASE Count
    <2>9. ASSUME NEW l \in Slots PROVE ThreadOK(l)'
      <3>1. ThreadOK(l)
        BY DEF Threads
      <3>2. /\ UNCHANGED <<pc, clients, sockfd, id, i, shouting>>
            /\ mpc = "count" /\ mpc' = "accept" /\ client_id' = client_id + 1
        BY <1>6 DEF Count, threadVars
      <3>3. l \in Int /\ client_id \in Int /\ i[l] \in Int
        BY <1>t
      <3>4. QED
        BY <3>1, <3>2, <3>3 DEF ThreadOK
    <2>10. QED
      BY <2>9 DEF Threads
  <1>7. ASSUME NEW k \in Slots, HearAll(k) PROVE Threads'
    <2>1. CASE Start(k)
      <3>1. ThreadOK(k)'
        <4>1. /\ pc'[k] = "recv" /\ sockfd'[k] = clients[k].sockfd /\ id'[k] = clients[k].id
              /\ UNCHANGED <<clients, client_id, mpc, shouting>>
          BY <2>1, <1>t DEF Start, mainVars
        <4>2. ThreadOK(k) /\ pc[k] = "start"
          BY <2>1 DEF Start, Threads
        <4>3. clients[k].id = k
          BY <4>2 DEF ThreadOK, Registry, Entered
        <4>4. QED
          BY <4>1, <4>2, <4>3 DEF ThreadOK
      <3>2. ASSUME NEW l \in Slots, l # k PROVE ThreadOK(l)'
        <4>1. /\ pc'[l] = pc[l] /\ sockfd'[l] = sockfd[l] /\ id'[l] = id[l] /\ i'[l] = i[l]
              /\ UNCHANGED <<clients, client_id, mpc, shouting>>
          BY <2>1, <3>2, <1>t DEF Start, mainVars, threadVars, netVars
        <4>2. ThreadOK(l)
          BY DEF Threads
        <4>3. QED
          BY <4>1, <4>2 DEF ThreadOK
      <3>3. QED
        BY <3>1, <3>2 DEF Threads
    <2>2. CASE Recv(k)
      <3>1. ThreadOK(k)'
        BY <2>2, <1>t DEF Recv, mainVars, threadVars, netVars, Threads, ThreadOK
      <3>2. ASSUME NEW l \in Slots, l # k PROVE ThreadOK(l)'
        BY <2>2, <3>2, <1>t DEF Recv, mainVars, threadVars, netVars, Threads, ThreadOK
      <3>3. QED
        BY <3>1, <3>2 DEF Threads
    <2>3. CASE RecvEof(k)
      <3>1. ThreadOK(k)'
        BY <2>3, <1>t DEF RecvEof, mainVars, threadVars, netVars, Threads, ThreadOK
      <3>2. ASSUME NEW l \in Slots, l # k PROVE ThreadOK(l)'
        BY <2>3, <3>2, <1>t DEF RecvEof, mainVars, threadVars, netVars, Threads, ThreadOK
      <3>3. QED
        BY <3>1, <3>2 DEF Threads
    <2>4. CASE RecvError(k)
      <3>1. ThreadOK(k)'
        BY <2>4, <1>t DEF RecvError, mainVars, threadVars, netVars, Threads, ThreadOK
      <3>2. ASSUME NEW l \in Slots, l # k PROVE ThreadOK(l)'
        BY <2>4, <3>2, <1>t DEF RecvError, mainVars, threadVars, netVars, Threads, ThreadOK
      <3>3. QED
        BY <3>1, <3>2 DEF Threads
    <2>5. CASE Lock(k)
      <3>1. ThreadOK(k)'
        <4>1. ThreadOK(k)
          BY DEF Threads
        <4>2. /\ pc[k] = "lock" /\ pc'[k] = "loop" /\ i'[k] = 0 /\ shouting' = k
              /\ UNCHANGED <<client_id, mpc, clients, sockfd, id>>
          BY <2>5, <1>t DEF Lock, mainVars
        <4>3. 0 <= client_id
          BY <1>t
        <4>4. QED
          BY <4>1, <4>2, <4>3 DEF ThreadOK
      <3>2. ASSUME NEW l \in Slots, l # k PROVE ThreadOK(l)'
        BY <2>5, <3>2, <1>t DEF Lock, mainVars, threadVars, netVars, Threads, ThreadOK
      <3>3. QED
        BY <3>1, <3>2 DEF Threads
    <2>6. CASE ShoutNext(k)
      <3>1. ThreadOK(k)'
        <4>1. ThreadOK(k)
          BY DEF Threads
        <4>2. /\ pc[k] = "loop" /\ i[k] < client_id /\ i[k] \in Int /\ client_id \in Int
              /\ UNCHANGED <<client_id, mpc, clients, sockfd, id, shouting>>
          BY <2>6, <1>t DEF ShoutNext, mainVars
        <4>3. CASE i[k] = id[k]
          <5>1. pc'[k] = "loop" /\ i'[k] = i[k] + 1
            BY <2>6, <1>t, <4>2, <4>3 DEF ShoutNext
          <5>2. QED
            BY <4>1, <4>2, <5>1 DEF ThreadOK
        <4>4. CASE i[k] # id[k]
          <5>1. pc'[k] = "send" /\ i'[k] = i[k]
            BY <2>6, <1>t, <4>4 DEF ShoutNext
          <5>2. QED
            BY <4>1, <4>2, <4>4, <5>1 DEF ThreadOK
        <4>5. QED
          BY <4>3, <4>4
      <3>2. ASSUME NEW l \in Slots, l # k PROVE ThreadOK(l)'
        <4>1. /\ pc'[l] = pc[l] /\ sockfd'[l] = sockfd[l] /\ id'[l] = id[l] /\ i'[l] = i[l]
              /\ UNCHANGED <<clients, client_id, mpc, shouting>>
          BY <2>6, <3>2, <1>t DEF ShoutNext, mainVars, threadVars, netVars
        <4>2. ThreadOK(l)
          BY DEF Threads
        <4>3. QED
          BY <4>1, <4>2 DEF ThreadOK
      <3>3. QED
        BY <3>1, <3>2 DEF Threads
    <2>7. CASE ShoutSend(k)
      <3>1. /\ i[k] \in Slots /\ i[k] < client_id /\ i[k] # k /\ clients[i[k]].sockfd \in Clients
            /\ SendDid(clients[i[k]].sockfd, [id |-> id[k], text |-> buffer[k]])
        BY <2>7, ShoutFacts
      <3>2. i[k] + 1 <= client_id
        BY <3>1, <1>t
      <3>3. ThreadOK(k)'
        <4>1. /\ pc'[k] = "loop" /\ i'[k] = i[k] + 1
              /\ UNCHANGED <<sockfd, id, clients, client_id, mpc, shouting>>
          BY <2>7, <1>t DEF ShoutSend, mainVars
        <4>2. ThreadOK(k) /\ pc[k] = "send"
          BY <2>7 DEF ShoutSend, Threads
        <4>3. QED
          BY <3>2, <4>1, <4>2 DEF ThreadOK
      <3>4. ASSUME NEW l \in Slots, l # k PROVE ThreadOK(l)'
        <4>1. /\ pc'[l] = pc[l] /\ sockfd'[l] = sockfd[l] /\ id'[l] = id[l] /\ i'[l] = i[l]
              /\ UNCHANGED <<clients, client_id, mpc, shouting>>
          BY <2>7, <3>4, <1>t DEF ShoutSend, mainVars
        <4>2. ThreadOK(l)
          BY DEF Threads
        <4>3. QED
          BY <4>1, <4>2 DEF ThreadOK
      <3>5. QED
        BY <3>3, <3>4 DEF Threads
    <2>8. CASE ShoutEnd(k)
      <3>1. /\ UNCHANGED <<sockfd, id, i, clients, client_id, mpc>>
            /\ pc[k] = "loop" /\ pc' = [pc EXCEPT ![k] = "recv"] /\ shouting' = NoThread
        BY <2>8 DEF ShoutEnd, mainVars
      <3>2. ASSUME NEW l \in Slots PROVE ThreadOK(l)'
        <4>1. ThreadOK(l) /\ ThreadOK(k) /\ shouting' # l
          BY <3>1, <1>t DEF Threads
        <4>2. CASE l = k
          BY <1>t, <3>1, <4>1, <4>2 DEF ThreadOK
        <4>3. CASE l # k
          <5>1. pc'[l] = pc[l] /\ shouting # l
            BY <1>t, <3>1, <4>1, <4>3 DEF ThreadOK
          <5>2. QED
            BY <3>1, <4>1, <5>1 DEF ThreadOK
        <4>4. QED
          BY <4>2, <4>3
      <3>3. QED
        BY <3>2 DEF Threads
    <2>9. QED
      BY <1>7, <2>1, <2>2, <2>3, <2>4, <2>5, <2>6, <2>7, <2>8 DEF HearAll
  <1>8. ASSUME NEW c \in Clients, Client(c) PROVE Threads'
    <2>1. CASE Connect(c)
      BY <2>1, <1>t DEF Connect, mainVars, threadVars, netVars, Threads, ThreadOK
    <2>2. CASE Say(c)
      BY <2>2, <1>t DEF Say, mainVars, threadVars, netVars, Threads, ThreadOK
    <2>3. CASE Read(c)
      BY <2>3, <1>t DEF Read, mainVars, threadVars, netVars, Threads, ThreadOK
    <2>4. CASE Close(c)
      BY <2>4, <1>t DEF Close, mainVars, threadVars, netVars, Threads, ThreadOK
    <2>5. CASE Hang(c)
      BY <2>5, <1>t DEF Hang, mainVars, threadVars, netVars, Threads, ThreadOK
    <2>6. QED
      BY <1>8, <2>1, <2>2, <2>3, <2>4, <2>5 DEF Client
  <1>9. QED
    BY <1>1, <1>2, <1>3, <1>4, <1>5, <1>6, <1>7, <1>8 DEF Next, Main

-----------------------------------------------------------------------------
(* The array and the clients on their way into it. *)

(* Only main touches the array and what it keeps for the next entry. *)
LEMMA OnlyMain ==
    [Next]_vars => Main \/ UNCHANGED <<client_id, clients, mpc, newsockfd>>
  <1> SUFFICES ASSUME [Next]_vars, ~Main
               PROVE  UNCHANGED <<client_id, clients, mpc, newsockfd>>
    OBVIOUS
  <1>1. CASE UNCHANGED vars
    BY <1>1 DEF vars, mainVars
  <1>2. ASSUME NEW k \in Slots, HearAll(k)
        PROVE  UNCHANGED <<client_id, clients, mpc, newsockfd>>
    BY <1>2 DEF HearAll, Start, Recv, RecvEof, RecvError, Lock, ShoutNext, ShoutSend,
                ShoutEnd, mainVars
  <1>3. ASSUME NEW c \in Clients, Client(c)
        PROVE  UNCHANGED <<client_id, clients, mpc, newsockfd>>
    BY <1>3 DEF Client, Connect, Say, Read, Hang, Close, mainVars
  <1>4. QED
    BY <1>1, <1>2, <1>3 DEF Next

(* Only Connect and Accept touch the backlog. *)
LEMMA OnlyBacklog ==
    [Next]_vars => Accept \/ (\E c \in Clients : Connect(c)) \/ UNCHANGED backlog
  <1> SUFFICES ASSUME [Next]_vars, ~Accept, ~(\E c \in Clients : Connect(c))
               PROVE  UNCHANGED backlog
    OBVIOUS
  <1>1. CASE UNCHANGED vars
    BY <1>1 DEF vars, mainVars
  <1>2. CASE Main
    BY <1>2 DEF Main, Entry, Greet, Spawn, Count
  <1>3. ASSUME NEW k \in Slots, HearAll(k) PROVE UNCHANGED backlog
    BY <1>3 DEF HearAll, Start, Recv, RecvEof, RecvError, Lock, ShoutNext, ShoutSend,
                ShoutEnd, mainVars
  <1>4. ASSUME NEW c \in Clients, Client(c) PROVE UNCHANGED backlog
    BY <1>4 DEF Client, Say, Read, Hang, Close, mainVars
  <1>5. QED
    BY <1>1, <1>2, <1>3, <1>4 DEF Next

(* A client that is gone or connected never becomes one that was never there, *)
(* and a closed connection does not open again.                               *)
ConnGrows ==
    \A c \in Clients : /\ conn[c] # "off" => conn'[c] # "off"
                       /\ conn[c] \notin {"off", "open"} => conn'[c] # "open"

LEMMA StepConnGrows ==
    TypeOK /\ MainKnows /\ Registry /\ Threads /\ [Next]_vars => ConnGrows
  <1> SUFFICES ASSUME TypeOK, MainKnows, Registry, Threads, [Next]_vars
               PROVE  ConnGrows
    OBVIOUS
  <1>1. CASE UNCHANGED vars
    BY <1>1 DEF vars, mainVars, threadVars, netVars, ConnGrows
  <1>2. CASE Accept
    BY <1>2 DEF Accept, netVars, ConnGrows
  <1>3. CASE Entry
    BY <1>3 DEF Entry, netVars, ConnGrows
  <1>4. CASE Greet
    <2>1. newsockfd \in Clients /\ SendDid(newsockfd, [id |-> client_id, text |-> Auth])
      BY <1>4, GreetFacts
    <2>2. QED
      BY <2>1 DEF SendDid, ConnGrows
  <1>5. CASE Spawn
    BY <1>5 DEF Spawn, netVars, ConnGrows
  <1>6. CASE Count
    BY <1>6 DEF Count, netVars, ConnGrows
  <1>7. ASSUME NEW k \in Slots, HearAll(k) PROVE ConnGrows
    <2>1. CASE Start(k)
      BY <2>1 DEF Start, netVars, ConnGrows
    <2>2. CASE Recv(k)
      BY <2>2 DEF Recv, netVars, ConnGrows
    <2>3. CASE RecvEof(k)
      BY <2>3 DEF RecvEof, netVars, ConnGrows
    <2>4. CASE RecvError(k)
      BY <2>4 DEF RecvError, netVars, ConnGrows
    <2>5. CASE Lock(k)
      BY <2>5 DEF Lock, netVars, ConnGrows
    <2>6. CASE ShoutNext(k)
      BY <2>6 DEF ShoutNext, netVars, ConnGrows
    <2>7. CASE ShoutSend(k)
      <3>1. /\ i[k] \in Slots /\ i[k] < client_id /\ i[k] # k /\ clients[i[k]].sockfd \in Clients
            /\ SendDid(clients[i[k]].sockfd, [id |-> id[k], text |-> buffer[k]])
        BY <2>7, ShoutFacts
      <3>2. QED
        BY <3>1 DEF SendDid, ConnGrows
    <2>8. CASE ShoutEnd(k)
      BY <2>8 DEF ShoutEnd, netVars, ConnGrows
    <2>9. QED
      BY <1>7, <2>1, <2>2, <2>3, <2>4, <2>5, <2>6, <2>7, <2>8 DEF HearAll
  <1>8. ASSUME NEW c \in Clients, Client(c) PROVE ConnGrows
    <2>1. CASE Connect(c)
      BY <2>1 DEF Connect, ConnGrows, TypeOK
    <2>2. CASE Say(c)
      BY <2>2 DEF Say, netVars, ConnGrows
    <2>3. CASE Read(c)
      BY <2>3 DEF Read, netVars, ConnGrows
    <2>4. CASE Close(c)
      BY <2>4 DEF Close, ConnGrows, TypeOK
    <2>5. CASE Hang(c)
      BY <2>5 DEF Hang, netVars, ConnGrows
    <2>6. QED
      BY <1>8, <2>1, <2>2, <2>3, <2>4, <2>5 DEF Client
  <1>9. QED
    BY <1>1, <1>2, <1>3, <1>4, <1>5, <1>6, <1>7, <1>8 DEF Next, Main

LEMMA StepRegistry ==
    TypeOK /\ MainKnows /\ Registry /\ Newcomers /\ ConnGrows /\ [Next]_vars => Registry'
  <1> SUFFICES ASSUME TypeOK, MainKnows, Registry, Newcomers, ConnGrows, [Next]_vars
               PROVE  Registry'
    OBVIOUS
  <1>1. ASSUME UNCHANGED clients, \A j \in Slots : Entered(j)' => Entered(j)
        PROVE  Registry'
    BY <1>1 DEF Registry, ConnGrows
  <1>2. client_id \in Int /\ \A j \in Slots : j \in Int
    BY GroupAssumption DEF Slots, TypeOK
  <1>3. CASE UNCHANGED <<client_id, clients, mpc, newsockfd>>
    BY <1>1, <1>3 DEF Entered
  <1>4. CASE Accept
    BY <1>1, <1>4 DEF Accept, Entered
  <1>5. CASE Entry
    <2>1. CASE client_id \in Slots
      <3>1. /\ clients' = [clients EXCEPT ![client_id] = [id |-> client_id, sockfd |-> newsockfd]]
            /\ mpc = "entry" /\ mpc' = "greet" /\ UNCHANGED client_id
        BY <1>5, <2>1 DEF Entry
      <3>2. newsockfd \in Clients /\ NoEntry(newsockfd) /\ conn'[newsockfd] # "off"
        BY <3>1 DEF MainKnows, Newcomers, ConnGrows
      <3>3. clients'[client_id] = [id |-> client_id, sockfd |-> newsockfd]
        BY <2>1, <3>1 DEF TypeOK
      <3>4. ASSUME NEW j \in Slots, j # client_id
            PROVE  clients'[j] = clients[j] /\ (Entered(j)' <=> Entered(j))
        BY <3>1, <3>4 DEF TypeOK, Entered
      <3>5. ~Entered(client_id)
        BY <3>1, <1>2 DEF Entered
      <3>6. ASSUME NEW j \in Slots, Entered(j)'
            PROVE  /\ clients'[j].id = j /\ clients'[j].sockfd \in Clients
                   /\ conn'[clients'[j].sockfd] # "off"
        <4>1. CASE j = client_id
          BY <3>2, <3>3, <4>1
        <4>2. CASE j # client_id
          BY <3>4, <3>6, <4>2 DEF Registry, ConnGrows
        <4>3. QED
          BY <4>1, <4>2
      <3>7. ASSUME NEW j \in Slots, NEW l \in Slots, Entered(j)', Entered(l)',
                   clients'[j].sockfd = clients'[l].sockfd, j # l
            PROVE  FALSE
        <4>1. CASE j = client_id
          BY <3>2, <3>3, <3>4, <3>7, <4>1 DEF NoEntry
        <4>2. CASE l = client_id
          BY <3>2, <3>3, <3>4, <3>7, <4>2 DEF NoEntry
        <4>3. CASE j # client_id /\ l # client_id
          BY <3>4, <3>7, <4>3 DEF Registry
        <4>4. QED
          BY <4>1, <4>2, <4>3
      <3>8. QED
        BY <3>6, <3>7 DEF Registry
    <2>2. CASE client_id \notin Slots
      BY <1>1, <1>5, <2>2 DEF Entry, Entered
    <2>3. QED
      BY <2>1, <2>2
  <1>6. CASE Greet
    BY <1>1, <1>6 DEF Greet, Entered
  <1>7. CASE Spawn
    BY <1>1, <1>7 DEF Spawn, Entered
  <1>8. CASE Count
    BY <1>1, <1>2, <1>8 DEF Count, Entered
  <1>9. QED
    BY <1>3, <1>4, <1>5, <1>6, <1>7, <1>8, OnlyMain DEF Main

LEMMA StepNewcomers ==
    TypeOK /\ MainKnows /\ Registry /\ Newcomers /\ ConnGrows /\ [Next]_vars => Newcomers'
  <1> SUFFICES ASSUME TypeOK, MainKnows, Registry, Newcomers, ConnGrows, [Next]_vars
               PROVE  Newcomers'
    OBVIOUS
  <1>1. client_id \in Int /\ \A j \in Slots : j \in Int
    BY GroupAssumption DEF Slots, TypeOK
  <1>2. /\ backlog \in Seq(Clients) /\ \A n \in 1..Len(backlog) : backlog[n] \in Clients
        /\ Len(backlog) \in Nat
    BY ElementOfSeq, LenProperties DEF TypeOK
  <1>3. ASSUME UNCHANGED <<clients, backlog, newsockfd>>, mpc' = "entry" => mpc = "entry",
               \A j \in Slots : Entered(j)' => Entered(j)
        PROVE  Newcomers'
    <2>1. ASSUME NEW c, NoEntry(c) PROVE NoEntry(c)'
      BY <1>3, <2>1 DEF NoEntry
    <2>2. \A n \in 1..Len(backlog) : conn'[backlog[n]] # "off" /\ NoEntry(backlog[n])'
      BY <1>2, <1>3, <2>1 DEF Newcomers, ConnGrows
    <2>3. mpc' = "entry" => conn'[newsockfd] # "off" /\ NoEntry(newsockfd)'
      BY <1>3, <2>1 DEF Newcomers, ConnGrows, MainKnows
    <2>4. QED
      BY <1>3, <2>2, <2>3 DEF Newcomers, NoEntry
  <1>4. CASE Accept
    <2>1. /\ backlog # <<>> /\ newsockfd' = Head(backlog) /\ backlog' = Tail(backlog)
          /\ mpc = "accept" /\ mpc' = "entry" /\ UNCHANGED <<client_id, clients, conn>>
      BY <1>4 DEF Accept, netVars
    <2>2. Head(backlog) = backlog[1] /\ 1 \in 1..Len(backlog)
      BY <1>2, <2>1, EmptySeq
    <2>3. /\ Len(Tail(backlog)) = Len(backlog) - 1
          /\ \A n \in 1..Len(Tail(backlog)) : Tail(backlog)[n] = backlog[n + 1]
      BY <1>2, <2>1, HeadTailProperties
    <2>4. \A c : NoEntry(c)' <=> NoEntry(c)
      BY <2>1 DEF NoEntry, Entered
    <2>5. \A n \in 1..Len(backlog') : n + 1 \in 1..Len(backlog) /\ n + 1 # 1
      BY <1>2, <2>1, <2>3
    <2>6. \A n \in 1..Len(backlog') :
              /\ conn'[backlog'[n]] # "off" /\ NoEntry(backlog'[n]) /\ backlog'[n] # newsockfd'
      BY <2>1, <2>2, <2>3, <2>5 DEF Newcomers
    <2>7. \A m, n \in 1..Len(backlog') : backlog'[m] = backlog'[n] => m = n
      <3>1. SUFFICES ASSUME NEW m \in 1..Len(backlog'), NEW n \in 1..Len(backlog'),
                            backlog'[m] = backlog'[n]
                     PROVE  m = n
        OBVIOUS
      <3>2. backlog[m + 1] = backlog[n + 1]
        BY <2>1, <2>3, <3>1
      <3>3. m + 1 = n + 1
        BY <2>5, <3>2 DEF Newcomers
      <3>4. QED
        BY <3>3
    <2>8. conn'[newsockfd'] # "off" /\ NoEntry(newsockfd')
      BY <2>1, <2>2 DEF Newcomers
    <2>9. QED
      BY <2>4, <2>6, <2>7, <2>8 DEF Newcomers, NoEntry, Entered
  <1>5. CASE Entry
    <2>1. /\ mpc = "entry" /\ mpc' = "greet" /\ UNCHANGED <<client_id, backlog, newsockfd, conn>>
      BY <1>5 DEF Entry
    <2>2. ASSUME NEW n \in 1..Len(backlog), NEW j \in Slots, Entered(j)'
          PROVE  clients'[j].sockfd # backlog[n]
      <3>1. CASE j = client_id
        <4>1. clients'[j].sockfd = newsockfd
          BY <1>5, <3>1 DEF Entry, TypeOK
        <4>2. QED
          BY <2>1, <4>1 DEF Newcomers
      <3>2. CASE j # client_id
        <4>1. Entered(j)
          BY <2>1, <2>2, <3>2 DEF Entered
        <4>2. clients'[j] = clients[j]
          BY <1>5, <3>2 DEF Entry, TypeOK
        <4>3. QED
          BY <4>1, <4>2 DEF Newcomers, NoEntry
      <3>3. QED
        BY <3>1, <3>2
    <2>3. QED
      BY <2>1, <2>2 DEF Newcomers, NoEntry
  <1>6. CASE \E c \in Clients : Connect(c)
    <2>1. PICK c \in Clients : Connect(c)
      BY <1>6
    <2>2. /\ conn[c] = "off" /\ backlog' = Append(backlog, c)
          /\ UNCHANGED <<client_id, clients, mpc, newsockfd>>
      BY <2>1 DEF Connect
    <2>3. conn'[c] = "open"
      BY <2>1 DEF Connect, TypeOK
    <2>4. /\ Len(backlog') = Len(backlog) + 1 /\ backlog'[Len(backlog) + 1] = c
          /\ \A n \in 1..Len(backlog) : backlog'[n] = backlog[n]
      BY <1>2, <2>2, AppendProperties
    <2>5. \A n \in 1..Len(backlog') : n \in 1..Len(backlog) \/ n = Len(backlog) + 1
      BY <1>2, <2>4
    <2>6. \A d : NoEntry(d)' <=> NoEntry(d)
      BY <2>2 DEF NoEntry, Entered
    <2>7. NoEntry(c)
      BY <2>2 DEF Registry, NoEntry
    <2>8. \A n \in 1..Len(backlog) : backlog[n] # c
      BY <2>2 DEF Newcomers
    <2>9. \A n \in 1..Len(backlog') : conn'[backlog'[n]] # "off" /\ NoEntry(backlog'[n])
      BY <1>2, <2>3, <2>4, <2>5, <2>7 DEF Newcomers, ConnGrows
    <2>10. \A m, n \in 1..Len(backlog') : backlog'[m] = backlog'[n] => m = n
      BY <1>2, <2>4, <2>5, <2>8 DEF Newcomers
    <2>11. mpc' = "entry" =>
               /\ conn'[newsockfd'] # "off" /\ NoEntry(newsockfd')
               /\ \A n \in 1..Len(backlog') : backlog'[n] # newsockfd'
      BY <2>2, <2>4, <2>5 DEF Newcomers, MainKnows, ConnGrows
    <2>12. QED
      BY <2>2, <2>6, <2>9, <2>10, <2>11 DEF Newcomers, NoEntry, Entered
  <1>7. CASE UNCHANGED backlog /\ UNCHANGED <<client_id, clients, mpc, newsockfd>>
    BY <1>3, <1>7 DEF Entered
  <1>8. CASE Greet
    BY <1>3, <1>8 DEF Greet, Entered
  <1>9. CASE Spawn
    BY <1>3, <1>9 DEF Spawn, Entered
  <1>10. CASE Count
    BY <1>1, <1>3, <1>10 DEF Count, Entered
  <1>11. QED
    BY <1>4, <1>5, <1>6, <1>7, <1>8, <1>9, <1>10, OnlyMain, OnlyBacklog DEF Main

-----------------------------------------------------------------------------
(* What the clients hear. *)

(* Only Greet and ShoutSend add to what a client has heard. *)
LEMMA OnlySends ==
    [Next]_vars => Greet \/ (\E k \in Slots : ShoutSend(k)) \/ UNCHANGED heard
  <1> SUFFICES ASSUME [Next]_vars, ~Greet, ~(\E k \in Slots : ShoutSend(k))
               PROVE  UNCHANGED heard
    OBVIOUS
  <1>1. CASE UNCHANGED vars
    BY <1>1 DEF vars, netVars
  <1>2. CASE Main
    BY <1>2 DEF Main, Accept, Entry, Spawn, Count, netVars
  <1>3. ASSUME NEW k \in Slots, HearAll(k) PROVE UNCHANGED heard
    BY <1>3 DEF HearAll, Start, Recv, RecvEof, RecvError, Lock, ShoutNext, ShoutEnd, netVars
  <1>4. ASSUME NEW c \in Clients, Client(c) PROVE UNCHANGED heard
    BY <1>4 DEF Client, Connect, Say, Read, Hang, Close
  <1>5. QED
    BY <1>1, <1>2, <1>3, <1>4 DEF Next

LEMMA StepGreeting ==
    TypeOK /\ MainKnows /\ Registry /\ Threads /\ Greeting /\ ConnGrows /\ [Next]_vars => Greeting'
  <1> SUFFICES ASSUME TypeOK, MainKnows, Registry, Threads, Greeting, ConnGrows, [Next]_vars
               PROVE  Greeting'
    OBVIOUS
  <1>1. client_id \in Int /\ \A j \in Slots : j \in Int
    BY GroupAssumption DEF Slots, TypeOK
  <1>2. \A j \in Slots : Greeted(j) => Entered(j) /\ clients[j].sockfd \in Clients
    BY DEF Greeted, Entered, Registry
  <1>3. ASSUME UNCHANGED heard, \A j \in Slots : Greeted(j) => clients'[j] = clients[j],
               \A j \in Slots : Greeted(j)' <=> Greeted(j)
        PROVE  Greeting'
    BY <1>2, <1>3 DEF Greeting, ConnGrows, Registry
  <1>4. CASE Accept
    BY <1>3, <1>4 DEF Accept, netVars, Greeted
  <1>5. CASE Entry
    <2>1. /\ mpc = "entry" /\ mpc' = "greet" /\ UNCHANGED <<client_id, heard>>
      BY <1>5 DEF Entry
    <2>2. ASSUME NEW j \in Slots, Greeted(j) PROVE clients'[j] = clients[j]
      <3>1. j # client_id
        BY <1>1, <2>1, <2>2 DEF Greeted
      <3>2. QED
        BY <1>5, <3>1 DEF Entry, TypeOK
    <2>3. QED
      BY <1>3, <2>1, <2>2 DEF Greeted
  <1>6. CASE Greet
    <2>1. newsockfd \in Clients /\ SendDid(newsockfd, [id |-> client_id, text |-> Auth])
      BY <1>6, GreetFacts
    <2>2. /\ mpc = "greet" /\ mpc' = "spawn" /\ UNCHANGED <<client_id, clients>>
          /\ client_id \in Slots /\ clients[client_id].sockfd = newsockfd
      BY <1>6 DEF Greet, MainKnows
    <2>3. \A j \in Slots : Greeted(j)' <=> Greeted(j) \/ j = client_id
      BY <2>2 DEF Greeted
    <2>4. \A c \in Clients : c # newsockfd => heard'[c] = heard[c]
      BY <2>1 DEF SendDid
    <2>5. heard'[newsockfd] # <<>> \/ conn'[newsockfd] # "open"
      BY <2>1 DEF SendDid
    <2>6. \A c \in Clients : heard'[c] # <<>> =>
              \E j \in Slots : Greeted(j)' /\ clients'[j].sockfd = c
      BY <2>2, <2>3, <2>4 DEF Greeting
    <2>7. ASSUME NEW j \in Slots, Greeted(j)'
          PROVE  heard'[clients'[j].sockfd] # <<>> \/ conn'[clients'[j].sockfd] # "open"
      <3>1. CASE clients[j].sockfd = newsockfd
        BY <2>2, <2>5, <3>1
      <3>2. CASE clients[j].sockfd # newsockfd
        <4>1. Greeted(j) /\ clients[j].sockfd \in Clients
          BY <1>2, <2>2, <2>3, <2>7, <3>2
        <4>2. heard[clients[j].sockfd] # <<>> \/ conn[clients[j].sockfd] # "open"
          BY <4>1 DEF Greeting
        <4>3. QED
          BY <2>1, <2>2, <2>4, <3>2, <4>1, <4>2 DEF SendDid
      <3>3. QED
        BY <3>1, <3>2
    <2>8. QED
      BY <2>6, <2>7 DEF Greeting
  <1>7. CASE Spawn
    BY <1>3, <1>7 DEF Spawn, netVars, Greeted
  <1>8. CASE Count
    BY <1>1, <1>3, <1>8 DEF Count, netVars, Greeted
  <1>9. CASE \E k \in Slots : ShoutSend(k)
    <2>1. PICK k \in Slots : ShoutSend(k)
      BY <1>9
    <2> DEFINE c == clients[i[k]].sockfd
    <2>2. /\ i[k] \in Slots /\ i[k] < client_id /\ c \in Clients
          /\ SendDid(c, [id |-> id[k], text |-> buffer[k]])
      BY <2>1, ShoutFacts
    <2>3. UNCHANGED <<client_id, clients, mpc>>
      BY <2>1 DEF ShoutSend, mainVars
    <2>4. Greeted(i[k]) /\ clients[i[k]].sockfd = c
      BY <2>2 DEF Greeted
    <2> HIDE DEF c
    <2>5. \A d \in Clients : heard'[d] # <<>> => d = c \/ heard[d] # <<>>
      BY <2>2 DEF SendDid
    <2>6. \A d \in Clients : heard[d] # <<>> \/ conn[d] # "open" =>
              heard'[d] # <<>> \/ conn'[d] # "open"
      BY <2>2 DEF SendDid
    <2>7. \A j \in Slots : Greeted(j)' <=> Greeted(j)
      BY <2>3 DEF Greeted
    <2>8. \A d \in Clients : heard'[d] # <<>> =>
              \E j \in Slots : Greeted(j)' /\ clients'[j].sockfd = d
      BY <2>2, <2>3, <2>4, <2>5, <2>7 DEF Greeting
    <2>9. \A j \in Slots : Greeted(j)' =>
              heard'[clients'[j].sockfd] # <<>> \/ conn'[clients'[j].sockfd] # "open"
      BY <1>2, <2>3, <2>6, <2>7 DEF Greeting
    <2>10. QED
      BY <2>8, <2>9 DEF Greeting
  <1>10. CASE UNCHANGED heard /\ UNCHANGED <<client_id, clients, mpc, newsockfd>>
    BY <1>3, <1>10 DEF Greeted
  <1>11. QED
    BY <1>4, <1>5, <1>6, <1>7, <1>8, <1>9, <1>10, OnlyMain, OnlySends DEF Main

LEMMA StepGreetedFirst ==
    TypeOK /\ MainKnows /\ Registry /\ Threads /\ Greeting /\ GreetedFirst /\ [Next]_vars
        => GreetedFirst'
  <1> SUFFICES ASSUME TypeOK, MainKnows, Registry, Threads, Greeting, GreetedFirst, [Next]_vars
               PROVE  GreetedFirst'
    OBVIOUS
  <1>1. client_id \in Int /\ \A j \in Slots : j \in Int
    BY GroupAssumption DEF Slots, TypeOK
  <1>2. \A c \in Clients : heard[c] \in Seq(Items) /\ Len(heard[c]) \in Nat
    BY LenProperties DEF TypeOK
  <1>3. ASSUME NEW c \in Clients, NEW item \in Items, SendDid(c, item),
               conn[c] = "open" => ((item.text = Auth) <=> (heard[c] = <<>>))
        PROVE  GreetedFirst'
    <2>1. ASSUME NEW d \in Clients, NEW n \in 1..Len(heard'[d])
          PROVE  (heard'[d][n].text = Auth) <=> (n = 1)
      <3>1. CASE heard'[d] = heard[d]
        BY <2>1, <3>1 DEF GreetedFirst
      <3>2. CASE heard'[d] # heard[d]
        <4>1. /\ d = c /\ conn[c] = "open" /\ Len(heard'[c]) = Len(heard[c]) + 1
              /\ \A m \in 1..Len(heard[c]) : heard'[c][m] = heard[c][m]
              /\ heard'[c][Len(heard[c]) + 1] = item
          BY <1>3, <3>2 DEF SendDid
        <4>2. CASE n \in 1..Len(heard[c])
          BY <4>1, <4>2 DEF GreetedFirst
        <4>3. CASE n = Len(heard[c]) + 1
          <5>1. (n = 1) <=> (heard[c] = <<>>)
            BY <1>2, <4>3, EmptySeq
          <5>2. QED
            BY <1>3, <4>1, <4>3, <5>1
        <4>4. QED
          BY <1>2, <2>1, <4>1, <4>2, <4>3
      <3>3. QED
        BY <3>1, <3>2
    <2>2. QED
      BY <2>1 DEF GreetedFirst
  <1>4. CASE Greet
    <2> DEFINE item == [id |-> client_id, text |-> Auth]
    <2>1. newsockfd \in Clients /\ SendDid(newsockfd, item)
      BY <1>4, GreetFacts
    <2>2. /\ mpc = "greet" /\ client_id \in Slots /\ clients[client_id].sockfd = newsockfd
      BY <1>4 DEF Greet, MainKnows
    <2>3. heard[newsockfd] = <<>>
      <3>1. SUFFICES ASSUME NEW j \in Slots, Greeted(j), clients[j].sockfd = newsockfd
                     PROVE  FALSE
        BY <2>1 DEF Greeting
      <3>2. j # client_id /\ Entered(j) /\ Entered(client_id)
        BY <1>1, <2>2, <3>1 DEF Greeted, Entered
      <3>3. QED
        BY <2>2, <3>1, <3>2 DEF Registry
    <2>4. item \in Items /\ item.text = Auth
      BY <2>2 DEF Items
    <2> HIDE DEF item
    <2>5. QED
      BY <1>3, <2>1, <2>3, <2>4
  <1>5. CASE \E k \in Slots : ShoutSend(k)
    <2>1. PICK k \in Slots : ShoutSend(k)
      BY <1>5
    <2> DEFINE c == clients[i[k]].sockfd
               item == [id |-> id[k], text |-> buffer[k]]
    <2>2. i[k] \in Slots /\ i[k] < client_id /\ c \in Clients /\ SendDid(c, item)
      BY <2>1, ShoutFacts
    <2>3. conn[c] = "open" => heard[c] # <<>>
      BY <2>2 DEF Greeting, Greeted
    <2>4. item \in Items /\ item.text # Auth
      BY GroupAssumption DEF Items, TypeOK, Frames
    <2> HIDE DEF c, item
    <2>5. QED
      BY <1>3, <2>2, <2>3, <2>4
  <1>6. CASE UNCHANGED heard
    BY <1>6 DEF GreetedFirst
  <1>7. QED
    BY <1>4, <1>5, <1>6, OnlySends

-----------------------------------------------------------------------------
(* Who typed what. *)

(* An entry, once made, stays. *)
EntriesStay == \A j \in Slots : Entered(j) => Entered(j)' /\ clients'[j] = clients[j]

LEMMA StepEntriesStay == TypeOK /\ MainKnows /\ [Next]_vars => EntriesStay
  <1> SUFFICES ASSUME TypeOK, MainKnows, [Next]_vars,
                      NEW j \in Slots, Entered(j)
               PROVE  Entered(j)' /\ clients'[j] = clients[j]
    BY DEF EntriesStay
  <1>1. client_id \in Int /\ j \in Int
    BY GroupAssumption DEF Slots, TypeOK
  <1>2. CASE UNCHANGED <<client_id, clients, mpc, newsockfd>>
    BY <1>2 DEF Entered
  <1>3. CASE Accept
    BY <1>3 DEF Accept, Entered
  <1>4. CASE Entry
    <2>1. mpc = "entry" /\ UNCHANGED client_id
      BY <1>4 DEF Entry
    <2>2. j < client_id /\ j # client_id
      BY <1>1, <2>1 DEF Entered
    <2>3. QED
      BY <1>4, <2>1, <2>2 DEF Entry, Entered, TypeOK
  <1>5. CASE Greet
    BY <1>5 DEF Greet, Entered
  <1>6. CASE Spawn
    BY <1>6 DEF Spawn, Entered
  <1>7. CASE Count
    BY <1>1, <1>7 DEF Count, Entered
  <1>8. QED
    BY <1>2, <1>3, <1>4, <1>5, <1>6, <1>7, OnlyMain DEF Main

LEMMA StepInboxAuthors ==
    TypeOK /\ MainKnows /\ Registry /\ Threads /\ InboxAuthors /\ [Next]_vars => InboxAuthors'
  <1> SUFFICES ASSUME TypeOK, MainKnows, Registry, Threads, InboxAuthors, [Next]_vars
               PROVE  InboxAuthors'
    OBVIOUS
  <1>1. CASE UNCHANGED vars
    BY <1>1 DEF vars, mainVars, threadVars, netVars, InboxAuthors
  <1>2. CASE Accept
    BY <1>2 DEF Accept, netVars, InboxAuthors
  <1>3. CASE Entry
    BY <1>3 DEF Entry, netVars, InboxAuthors
  <1>4. CASE Greet
    <2>1. newsockfd \in Clients /\ SendDid(newsockfd, [id |-> client_id, text |-> Auth])
      BY <1>4, GreetFacts
    <2>2. QED
      BY <2>1 DEF SendDid, InboxAuthors
  <1>5. CASE Spawn
    BY <1>5 DEF Spawn, netVars, InboxAuthors
  <1>6. CASE Count
    BY <1>6 DEF Count, netVars, InboxAuthors
  <1>7. ASSUME NEW k \in Slots, HearAll(k) PROVE InboxAuthors'
    <2>1. CASE Start(k)
      BY <2>1 DEF Start, netVars, InboxAuthors
    <2>2. CASE Recv(k)
      <3> DEFINE s == sockfd[k]
      <3>1. s \in Clients /\ inbox[s] \in Seq(Frames) /\ inbox[s] # <<>>
        BY <2>2 DEF Recv, Threads, ThreadOK, Registry, Entered, TypeOK
      <3>2. inbox'[s] = Tail(inbox[s]) /\ \A d \in Clients : d # s => inbox'[d] = inbox[d]
        BY <2>2, <3>1 DEF Recv, TypeOK
      <3>3. \A n \in 1..Len(Tail(inbox[s])) :
                n + 1 \in 1..Len(inbox[s]) /\ Tail(inbox[s])[n] = inbox[s][n + 1]
        BY <3>1, HeadTailProperties, LenProperties
      <3>4. ASSUME NEW d \in Clients, NEW n \in 1..Len(inbox'[d]) PROVE inbox'[d][n][1] = d
        <4>1. CASE d = s
          <5>1. n \in 1..Len(Tail(inbox[s])) /\ inbox'[d][n] = Tail(inbox[s])[n]
            BY <3>1, <3>2, <3>4, <4>1
          <5>2. n + 1 \in 1..Len(inbox[s]) /\ inbox'[d][n] = inbox[s][n + 1]
            BY <3>3, <5>1
          <5>3. inbox[s][n + 1][1] = s
            BY <3>1, <5>2 DEF InboxAuthors
          <5>4. QED
            BY <4>1, <5>2, <5>3
        <4>2. CASE d # s
          BY <3>2, <3>4, <4>2 DEF InboxAuthors
        <4>3. QED
          BY <4>1, <4>2
      <3>5. QED
        BY <3>4 DEF InboxAuthors
    <2>3. CASE RecvEof(k)
      BY <2>3 DEF RecvEof, netVars, InboxAuthors
    <2>4. CASE RecvError(k)
      BY <2>4 DEF RecvError, netVars, InboxAuthors
    <2>5. CASE Lock(k)
      BY <2>5 DEF Lock, netVars, InboxAuthors
    <2>6. CASE ShoutNext(k)
      BY <2>6 DEF ShoutNext, netVars, InboxAuthors
    <2>7. CASE ShoutSend(k)
      <3>1. /\ i[k] \in Slots /\ i[k] < client_id /\ i[k] # k /\ clients[i[k]].sockfd \in Clients
            /\ SendDid(clients[i[k]].sockfd, [id |-> id[k], text |-> buffer[k]])
        BY <2>7, ShoutFacts
      <3>2. QED
        BY <3>1 DEF SendDid, InboxAuthors
    <2>8. CASE ShoutEnd(k)
      BY <2>8 DEF ShoutEnd, netVars, InboxAuthors
    <2>9. QED
      BY <1>7, <2>1, <2>2, <2>3, <2>4, <2>5, <2>6, <2>7, <2>8 DEF HearAll
  <1>8. ASSUME NEW c \in Clients, Client(c) PROVE InboxAuthors'
    <2>1. CASE Connect(c)
      BY <2>1 DEF Connect, netVars, InboxAuthors
    <2>2. CASE Say(c)
      <3>1. inbox[c] \in Seq(Frames) /\ Len(inbox[c]) \in Nat
        BY LenProperties DEF TypeOK
      <3>2. <<c, sent'>> \in Frames
        <4>1. sent' \in 1..MaxLines
          BY <2>2, GroupAssumption DEF Say, TypeOK
        <4>2. QED
          BY <4>1 DEF Frames
      <3>3. inbox'[c] = Append(inbox[c], <<c, sent'>>) /\ \A d \in Clients : d # c => inbox'[d] = inbox[d]
        BY <2>2 DEF Say, TypeOK
      <3>4. /\ Len(inbox'[c]) = Len(inbox[c]) + 1 /\ inbox'[c][Len(inbox[c]) + 1] = <<c, sent'>>
            /\ \A n \in 1..Len(inbox[c]) : inbox'[c][n] = inbox[c][n]
        BY <3>1, <3>2, <3>3, AppendProperties
      <3>5. \A n \in 1..Len(inbox'[c]) : n \in 1..Len(inbox[c]) \/ n = Len(inbox[c]) + 1
        BY <3>1, <3>4
      <3>6. ASSUME NEW d \in Clients, NEW n \in 1..Len(inbox'[d]) PROVE inbox'[d][n][1] = d
        <4>1. CASE d = c
          <5>1. CASE n = Len(inbox[c]) + 1
            BY <3>4, <4>1, <5>1
          <5>2. CASE n \in 1..Len(inbox[c])
            BY <3>4, <4>1, <5>2 DEF InboxAuthors
          <5>3. QED
            BY <3>5, <3>6, <4>1, <5>1, <5>2
        <4>2. CASE d # c
          BY <3>3, <3>6, <4>2 DEF InboxAuthors
        <4>3. QED
          BY <4>1, <4>2
      <3>7. QED
        BY <3>6 DEF InboxAuthors
    <2>3. CASE Read(c)
      BY <2>3 DEF Read, netVars, InboxAuthors
    <2>4. CASE Close(c)
      BY <2>4 DEF Close, netVars, InboxAuthors
    <2>5. CASE Hang(c)
      BY <2>5 DEF Hang, netVars, InboxAuthors
    <2>6. QED
      BY <1>8, <2>1, <2>2, <2>3, <2>4, <2>5 DEF Client
  <1>9. QED
    BY <1>1, <1>2, <1>3, <1>4, <1>5, <1>6, <1>7, <1>8 DEF Next, Main

LEMMA StepBufferAuthors ==
    TypeOK /\ MainKnows /\ Registry /\ Threads /\ InboxAuthors /\ BufferAuthors /\ [Next]_vars => BufferAuthors'
  <1> SUFFICES ASSUME TypeOK, MainKnows, Registry, Threads, InboxAuthors, BufferAuthors, [Next]_vars
               PROVE  BufferAuthors'
    OBVIOUS
  <1>1. CASE UNCHANGED vars
    BY <1>1 DEF vars, mainVars, threadVars, netVars, BufferAuthors
  <1>2. CASE Accept
    BY <1>2 DEF Accept, threadVars, BufferAuthors
  <1>3. CASE Entry
    BY <1>3 DEF Entry, threadVars, BufferAuthors
  <1>4. CASE Greet
    BY <1>4 DEF Greet, threadVars, BufferAuthors
  <1>5. CASE Spawn
    <2>1. pc[client_id] = "none"
      BY <1>5, GroupAssumption DEF Spawn, MainKnows, Threads, ThreadOK, Slots
    <2>2. QED
      BY <1>5, <2>1 DEF Spawn, TypeOK, BufferAuthors
  <1>6. CASE Count
    BY <1>6 DEF Count, threadVars, BufferAuthors
  <1>7. ASSUME NEW k \in Slots, HearAll(k) PROVE BufferAuthors'
    <2>1. CASE Start(k)
      BY <2>1 DEF Start, threadVars, TypeOK, BufferAuthors
    <2>2. CASE Recv(k)
      <3> DEFINE s == sockfd[k]
      <3>1. s \in Clients /\ inbox[s] \in Seq(Frames) /\ inbox[s] # <<>>
        BY <2>2 DEF Recv, Threads, ThreadOK, Registry, Entered, TypeOK
      <3>2. Head(inbox[s]) = inbox[s][1] /\ 1 \in 1..Len(inbox[s])
        BY <3>1, EmptySeq
      <3>3. inbox[s][1][1] = s
        BY <3>1, <3>2 DEF InboxAuthors
      <3>4. buffer'[k] = inbox[s][1] /\ pc'[k] = "lock" /\ UNCHANGED sockfd
        BY <2>2, <3>2 DEF Recv, TypeOK
      <3>5. \A l \in Slots : l # k => buffer'[l] = buffer[l] /\ pc'[l] = pc[l]
        BY <2>2 DEF Recv, TypeOK
      <3>6. QED
        BY <3>3, <3>4, <3>5 DEF BufferAuthors
    <2>3. CASE RecvEof(k)
      BY <2>3 DEF RecvEof, threadVars, TypeOK, BufferAuthors
    <2>4. CASE RecvError(k)
      BY <2>4 DEF RecvError, threadVars, TypeOK, BufferAuthors
    <2>5. CASE Lock(k)
      BY <2>5 DEF Lock, threadVars, TypeOK, BufferAuthors
    <2>6. CASE ShoutNext(k)
      BY <2>6 DEF ShoutNext, threadVars, TypeOK, BufferAuthors
    <2>7. CASE ShoutSend(k)
      BY <2>7 DEF ShoutSend, threadVars, TypeOK, BufferAuthors
    <2>8. CASE ShoutEnd(k)
      BY <2>8 DEF ShoutEnd, threadVars, TypeOK, BufferAuthors
    <2>9. QED
      BY <1>7, <2>1, <2>2, <2>3, <2>4, <2>5, <2>6, <2>7, <2>8 DEF HearAll
  <1>8. ASSUME NEW c \in Clients, Client(c) PROVE BufferAuthors'
    <2>1. CASE Connect(c)
      BY <2>1 DEF Connect, threadVars, BufferAuthors
    <2>2. CASE Say(c)
      BY <2>2 DEF Say, threadVars, BufferAuthors
    <2>3. CASE Read(c)
      BY <2>3 DEF Read, threadVars, BufferAuthors
    <2>4. CASE Close(c)
      BY <2>4 DEF Close, threadVars, BufferAuthors
    <2>5. CASE Hang(c)
      BY <2>5 DEF Hang, threadVars, BufferAuthors
    <2>6. QED
      BY <1>8, <2>1, <2>2, <2>3, <2>4, <2>5 DEF Client
  <1>9. QED
    BY <1>1, <1>2, <1>3, <1>4, <1>5, <1>6, <1>7, <1>8 DEF Next, Main

(* A property of what each client has heard survives a send if the new     *)
(* item has it.                                                            *)
LEMMA StepNames ==
    TypeOK /\ MainKnows /\ Registry /\ Threads /\ BufferAuthors /\ HeardAuthors /\ RightName
        /\ [Next]_vars => (HeardAuthors /\ RightName)'
  <1> SUFFICES ASSUME TypeOK, MainKnows, Registry, Threads, BufferAuthors, HeardAuthors,
                      RightName, [Next]_vars
               PROVE  (HeardAuthors /\ RightName)'
    OBVIOUS
  <1>1. EntriesStay
    BY StepEntriesStay
  <1>2. \A c \in Clients : /\ heard[c] \in Seq(Items) /\ Len(heard[c]) \in Nat
                           /\ \A n \in 1..Len(heard[c]) : heard[c][n].id \in Slots
    <2>1. SUFFICES ASSUME NEW c \in Clients
                   PROVE  /\ heard[c] \in Seq(Items) /\ Len(heard[c]) \in Nat
                          /\ \A n \in 1..Len(heard[c]) : heard[c][n].id \in Slots
      OBVIOUS
    <2>2. heard[c] \in Seq(Items)
      BY DEF TypeOK
    <2>3. \A n \in 1..Len(heard[c]) : heard[c][n] \in Items
      BY <2>2, ElementOfSeq
    <2>4. QED
      BY <2>2, <2>3, LenProperties DEF Items
  <1>3. ASSUME NEW c \in Clients, NEW item \in Items, SendDid(c, item), UNCHANGED clients,
               item.text \in Frames /\ conn[c] = "open" =>
                   /\ Entered(item.id) /\ item.text[1] # c
                   /\ clients[item.id].sockfd = item.text[1]
        PROVE  (HeardAuthors /\ RightName)'
    <2>1. ASSUME NEW d \in Clients, NEW n \in 1..Len(heard'[d]), heard'[d][n].text \in Frames
          PROVE  /\ Entered(heard[d][n].id)' /\ heard'[d][n].text[1] # d
                 /\ clients'[heard'[d][n].id].sockfd = heard'[d][n].text[1]
      <3>1. CASE n \in 1..Len(heard[d]) /\ heard'[d][n] = heard[d][n]
        <4>1. heard[d][n].id \in Slots /\ heard[d][n].text \in Frames
          BY <1>2, <2>1, <3>1
        <4>2. Entered(heard[d][n].id)
          BY <3>1, <4>1 DEF HeardAuthors
        <4>3. Entered(heard[d][n].id)'
          BY <1>1, <3>1, <4>1, <4>2 DEF EntriesStay, Entered
        <4>4. QED
          BY <1>3, <3>1, <4>1, <4>3 DEF RightName
      <3>2. CASE d = c /\ conn[c] = "open" /\ heard'[d][n] = item
        <4>1. item.id \in Slots /\ Entered(item.id)
          BY <1>3, <2>1, <3>2 DEF Items
        <4>2. Entered(heard[d][n].id)'
          BY <1>1, <3>2, <4>1 DEF EntriesStay, Entered
        <4>3. QED
          BY <1>3, <2>1, <3>2, <4>2
      <3>3. QED
        <4>1. CASE heard'[d] = heard[d]
          BY <2>1, <3>1, <4>1
        <4>2. CASE heard'[d] # heard[d]
          <5>1. /\ d = c /\ conn[c] = "open" /\ Len(heard'[c]) = Len(heard[c]) + 1
                /\ \A m \in 1..Len(heard[c]) : heard'[c][m] = heard[c][m]
                /\ heard'[c][Len(heard[c]) + 1] = item
            BY <1>3, <4>2 DEF SendDid
          <5>2. CASE n = Len(heard[c]) + 1
            BY <3>2, <5>1, <5>2
          <5>3. CASE n \in 1..Len(heard[c])
            BY <3>1, <5>1, <5>3
          <5>4. QED
            BY <1>2, <2>1, <5>1, <5>2, <5>3
        <4>3. QED
          BY <4>1, <4>2
    <2>2. QED
      BY <2>1 DEF HeardAuthors, RightName
  <1>4. CASE Greet
    <2> DEFINE item == [id |-> client_id, text |-> Auth]
    <2>1. newsockfd \in Clients /\ SendDid(newsockfd, item)
      BY <1>4, GreetFacts
    <2>2. client_id \in Slots /\ UNCHANGED clients
      BY <1>4 DEF Greet, MainKnows
    <2>3. item \in Items /\ item.text \notin Frames
      BY <2>2, GroupAssumption DEF Items, Frames
    <2> HIDE DEF item
    <2>4. QED
      BY <1>3, <2>1, <2>2, <2>3
  <1>5. CASE \E k \in Slots : ShoutSend(k)
    <2>1. PICK k \in Slots : ShoutSend(k)
      BY <1>5
    <2> DEFINE c == clients[i[k]].sockfd
               item == [id |-> id[k], text |-> buffer[k]]
    <2>2. i[k] \in Slots /\ i[k] < client_id /\ i[k] # k /\ c \in Clients /\ SendDid(c, item)
      BY <2>1, ShoutFacts
    <2>3. UNCHANGED clients /\ pc[k] = "send"
      BY <2>1 DEF ShoutSend, mainVars
    <2>4. /\ Entered(k) /\ Entered(i[k]) /\ id[k] = k /\ sockfd[k] = clients[k].sockfd
      BY <2>2, <2>3 DEF Threads, ThreadOK, Entered
    <2>5. c # clients[k].sockfd
      BY <2>2, <2>4 DEF Registry
    <2>6. item \in Items /\ item.id = k /\ item.text = buffer[k]
      BY <2>4 DEF Items, TypeOK
    <2>7. buffer[k] \in Frames => buffer[k][1] = clients[k].sockfd
      BY <2>4 DEF BufferAuthors
    <2> HIDE DEF c, item
    <2>8. QED
      BY <1>3, <2>2, <2>3, <2>4, <2>5, <2>6, <2>7
  <1>6. CASE UNCHANGED heard
    BY <1>1, <1>2, <1>6 DEF EntriesStay, HeardAuthors, RightName
  <1>7. QED
    BY <1>4, <1>5, <1>6, OnlySends

-----------------------------------------------------------------------------
(* A shout. *)

(* While k shouts only k moves its loop, and nobody else sends for a shout. *)
LEMMA OnlyTheShouter ==
    ASSUME TypeOK, Threads, [Next]_vars, NEW k \in Slots, Shouting(k)'
    PROVE  \/ Lock(k) \/ ShoutNext(k) \/ ShoutSend(k)
           \/ /\ Shouting(k) /\ i'[k] = i[k] /\ id'[k] = id[k] /\ buffer'[k] = buffer[k]
              /\ \A l \in Slots : ~ShoutSend(l)
  <1> SUFFICES ASSUME ~Lock(k), ~ShoutNext(k), ~ShoutSend(k)
               PROVE  /\ Shouting(k) /\ i'[k] = i[k] /\ id'[k] = id[k] /\ buffer'[k] = buffer[k]
                      /\ \A l \in Slots : ~ShoutSend(l)
    OBVIOUS
  <1>1. /\ Shouting(k) /\ i'[k] = i[k] /\ id'[k] = id[k] /\ buffer'[k] = buffer[k]
    <2>1. CASE UNCHANGED vars
      BY <2>1 DEF vars, threadVars, Shouting
    <2>2. CASE Main
      <3>1. /\ pc' = pc \/ pc' = [pc EXCEPT ![client_id] = "start"]
            /\ UNCHANGED <<i, id, buffer>>
        BY <2>2 DEF Main, Accept, Entry, Greet, Spawn, Count, threadVars
      <3>2. QED
        BY <3>1 DEF Shouting, TypeOK
    <2>3. ASSUME NEW l \in Slots, HearAll(l)
          PROVE  /\ Shouting(k) /\ i'[k] = i[k] /\ id'[k] = id[k] /\ buffer'[k] = buffer[k]
      <3>1. CASE l = k
        BY <2>3, <3>1 DEF HearAll, Start, Recv, RecvEof, RecvError, ShoutEnd, Shouting,
                          threadVars, TypeOK
      <3>2. CASE l # k
        <4>1. /\ pc'[k] = pc[k] /\ i'[k] = i[k] /\ id'[k] = id[k] /\ buffer'[k] = buffer[k]
          BY <2>3, <3>2 DEF HearAll, Start, Recv, RecvEof, RecvError, Lock, ShoutNext,
                            ShoutSend, ShoutEnd, threadVars, TypeOK
        <4>2. QED
          BY <4>1 DEF Shouting
      <3>3. QED
        BY <3>1, <3>2
    <2>4. ASSUME NEW c \in Clients, Client(c)
          PROVE  /\ Shouting(k) /\ i'[k] = i[k] /\ id'[k] = id[k] /\ buffer'[k] = buffer[k]
      BY <2>4 DEF Client, Connect, Say, Read, Hang, Close, threadVars, Shouting
    <2>5. QED
      BY <2>1, <2>2, <2>3, <2>4 DEF Next
  <1>2. ASSUME NEW l \in Slots, ShoutSend(l) PROVE FALSE
    <2>1. shouting = k
      BY <1>1 DEF Threads, ThreadOK, Shouting
    <2>2. shouting = l
      BY <1>2 DEF Threads, ThreadOK, ShoutSend
    <2>3. QED
      BY <1>2, <2>1, <2>2
  <1>3. QED
    BY <1>1, <1>2

LEMMA StepEveryoneHeard ==
    TypeOK /\ MainKnows /\ Registry /\ Threads /\ EveryoneHeard /\ ConnGrows /\ [Next]_vars
        => EveryoneHeard'
  <1> SUFFICES ASSUME TypeOK, MainKnows, Registry, Threads, EveryoneHeard, ConnGrows,
                      [Next]_vars,
                      NEW k \in Slots, Shouting(k)', NEW j \in 0..(i'[k] - 1),
                      conn'[clients'[j].sockfd] = "open", j # id'[k]
               PROVE  Last(heard'[clients'[j].sockfd]) = [id |-> id'[k], text |-> buffer'[k]]
    BY DEF EveryoneHeard
  <1> DEFINE c == clients[j].sockfd
             item == [id |-> id[k], text |-> buffer[k]]
  <1>1. /\ i[k] \in 0..MAX_NUM_CLIENT /\ client_id \in 0..MAX_NUM_CLIENT
        /\ i'[k] \in Int
    <2>1. i[k] \in 0..MAX_NUM_CLIENT /\ client_id \in 0..MAX_NUM_CLIENT
      BY DEF TypeOK
    <2>2. TypeOK'
      BY StepTypeOK
    <2>3. i'[k] \in 0..MAX_NUM_CLIENT
      BY <2>2 DEF TypeOK
    <2>4. QED
      BY <2>1, <2>3, GroupAssumption
  <1>2. j \in Nat /\ j < i'[k]
    BY <1>1
  <1>3. ~Lock(k)
    <2>1. Lock(k) => i'[k] = 0
      BY DEF Lock, TypeOK
    <2>2. QED
      BY <1>2, <2>1
  <1>4. CASE ShoutNext(k) \/ ShoutSend(k)
    <2>1. /\ i[k] < client_id /\ Shouting(k)
          /\ i'[k] \in {i[k], i[k] + 1} /\ id' = id /\ buffer' = buffer
          /\ UNCHANGED clients
      BY <1>4 DEF ShoutNext, ShoutSend, Threads, ThreadOK, Shouting, mainVars, TypeOK
    <2>2. j < client_id /\ j \in Slots
      BY <1>1, <1>2, <2>1, GroupAssumption DEF Slots
    <2>3. c \in Clients /\ conn[c] # "off"
      BY <2>2 DEF Registry, Entered
    <2>4. conn[c] = "open"
      BY <2>1, <2>3 DEF ConnGrows
    <2>5. heard[c] \in Seq(Items) /\ Len(heard[c]) \in Nat
      BY <2>3, LenProperties DEF TypeOK
    <2>6. ASSUME j < i[k] PROVE Last(heard[c]) = item
      <3>1. j \in 0..(i[k] - 1)
        BY <1>1, <1>2, <2>6
      <3>2. QED
        BY <2>1, <2>4, <3>1 DEF EveryoneHeard
    <2>7. CASE ShoutNext(k)
      <3>1. heard' = heard /\ (i[k] = id[k] \/ i'[k] = i[k])
        BY <2>7 DEF ShoutNext, netVars
      <3>2. j < i[k]
        BY <1>1, <1>2, <2>1, <3>1
      <3>3. QED
        BY <2>1, <2>6, <3>1, <3>2
    <2>8. CASE ShoutSend(k)
      <3>1. /\ i[k] \in Slots /\ clients[i[k]].sockfd \in Clients
            /\ SendDid(clients[i[k]].sockfd, item)
        BY <2>8, ShoutFacts
      <3>2. CASE j < i[k]
        <4>1. Entered(j) /\ Entered(i[k]) /\ j # i[k]
          BY <1>1, <1>2, <2>1, <2>2, <3>2 DEF Entered
        <4>2. c # clients[i[k]].sockfd
          BY <2>2, <3>1, <4>1 DEF Registry
        <4>3. heard'[c] = heard[c]
          BY <2>3, <3>1, <4>2 DEF SendDid
        <4>4. QED
          BY <2>1, <2>6, <3>2, <4>3
      <3>3. CASE j = i[k]
        <4>1. Len(heard'[c]) = Len(heard[c]) + 1 /\ heard'[c][Len(heard[c]) + 1] = item
          BY <2>4, <3>1, <3>3 DEF SendDid
        <4>2. QED
          BY <2>1, <4>1 DEF Last
      <3>4. QED
        BY <1>1, <1>2, <2>1, <3>2, <3>3
    <2>9. QED
      BY <1>4, <2>7, <2>8
  <1>5. CASE /\ Shouting(k) /\ i'[k] = i[k] /\ id'[k] = id[k] /\ buffer'[k] = buffer[k]
             /\ \A l \in Slots : ~ShoutSend(l)
    <2>1. i[k] <= client_id
      BY <1>1, <1>5 DEF Threads, ThreadOK, Shouting
    <2>2. j < client_id /\ j \in Slots /\ j \in 0..(i[k] - 1)
      BY <1>1, <1>2, <1>5, <2>1, GroupAssumption DEF Slots
    <2>3. c \in Clients /\ conn[c] # "off" /\ Entered(j)
      BY <2>2 DEF Registry, Entered
    <2>4. clients'[j] = clients[j]
      BY <2>2, <2>3, StepEntriesStay DEF EntriesStay
    <2>5. conn[c] = "open"
      BY <2>3, <2>4 DEF ConnGrows
    <2>6. heard'[c] = heard[c]
      <3>1. CASE Greet
        <4>1. newsockfd \in Clients /\ SendDid(newsockfd, [id |-> client_id, text |-> Auth])
          BY <3>1, GreetFacts
        <4>2. /\ client_id \in Slots /\ clients[client_id].sockfd = newsockfd
              /\ Entered(client_id) /\ j # client_id
          BY <1>1, <2>2, <3>1 DEF Greet, MainKnows, Entered
        <4>3. c # newsockfd
          BY <2>2, <2>3, <4>2 DEF Registry
        <4>4. QED
          BY <2>3, <4>1, <4>3 DEF SendDid
      <3>2. QED
        BY <1>5, <3>1, OnlySends
    <2>7. Last(heard[c]) = item
      BY <1>5, <2>2, <2>5 DEF EveryoneHeard
    <2>8. QED
      BY <1>5, <2>4, <2>6, <2>7
  <1>6. QED
    BY <1>3, <1>4, <1>5, OnlyTheShouter

-----------------------------------------------------------------------------
(* The theorems. *)

LEMMA Inductive == Spec => []IInv
  <1>1. Init => IInv
    BY InitInv
  <1>2. IInv /\ [Next]_vars => IInv'
    <2> SUFFICES ASSUME IInv, [Next]_vars PROVE IInv'
      OBVIOUS
    <2> USE DEF IInv
    <2>1. ConnGrows
      BY StepConnGrows
    <2>2. TypeOK' /\ MainKnows'
      BY StepTypeOK, StepMainKnows
    <2>3. Registry' /\ Newcomers' /\ Threads'
      BY <2>1, StepRegistry, StepNewcomers, StepThreads
    <2>4. Greeting' /\ GreetedFirst'
      BY <2>1, StepGreeting, StepGreetedFirst
    <2>5. InboxAuthors' /\ BufferAuthors'
      BY StepInboxAuthors, StepBufferAuthors
    <2>6. (HeardAuthors /\ RightName)' /\ EveryoneHeard'
      BY <2>1, StepNames, StepEveryoneHeard
    <2>7. QED
      BY <2>2, <2>3, <2>4, <2>5, <2>6
  <1>3. QED
    BY <1>1, <1>2, PTL DEF Spec

(* The variables of the server stay in their types; in particular main     *)
(* never counts beyond the array, since the model stops at the write that  *)
(* runs past it.                                                           *)
THEOREM GroupTypeOK == Spec => []TypeOK
  <1>1. IInv => TypeOK
    BY DEF IInv
  <1>2. QED
    BY <1>1, Inductive, PTL

(* "You are ClientN" is the first thing every client hears, and it hears   *)
(* it once, whatever shouts are under way while it is being accepted.      *)
THEOREM GroupGreetedFirst == Spec => []GreetedFirst
  <1>1. IInv => GreetedFirst
    BY DEF IInv
  <1>2. QED
    BY <1>1, Inductive, PTL

(* The number in front of a line is that of the client that typed it, and  *)
(* no client hears its own lines.                                          *)
THEOREM GroupRightName == Spec => []RightName
  <1>1. IInv => RightName
    BY DEF IInv
  <1>2. QED
    BY <1>1, Inductive, PTL

(* A shout has reached, as the last thing sent to it, every client its     *)
(* loop has passed, however many threads wait and whoever is accepted or   *)
(* leaves meanwhile.                                                       *)
THEOREM GroupEveryoneHeard == Spec => []EveryoneHeard
  <1>1. IInv => EveryoneHeard
    BY DEF IInv
  <1>2. QED
    BY <1>1, Inductive, PTL

-----------------------------------------------------------------------------
(* The group server implements a Room.                                     *)

(* The line being shouted is the last of the log. *)
LogTop == \A k \in Slots : Shouting(k) =>
              log # <<>> /\ Last(log) = [id |-> id[k], text |-> buffer[k]]

(* The number a client was greeted with is the index of its entry. *)
OwnNumber ==
    \A c \in Clients : heard[c] # <<>> =>
        \E j \in Slots : Greeted(j) /\ clients[j].sockfd = c /\ Head(heard[c]).id = j

(* What the refinement needs beyond the invariant of the server: the Room  *)
(* speaks of numbers and of the last line, the server of entries and of    *)
(* the buffers of its threads.                                             *)
RInv == IInv /\ LogTop /\ OwnNumber

-----------------------------------------------------------------------------
LEMMA InitRInv == Init => RInv
  <1> SUFFICES ASSUME Init PROVE RInv
    OBVIOUS
  <1>1. LogTop /\ OwnNumber
    BY DEF Init, LogTop, OwnNumber, Shouting
  <1>2. QED
    BY <1>1, InitInv DEF RInv

LEMMA StepLogTop == TypeOK /\ Threads /\ LogTop /\ [Next]_vars => LogTop'
  <1> SUFFICES ASSUME TypeOK, Threads, LogTop, [Next]_vars, NEW k \in Slots, Shouting(k)'
               PROVE  log' # <<>> /\ Last(log') = [id |-> id'[k], text |-> buffer'[k]]
    BY DEF LogTop
  <1>1. CASE Lock(k)
    <2> DEFINE item == [id |-> id[k], text |-> buffer[k]]
    <2>1. item \in Items /\ log \in Seq(Items)
      BY DEF TypeOK, Items
    <2>2. log' = Append(log, item) /\ UNCHANGED <<id, buffer>>
      BY <1>1 DEF Lock
    <2> HIDE DEF item
    <2>3. log' # <<>> /\ Len(log') = Len(log) + 1 /\ log'[Len(log) + 1] = item
      BY <2>1, <2>2, AppendProperties
    <2>4. QED
      BY <2>2, <2>3 DEF Last, item
  <1>2. CASE ShoutNext(k) \/ ShoutSend(k)
    <2>1. Shouting(k) /\ UNCHANGED <<id, buffer, log>>
      BY <1>2 DEF ShoutNext, ShoutSend, Shouting
    <2>2. QED
      BY <2>1 DEF LogTop
  <1>3. CASE Shouting(k) /\ id'[k] = id[k] /\ buffer'[k] = buffer[k]
    <2>1. shouting # NoThread
      BY <1>3, GroupAssumption DEF Threads, ThreadOK, Shouting, Slots
    <2>2. UNCHANGED log
      <3>1. CASE UNCHANGED vars
        BY <3>1 DEF vars, threadVars
      <3>2. CASE Main
        BY <3>2 DEF Main, Accept, Entry, Greet, Spawn, Count, threadVars
      <3>3. ASSUME NEW l \in Slots, HearAll(l) PROVE UNCHANGED log
        BY <2>1, <3>3 DEF HearAll, Start, Recv, RecvEof, RecvError, Lock, ShoutNext,
                          ShoutSend, ShoutEnd, threadVars
      <3>4. ASSUME NEW c \in Clients, Client(c) PROVE UNCHANGED log
        BY <3>4 DEF Client, Connect, Say, Read, Hang, Close, threadVars
      <3>5. QED
        BY <3>1, <3>2, <3>3, <3>4 DEF Next
    <2>3. QED
      BY <1>3, <2>2 DEF LogTop
  <1>4. QED
    BY <1>1, <1>2, <1>3, OnlyTheShouter

(* Before main greets a client, nothing has been sent to it. *)
LEMMA GreetedOnce ==
    ASSUME TypeOK, MainKnows, Registry, Greeting, Greet
    PROVE  /\ newsockfd \in Clients /\ heard[newsockfd] = <<>>
           /\ client_id \in Slots /\ clients[client_id].sockfd = newsockfd
           /\ UNCHANGED <<client_id, clients>> /\ Greeted(client_id)'
  <1>1. newsockfd \in Clients
    BY GreetFacts
  <1>2. /\ mpc = "greet" /\ client_id \in Slots /\ clients[client_id].sockfd = newsockfd
        /\ UNCHANGED <<client_id, clients>> /\ mpc' = "spawn"
    BY DEF Greet, MainKnows
  <1>3. ASSUME NEW j \in Slots, Greeted(j), clients[j].sockfd = newsockfd PROVE FALSE
    <2>1. client_id \in Int /\ j \in Int
      BY GroupAssumption DEF Slots, TypeOK
    <2>2. j # client_id /\ Entered(j) /\ Entered(client_id)
      BY <1>2, <1>3, <2>1 DEF Greeted, Entered
    <2>3. QED
      BY <1>2, <1>3, <2>2 DEF Registry
  <1>4. heard[newsockfd] = <<>>
    BY <1>1, <1>3 DEF Greeting
  <1>5. QED
    BY <1>1, <1>2, <1>4 DEF Greeted

(* A greeted client stays greeted, under the same entry. *)
LEMMA StepGreetedStays ==
    ASSUME TypeOK, MainKnows, [Next]_vars, NEW j \in Slots, Greeted(j)
    PROVE  Greeted(j)' /\ clients'[j] = clients[j]
  <1>1. client_id \in Int /\ j \in Int
    BY GroupAssumption DEF Slots, TypeOK
  <1>2. Entered(j)
    BY DEF Greeted, Entered
  <1>3. clients'[j] = clients[j]
    BY <1>2, StepEntriesStay DEF EntriesStay
  <1>4. Greeted(j)'
    <2>1. CASE UNCHANGED <<client_id, mpc>>
      BY <2>1 DEF Greeted
    <2>2. CASE Main
      BY <1>1, <2>2 DEF Main, Accept, Entry, Greet, Spawn, Count, Greeted
    <2>3. QED
      BY <2>1, <2>2, OnlyMain
  <1>5. QED
    BY <1>3, <1>4

LEMMA StepOwnNumber ==
    TypeOK /\ MainKnows /\ Registry /\ Threads /\ Greeting /\ OwnNumber /\ [Next]_vars => OwnNumber'
  <1> SUFFICES ASSUME TypeOK, MainKnows, Registry, Threads, Greeting, OwnNumber, [Next]_vars,
                      NEW c \in Clients, heard'[c] # <<>>
               PROVE  \E j \in Slots : Greeted(j)' /\ clients'[j].sockfd = c /\ Head(heard'[c]).id = j
    BY DEF OwnNumber
  <1>1. ASSUME heard[c] # <<>>, Head(heard'[c]) = Head(heard[c])
        PROVE  \E j \in Slots : Greeted(j)' /\ clients'[j].sockfd = c /\ Head(heard'[c]).id = j
    <2>1. PICK j \in Slots : Greeted(j) /\ clients[j].sockfd = c /\ Head(heard[c]).id = j
      BY <1>1 DEF OwnNumber
    <2>2. Greeted(j)' /\ clients'[j] = clients[j]
      BY <2>1, StepGreetedStays
    <2>3. QED
      BY <1>1, <2>1, <2>2
  <1>2. ASSUME NEW d \in Clients, NEW item \in Items, SendDid(d, item), heard[c] # <<>>
        PROVE  Head(heard'[c]) = Head(heard[c])
    <2>1. heard[c] \in Seq(Items) /\ heard'[c] \in Seq(Items)
      BY <1>2 DEF TypeOK, SendDid
    <2>2. heard'[c] = heard[c] \/ \A n \in 1..Len(heard[c]) : heard'[c][n] = heard[c][n]
      BY <1>2 DEF SendDid
    <2>3. 1 \in 1..Len(heard[c])
      BY <1>2, <2>1, EmptySeq, LenProperties
    <2>4. QED
      BY <1>2, <2>1, <2>2, <2>3
  <1>3. CASE Greet
    <2> DEFINE item == [id |-> client_id, text |-> Auth]
    <2>1. newsockfd \in Clients /\ SendDid(newsockfd, item)
      BY <1>3, GreetFacts
    <2>2. /\ heard[newsockfd] = <<>> /\ client_id \in Slots
          /\ clients'[client_id].sockfd = newsockfd /\ Greeted(client_id)'
          /\ client_id' = client_id
      BY <1>3, GreetedOnce
    <2>3. item \in Items /\ item.id = client_id
      BY <2>2 DEF Items
    <2> HIDE DEF item
    <2>4. CASE heard[c] # <<>>
      BY <1>1, <1>2, <2>1, <2>3, <2>4
    <2>5. CASE heard[c] = <<>>
      <3>1. c = newsockfd
        BY <2>1, <2>5 DEF SendDid
      <3>2. heard'[c][1] = item /\ heard'[c] \in Seq(Items)
        BY <2>1, <2>5, <3>1 DEF SendDid
      <3>3. Head(heard'[c]) = item
        BY <3>2
      <3>4. PICK j \in Slots : j = client_id
        BY <2>2
      <3>5. Greeted(j)' /\ clients'[j].sockfd = c /\ Head(heard'[c]).id = j
        BY <2>2, <2>3, <3>1, <3>3, <3>4
      <3>6. QED
        BY <3>5
    <2>6. QED
      BY <2>4, <2>5
  <1>4. CASE \E k \in Slots : ShoutSend(k)
    <2>1. PICK k \in Slots : ShoutSend(k)
      BY <1>4
    <2> DEFINE d == clients[i[k]].sockfd
               item == [id |-> id[k], text |-> buffer[k]]
    <2>2. i[k] \in Slots /\ i[k] < client_id /\ d \in Clients /\ SendDid(d, item)
      BY <2>1, ShoutFacts
    <2>3. heard[d] # <<>> \/ conn[d] # "open"
      BY <2>2 DEF Greeting, Greeted
    <2>4. item \in Items
      BY DEF Items, TypeOK
    <2> HIDE DEF d, item
    <2>5. heard[c] # <<>>
      BY <2>2, <2>3 DEF SendDid
    <2>6. QED
      BY <1>1, <1>2, <2>2, <2>4, <2>5
  <1>5. CASE UNCHANGED heard
    BY <1>1, <1>5
  <1>6. QED
    BY <1>3, <1>4, <1>5, OnlySends

LEMMA RInductive == Spec => []RInv
  <1>1. Init => RInv
    BY InitRInv
  <1>2. RInv /\ IInv' /\ [Next]_vars => RInv'
    BY StepLogTop, StepOwnNumber DEF RInv, IInv
  <1>3. QED
    BY <1>1, <1>2, Inductive, PTL DEF Spec

-----------------------------------------------------------------------------
(* The refinement.  A member has one entry, below client_id, and the       *)
(* number it was greeted with is its index.                                *)
LEMMA MemberFacts ==
    ASSUME RInv, NEW c \in RoomMembers
    PROVE  /\ c \in Clients /\ conn[c] = "open" /\ heard[c] # <<>>
           /\ \E j \in Slots : /\ j < client_id /\ clients[j].sockfd = c
                               /\ Head(heard[c]).id = j
                               /\ \A l \in Slots : l < client_id /\ clients[l].sockfd = c => l = j
  <1> USE DEF RInv, IInv
  <1>1. PICK j \in Slots : j < client_id /\ clients[j].sockfd = c
    BY DEF RoomMembers
  <1>2. c \in Clients /\ conn[c] = "open"
    BY DEF RoomMembers
  <1>3. heard[c] # <<>>
    BY <1>1, <1>2 DEF Greeting, Greeted
  <1>4. PICK l \in Slots : Greeted(l) /\ clients[l].sockfd = c /\ Head(heard[c]).id = l
    BY <1>2, <1>3 DEF OwnNumber
  <1>5. \A m \in Slots : m < client_id /\ clients[m].sockfd = c => m = j
    BY <1>1 DEF Registry, Entered
  <1>6. l = j
    BY <1>1, <1>4 DEF Registry, Entered, Greeted
  <1>7. QED
    BY <1>1, <1>2, <1>3, <1>4, <1>5, <1>6

(* A step in which nobody hears, speaks, joins or leaves. *)
LEMMA QuietStep ==
    ASSUME UNCHANGED <<heard, log, client_id>>,
           \A c \in Clients : /\ (conn'[c] = "open") <=> (conn[c] = "open")
                              /\ (conn'[c] = "off") <=> (conn[c] = "off"),
           \A j \in Slots : j < client_id => clients'[j] = clients[j],
           \A k, j \in Slots :
               j < client_id /\ conn[clients[j].sockfd] = "open" =>
                   (Awaits(k, j)' <=> Awaits(k, j))
    PROVE  UNCHANGED R!vars
  <1>1. RoomMembers' = RoomMembers
    BY DEF RoomMembers
  <1>2. RoomLeft' = RoomLeft
    BY DEF RoomLeft
  <1>3. RoomWaiting' = RoomWaiting
    <2>1. ASSUME NEW c \in RoomMembers PROVE (c \in RoomWaiting') <=> (c \in RoomWaiting)
      <3>1. conn[c] = "open" /\ c \in RoomMembers'
        BY <1>1, <2>1 DEF RoomMembers
      <3>2. \A k, j \in Slots :
                (Awaits(k, j)' /\ j < client_id' /\ clients'[j].sockfd = c)
                    <=> (Awaits(k, j) /\ j < client_id /\ clients[j].sockfd = c)
        BY <3>1
      <3>3. QED
        BY <2>1, <3>1, <3>2 DEF RoomWaiting
    <2>2. QED
      BY <1>1, <2>1 DEF RoomWaiting
  <1>4. QED
    BY <1>1, <1>2, <1>3 DEF R!vars

LEMMA InitRoom == Init => R!Init
  <1> SUFFICES ASSUME Init PROVE R!Init
    OBVIOUS
  <1>1. heard = [c \in Clients |-> <<>>] /\ log = <<>>
    BY DEF Init
  <1>2. RoomMembers = {} /\ RoomLeft = {}
    BY DEF Init, RoomMembers, RoomLeft
  <1>3. RoomWaiting = {}
    BY <1>2 DEF RoomWaiting
  <1>4. QED
    BY <1>1, <1>2, <1>3 DEF R!Init

(* Whatever does not touch the array, the count, the connections and the   *)
(* loop of a shout is quiet.                                               *)
LEMMA LocalStep ==
    ASSUME UNCHANGED <<heard, log, client_id, clients, conn, id, i>>,
           \A k \in Slots : Shouting(k)' <=> Shouting(k)
    PROVE  UNCHANGED R!vars
  BY QuietStep DEF Awaits

(* main's greeting. *)
LEMMA GreetStep ==
    ASSUME RInv, Greet
    PROVE  R!Greet(newsockfd) \/ UNCHANGED R!vars
  <1> USE DEF RInv, IInv
  <1> DEFINE item == [id |-> client_id, text |-> Auth]
  <1>1. /\ newsockfd \in Clients /\ heard[newsockfd] = <<>>
        /\ client_id \in Slots /\ clients[client_id].sockfd = newsockfd
        /\ UNCHANGED <<client_id, clients>>
    BY GreetedOnce
  <1>2. SendTo(newsockfd, item) /\ UNCHANGED <<log, id, i, pc>> /\ mpc = "greet"
    BY DEF Greet, threadVars
  <1>3. CASE conn[newsockfd] = "open"
    <2>1. /\ heard' = [heard EXCEPT ![newsockfd] = Append(@, item)] /\ UNCHANGED conn
      BY <1>2, <1>3 DEF SendTo
    <2>2. heard' = [heard EXCEPT ![newsockfd] = <<item>>]
      BY <1>1, <2>1
    <2>3. UNCHANGED <<RoomMembers, RoomLeft, RoomWaiting>>
      BY <1>1, <1>2, <2>1 DEF RoomMembers, RoomLeft, RoomWaiting, Awaits, Shouting
    <2>4. newsockfd \notin RoomLeft
      BY <1>3 DEF RoomLeft
    <2>5. ASSUME NEW d \in Clients, heard[d] # <<>> PROVE Head(heard[d]).id # client_id
      <3>1. PICK j \in Slots : Greeted(j) /\ clients[j].sockfd = d /\ Head(heard[d]).id = j
        BY <2>5 DEF OwnNumber
      <3>2. client_id \in Int
        BY GroupAssumption DEF TypeOK
      <3>3. ~Greeted(client_id)
        BY <1>2, <3>2 DEF Greeted
      <3>4. QED
        BY <3>1, <3>3
    <2>6. PICK n \in Slots : n = client_id
      BY <1>1
    <2>7. /\ \A d \in Clients : heard[d] # <<>> => R!Number(d) # n
          /\ heard' = [heard EXCEPT ![newsockfd] = <<[id |-> n, text |-> Auth]>>]
      BY <2>2, <2>5, <2>6 DEF R!Number
    <2>8. R!Greet(newsockfd)
      BY <1>1, <1>2, <2>3, <2>4, <2>6, <2>7 DEF R!Greet
    <2>9. QED
      BY <2>8
  <1>4. CASE conn[newsockfd] # "open"
    <2>1. heard' = heard /\ \A c \in Clients : /\ (conn'[c] = "open") <=> (conn[c] = "open")
                                               /\ (conn'[c] = "off") <=> (conn[c] = "off")
      BY <1>1, <1>2, <1>4 DEF SendTo, TypeOK
    <2>2. QED
      BY <1>1, <1>2, <2>1, QuietStep DEF Awaits, Shouting
  <1>5. QED
    BY <1>3, <1>4

(* main counts a client: it joins, unless it has left already. *)
LEMMA CountStep ==
    ASSUME RInv, Count
    PROVE  R!Join(newsockfd) \/ UNCHANGED R!vars
  <1> USE DEF RInv, IInv
  <1>1. /\ mpc = "count" /\ client_id' = client_id + 1
        /\ UNCHANGED <<clients, heard, log, conn, id, i, pc>>
    BY DEF Count, threadVars, netVars
  <1>2. /\ newsockfd \in Clients /\ client_id \in Slots /\ client_id \in Int
        /\ clients[client_id].sockfd = newsockfd
    BY <1>1, GroupAssumption DEF Count, MainKnows, Slots
  <1>3. \A j \in Slots : (j < client_id') <=> (j < client_id \/ j = client_id)
    BY <1>1, <1>2 DEF Slots
  <1>4. ASSUME NEW j \in Slots, j < client_id
        PROVE  clients[j].sockfd # newsockfd
    <2>1. Entered(j) /\ Entered(client_id)
      BY <1>1, <1>4 DEF Entered
    <2>2. j # client_id
      BY <1>2, <1>4 DEF Slots
    <2>3. clients[j].sockfd = clients[client_id].sockfd => j = client_id
      BY <1>2, <2>1 DEF Registry
    <2>4. QED
      BY <1>2, <2>2, <2>3
  <1>5. RoomLeft' = RoomLeft
    BY <1>1 DEF RoomLeft
  <1>6. \A k, j \in Slots : Awaits(k, j)' <=> Awaits(k, j)
    BY <1>1 DEF Awaits, Shouting
  <1>7. CASE conn[newsockfd] = "open"
    <2>1. RoomMembers' = RoomMembers \cup {newsockfd}
      BY <1>1, <1>2, <1>3, <1>7 DEF RoomMembers
    <2>2. newsockfd \notin RoomMembers \cup RoomLeft
      BY <1>4, <1>7 DEF RoomMembers, RoomLeft
    <2>3. heard[newsockfd] # <<>>
      BY <1>1, <1>2, <1>7 DEF Greeting, Greeted
    <2>4. \/ RoomWaiting' = RoomWaiting
          \/ /\ RoomWaiting' = RoomWaiting \cup {newsockfd}
             /\ \E k \in Slots : Awaits(k, client_id)
      <3>1. ASSUME NEW c \in Clients, c # newsockfd
            PROVE  (c \in RoomWaiting') <=> (c \in RoomWaiting)
        <4>1. \A k, j \in Slots :
                  (Awaits(k, j)' /\ j < client_id' /\ clients'[j].sockfd = c)
                      <=> (Awaits(k, j) /\ j < client_id /\ clients[j].sockfd = c)
          BY <1>1, <1>2, <1>3, <1>6, <3>1
        <4>2. (c \in RoomMembers') <=> (c \in RoomMembers)
          BY <2>1, <3>1
        <4>3. QED
          BY <4>1, <4>2 DEF RoomWaiting
      <3>2. (newsockfd \in RoomWaiting') => \E k \in Slots : Awaits(k, client_id)
        <4>1. SUFFICES ASSUME NEW k \in Slots, NEW j \in Slots, Awaits(k, j)',
                              j < client_id', clients'[j].sockfd = newsockfd
                       PROVE  Awaits(k, client_id)
          BY DEF RoomWaiting
        <4>2. j = client_id
          BY <1>1, <1>3, <1>4, <4>1
        <4>3. QED
          BY <1>6, <4>1, <4>2
      <3>3. RoomWaiting \subseteq Clients /\ RoomWaiting' \subseteq Clients
            /\ newsockfd \notin RoomWaiting
        BY <2>2 DEF RoomWaiting, RoomMembers
      <3>4. CASE newsockfd \in RoomWaiting'
        BY <3>1, <3>2, <3>3, <3>4
      <3>5. CASE newsockfd \notin RoomWaiting'
        BY <3>1, <3>3, <3>5
      <3>6. QED
        BY <3>4, <3>5
    <2>5. ASSUME NEW k \in Slots, Awaits(k, client_id)
          PROVE  log # <<>> /\ Last(log).id # Head(heard[newsockfd]).id
      <3>1. log # <<>> /\ Last(log).id = id[k] /\ id[k] # client_id
        BY <2>5 DEF Awaits, LogTop
      <3>2. PICK j \in Slots : /\ Greeted(j) /\ clients[j].sockfd = newsockfd
                               /\ Head(heard[newsockfd]).id = j
        BY <1>2, <2>3 DEF OwnNumber
      <3>3. j = client_id
        BY <1>2, <1>4, <3>2 DEF Greeted
      <3>4. QED
        BY <3>1, <3>2, <3>3
    <2>6. QED
      BY <1>1, <1>5, <2>1, <2>2, <2>3, <2>4, <2>5 DEF R!Join, R!Number, Last, R!Last
  <1>8. CASE conn[newsockfd] # "open"
    <2>1. RoomMembers' = RoomMembers
      BY <1>1, <1>2, <1>3, <1>8 DEF RoomMembers
    <2>2. RoomWaiting' = RoomWaiting
      <3>1. ASSUME NEW c \in RoomMembers PROVE (c \in RoomWaiting') <=> (c \in RoomWaiting)
        <4>1. c # newsockfd
          BY <1>8, <3>1 DEF RoomMembers
        <4>2. \A k, j \in Slots :
                  (Awaits(k, j)' /\ j < client_id' /\ clients'[j].sockfd = c)
                      <=> (Awaits(k, j) /\ j < client_id /\ clients[j].sockfd = c)
          BY <1>1, <1>2, <1>3, <1>6, <4>1
        <4>3. QED
          BY <2>1, <4>2 DEF RoomWaiting
      <3>2. QED
        BY <2>1, <3>1 DEF RoomWaiting
    <2>3. QED
      BY <1>1, <1>5, <2>1, <2>2 DEF R!vars
  <1>9. QED
    BY <1>7, <1>8

(* A thread gets the mutex: its line is spoken, and every other member     *)
(* begins to wait for it.                                                  *)
LEMMA LockStep ==
    ASSUME RInv, NEW k \in Slots, Lock(k)
    PROVE  \E line \in R!Lines : R!Speak(line)
  <1> USE DEF RInv, IInv
  <1> DEFINE line == [id |-> id[k], text |-> buffer[k]]
  <1>1. /\ pc[k] = "lock" /\ shouting = NoThread
        /\ log' = Append(log, line)
        /\ i' = [i EXCEPT ![k] = 0] /\ pc' = [pc EXCEPT ![k] = "loop"]
        /\ UNCHANGED <<client_id, clients, conn, heard, id>>
    BY DEF Lock, mainVars, netVars
  <1>2. line \in R!Lines
    BY DEF TypeOK, R!Lines
  <1>3. id[k] = k
    BY <1>1 DEF Threads, ThreadOK
  <1>4. \A l \in Slots : ~Shouting(l)
    BY <1>1, GroupAssumption DEF Threads, ThreadOK, Shouting, Slots
  <1>5. RoomWaiting = {}
    BY <1>4 DEF RoomWaiting, Awaits
  <1>6. \A l, j \in Slots : Awaits(l, j)' <=> l = k /\ j # k
    <2>1. \A l \in Slots : Shouting(l)' <=> l = k
      BY <1>1, <1>4 DEF Shouting, TypeOK
    <2>2. \A j \in Slots : 0 <= j
      BY GroupAssumption DEF Slots
    <2>3. i'[k] = 0
      BY <1>1 DEF TypeOK
    <2>4. QED
      BY <1>1, <1>3, <2>1, <2>2, <2>3 DEF Awaits
  <1>7. UNCHANGED <<RoomMembers, RoomLeft>>
    BY <1>1 DEF RoomMembers, RoomLeft
  <1>8. ASSUME NEW c \in RoomMembers PROVE (c \in RoomWaiting') <=> R!Number(c) # k
    <2>1. PICK j \in Slots : /\ j < client_id /\ clients[j].sockfd = c
                             /\ Head(heard[c]).id = j
                             /\ \A l \in Slots : l < client_id /\ clients[l].sockfd = c => l = j
      BY MemberFacts
    <2>2. (c \in RoomWaiting') <=> \E m \in Slots : m # k /\ m < client_id /\ clients[m].sockfd = c
      BY <1>1, <1>6, <1>7 DEF RoomWaiting
    <2>3. QED
      BY <2>1, <2>2 DEF R!Number
  <1>9. RoomWaiting' = {c \in RoomMembers : R!Number(c) # line.id}
    <2>1. RoomWaiting' \subseteq RoomMembers
      BY <1>7 DEF RoomWaiting
    <2>2. QED
      BY <1>3, <1>8, <2>1
  <1> HIDE DEF line
  <1>10. R!Speak(line)
    BY <1>1, <1>5, <1>7, <1>9 DEF R!Speak
  <1>11. QED
    BY <1>2, <1>10

(* The head of the loop of shout passes over the speaker only. *)
LEMMA ShoutNextStep ==
    ASSUME RInv, NEW k \in Slots, ShoutNext(k)
    PROVE  UNCHANGED R!vars
  <1> USE DEF RInv, IInv
  <1>1. UNCHANGED <<heard, log, client_id, clients, conn, id>>
    BY DEF ShoutNext, mainVars, netVars
  <1>2. \A l \in Slots : Shouting(l)' <=> Shouting(l)
    BY DEF ShoutNext, Shouting, TypeOK
  <1>3. ASSUME NEW l \in Slots, NEW j \in Slots PROVE Awaits(l, j)' <=> Awaits(l, j)
    <2>1. i[l] \in Int /\ j \in Int
      BY GroupAssumption DEF TypeOK, Slots
    <2>2. i'[l] = i[l] \/ (i'[l] = i[l] + 1 /\ i[l] = id[l])
      BY DEF ShoutNext, TypeOK
    <2>3. j # id[l] => (i'[l] <= j <=> i[l] <= j)
      BY <2>1, <2>2
    <2>4. QED
      BY <1>1, <1>2, <2>3 DEF Awaits
  <1>4. QED
    BY <1>1, <1>3, QuietStep

(* When the loop is over, nobody is waiting any more. *)
LEMMA ShoutEndStep ==
    ASSUME RInv, NEW k \in Slots, ShoutEnd(k)
    PROVE  UNCHANGED R!vars
  <1> USE DEF RInv, IInv
  <1>1. UNCHANGED <<heard, log, client_id, clients, conn, id, i>>
    BY DEF ShoutEnd, mainVars, netVars
  <1>2. \A l \in Slots : Shouting(l)' <=> Shouting(l) /\ l # k
    BY DEF ShoutEnd, Shouting, TypeOK
  <1>3. ASSUME NEW j \in Slots, j < client_id PROVE ~Awaits(k, j)
    <2>1. i[k] \in Int /\ j \in Int /\ client_id \in Int /\ client_id <= i[k]
      BY GroupAssumption DEF ShoutEnd, TypeOK, Slots
    <2>2. QED
      BY <1>3, <2>1 DEF Awaits
  <1>4. \A l, j \in Slots : j < client_id => (Awaits(l, j)' <=> Awaits(l, j))
    BY <1>1, <1>2, <1>3 DEF Awaits
  <1>5. QED
    BY <1>1, <1>4, QuietStep

(* The line is sent to one entry: its client hears it, unless it has left. *)
LEMMA ShoutSendStep ==
    ASSUME RInv, NEW k \in Slots, ShoutSend(k)
    PROVE  (\E c \in Clients : R!Hear(c)) \/ UNCHANGED R!vars
  <1> USE DEF RInv, IInv
  <1> DEFINE c == clients[i[k]].sockfd
             item == [id |-> id[k], text |-> buffer[k]]
  <1>1. i[k] \in Slots /\ i[k] < client_id /\ i[k] # k /\ c \in Clients /\ SendDid(c, item)
    BY ShoutFacts
  <1>2. /\ pc[k] = "send" /\ SendTo(c, item)
        /\ i' = [i EXCEPT ![k] = @ + 1] /\ pc' = [pc EXCEPT ![k] = "loop"]
        /\ UNCHANGED <<client_id, clients, id, log>>
    BY DEF ShoutSend, mainVars
  <1>3. Shouting(k) /\ id[k] = k /\ \A l \in Slots : Shouting(l) => l = k
    BY <1>2 DEF Shouting, Threads, ThreadOK
  <1>4. \A l \in Slots : Shouting(l)' <=> Shouting(l)
    BY <1>2 DEF Shouting, TypeOK
  <1>5. i'[k] = i[k] + 1 /\ i[k] \in Int
    BY <1>1, <1>2, GroupAssumption DEF TypeOK, Slots
  <1>6. ASSUME NEW l \in Slots, NEW j \in Slots
        PROVE  Awaits(l, j)' <=> Awaits(l, j) /\ j # i[k]
    <2>1. CASE l = k
      <3>1. j \in Int
        BY GroupAssumption DEF Slots
      <3>2. (i'[k] <= j) <=> (i[k] <= j /\ j # i[k])
        BY <1>5, <3>1
      <3>3. QED
        BY <1>2, <1>4, <2>1, <3>2 DEF Awaits
    <2>2. CASE l # k
      BY <1>3, <1>4, <2>2 DEF Awaits
    <2>3. QED
      BY <2>1, <2>2
  <1>7. CASE conn[c] = "open"
    <2>1. heard' = [heard EXCEPT ![c] = Append(@, item)] /\ UNCHANGED conn
      BY <1>2, <1>7 DEF SendTo
    <2>2. item = Last(log)
      BY <1>3 DEF LogTop
    <2>3. UNCHANGED <<RoomMembers, RoomLeft>>
      BY <1>2, <2>1 DEF RoomMembers, RoomLeft
    <2>4. c \in RoomMembers
      BY <1>1, <1>7 DEF RoomMembers
    <2>5. Awaits(k, i[k])
      BY <1>1, <1>3, <1>5 DEF Awaits
    <2>6. c \in RoomWaiting
      BY <1>1, <2>4, <2>5 DEF RoomWaiting
    <2>7. \A j \in Slots : j < client_id /\ clients[j].sockfd = c => j = i[k]
      BY <1>1 DEF Registry, Entered
    <2>8. ASSUME NEW d \in RoomMembers
          PROVE  (d \in RoomWaiting') <=> (d \in RoomWaiting /\ d # c)
      <3>1. \A l, j \in Slots :
                (Awaits(l, j)' /\ j < client_id' /\ clients'[j].sockfd = d)
                    <=> (Awaits(l, j) /\ j < client_id /\ clients[j].sockfd = d /\ d # c)
        BY <1>2, <1>6, <2>7
      <3>2. QED
        BY <2>3, <2>8, <3>1 DEF RoomWaiting
    <2>9. RoomWaiting \subseteq RoomMembers /\ RoomWaiting' \subseteq RoomMembers
      BY <2>3 DEF RoomWaiting
    <2>10. RoomWaiting' = RoomWaiting \ {c}
      BY <2>8, <2>9
    <2> HIDE DEF c, item
    <2>11. R!Hear(c)
      BY <1>2, <2>1, <2>2, <2>3, <2>6, <2>10 DEF R!Hear, Last, R!Last
    <2>12. QED
      BY <1>1, <2>11
  <1>8. CASE conn[c] # "open"
    <2>1. heard' = heard
      BY <1>2, <1>8 DEF SendTo
    <2>2. \A d \in Clients : /\ (conn'[d] = "open") <=> (conn[d] = "open")
                             /\ (conn'[d] = "off") <=> (conn[d] = "off")
      BY <1>1 DEF SendDid
    <2>3. \A l, j \in Slots : conn[clients[j].sockfd] = "open" =>
              (Awaits(l, j)' <=> Awaits(l, j))
      BY <1>6, <1>8
    <2>4. QED
      BY <1>2, <2>1, <2>2, <2>3, QuietStep
  <1>9. QED
    BY <1>7, <1>8

(* A client closes: it leaves. *)
LEMMA CloseStep ==
    ASSUME RInv, NEW c \in Clients, Close(c)
    PROVE  R!Leave(c)
  <1> USE DEF RInv, IInv
  <1>1. /\ conn[c] = "open" /\ conn'[c] \notin {"off", "open"}
        /\ \A d \in Clients : d # c => conn'[d] = conn[d]
        /\ UNCHANGED <<client_id, clients, pc, i, id, log, heard>>
    BY DEF Close, mainVars, threadVars, TypeOK
  <1>2. RoomMembers' = RoomMembers \ {c}
    BY <1>1 DEF RoomMembers
  <1>3. RoomLeft' = RoomLeft \cup {c} /\ c \notin RoomLeft
    BY <1>1 DEF RoomLeft
  <1>4. \A k, j \in Slots : Awaits(k, j)' <=> Awaits(k, j)
    BY <1>1 DEF Awaits, Shouting
  <1>5. RoomWaiting' = RoomWaiting \ {c}
    BY <1>1, <1>2, <1>4 DEF RoomWaiting
  <1>6. QED
    BY <1>1, <1>2, <1>3, <1>5 DEF R!Leave

(* A connection that comes up has no entry yet. *)
LEMMA ConnectStep ==
    ASSUME RInv, NEW c \in Clients, Connect(c)
    PROVE  UNCHANGED R!vars
  <1> USE DEF RInv, IInv
  <1>1. /\ conn[c] = "off" /\ conn'[c] = "open"
        /\ \A d \in Clients : d # c => conn'[d] = conn[d]
        /\ UNCHANGED <<client_id, clients, pc, i, id, log, heard>>
    BY DEF Connect, threadVars, TypeOK
  <1>2. \A j \in Slots : j < client_id => clients[j].sockfd # c
    BY <1>1 DEF Registry, Entered
  <1>3. RoomMembers' = RoomMembers
    BY <1>1, <1>2 DEF RoomMembers
  <1>4. RoomLeft' = RoomLeft
    BY <1>1 DEF RoomLeft
  <1>5. \A k, j \in Slots : Awaits(k, j)' <=> Awaits(k, j)
    BY <1>1 DEF Awaits, Shouting
  <1>6. RoomWaiting' = RoomWaiting
    BY <1>1, <1>3, <1>5 DEF RoomWaiting
  <1>7. QED
    BY <1>1, <1>3, <1>4, <1>6 DEF R!vars

LEMMA StepRoom == RInv /\ [Next]_vars => [R!Next]_(R!vars)
  <1> SUFFICES ASSUME RInv, [Next]_vars PROVE R!Next \/ UNCHANGED R!vars
    OBVIOUS
  <1>1. CASE UNCHANGED vars
    BY <1>1, LocalStep DEF vars, mainVars, threadVars, netVars, Shouting
  <1>2. CASE Main
    <2>1. CASE Accept
      BY <2>1, LocalStep DEF Accept, threadVars, netVars, Shouting
    <2>2. CASE Entry
      <3>1. UNCHANGED <<heard, log, client_id, conn, id, i, pc>> /\ client_id \in Int
        BY <2>2, GroupAssumption DEF Entry, threadVars, RInv, IInv, TypeOK
      <3>2. \A j \in Slots : j < client_id => clients'[j] = clients[j]
        BY <2>2, <3>1 DEF Entry, RInv, IInv, TypeOK
      <3>3. \A k, j \in Slots : Awaits(k, j)' <=> Awaits(k, j)
        BY <3>1 DEF Awaits, Shouting
      <3>4. QED
        BY <3>1, <3>2, <3>3, QuietStep
    <2>3. CASE Greet
      <3>1. newsockfd \in Clients
        BY <2>3, GreetFacts DEF RInv, IInv
      <3>2. QED
        BY <2>3, <3>1, GreetStep DEF R!Next
    <2>4. CASE Spawn
      <3>1. UNCHANGED <<heard, log, client_id, clients, conn, id, i>>
        BY <2>4 DEF Spawn, netVars
      <3>2. mpc = "spawn" /\ client_id \in Slots /\ client_id \in Int
        BY <2>4, GroupAssumption DEF Spawn, RInv, IInv, MainKnows, TypeOK
      <3>3. pc[client_id] = "none"
        BY <3>2 DEF RInv, IInv, Threads, ThreadOK
      <3>4. \A k \in Slots : Shouting(k)' <=> Shouting(k)
        BY <2>4, <3>3 DEF Spawn, Shouting, RInv, IInv, TypeOK
      <3>5. QED
        BY <3>1, <3>4, LocalStep
    <2>5. CASE Count
      <3>1. newsockfd \in Clients
        BY <2>5 DEF Count, RInv, IInv, MainKnows
      <3>2. QED
        BY <2>5, <3>1, CountStep DEF R!Next
    <2>6. QED
      BY <1>2, <2>1, <2>2, <2>3, <2>4, <2>5 DEF Main
  <1>3. ASSUME NEW k \in Slots, HearAll(k) PROVE R!Next \/ UNCHANGED R!vars
    <2>1. CASE Start(k) \/ Recv(k) \/ RecvEof(k) \/ RecvError(k)
      <3>1. UNCHANGED <<heard, log, client_id, clients, conn, i>>
        BY <2>1 DEF Start, Recv, RecvEof, RecvError, mainVars, threadVars, netVars
      <3>2. \A l \in Slots : (Shouting(l)' <=> Shouting(l)) /\ (Shouting(l) => id'[l] = id[l])
        BY <2>1 DEF Start, Recv, RecvEof, RecvError, threadVars, Shouting, RInv, IInv, TypeOK
      <3>3. \A l, j \in Slots : Awaits(l, j)' <=> Awaits(l, j)
        BY <3>1, <3>2 DEF Awaits
      <3>4. QED
        BY <3>1, <3>3, QuietStep
    <2>2. CASE Lock(k)
      BY <2>2, LockStep DEF R!Next
    <2>3. CASE ShoutNext(k) \/ ShoutEnd(k)
      BY <2>3, ShoutNextStep, ShoutEndStep
    <2>4. CASE ShoutSend(k)
      BY <2>4, ShoutSendStep DEF R!Next
    <2>5. QED
      BY <1>3, <2>1, <2>2, <2>3, <2>4 DEF HearAll
  <1>4. ASSUME NEW c \in Clients, Client(c) PROVE R!Next \/ UNCHANGED R!vars
    <2>1. CASE Say(c) \/ Read(c) \/ Hang(c)
      BY <2>1, LocalStep DEF Say, Read, Hang, mainVars, threadVars, Shouting
    <2>2. CASE Connect(c)
      BY <2>2, ConnectStep
    <2>3. CASE Close(c)
      BY <2>3, CloseStep DEF R!Next
    <2>4. QED
      BY <1>4, <2>1, <2>2, <2>3 DEF Client
  <1>5. QED
    BY <1>1, <1>2, <1>3, <1>4 DEF Next

(* The clients of the server meet in a Room: everybody hears every line    *)
(* spoken while it is a member, once, in the order in which hear_all takes *)
(* the mutex, and under the number the speaker was greeted with.           *)
THEOREM GroupImplementsRoom == Spec => ImplementsRoom
  <1>1. Init => R!Init
    BY InitRoom
  <1>2. RInv /\ [Next]_vars => [R!Next]_(R!vars)
    BY StepRoom
  <1>3. QED
    BY <1>1, <1>2, RInductive, PTL DEF Spec, ImplementsRoom, R!Spec

-----------------------------------------------------------------------------
(* One order for all clients.  The places in the log that OneOrder asks    *)
(* for have to be carried from step to step: every client keeps a          *)
(* function at from its lines to the log, and it grows by the end of the   *)
(* log when the client hears a shout.  That no shout of another client was *)
(* skipped in between needs UpToDate, and so the mutex.                    *)

(* Every shout is by a thread of an entry. *)
LogAuthors == \A n \in 1..Len(log) : Entered(log[n].id)

(* Who has heard a shout has been counted. *)
Counted ==
    \A c \in Clients : Lines(c) > 0 =>
        \E j \in Slots : j < client_id /\ clients[j].sockfd = c

Own(c, n) == clients[log[n].id].sockfd = c
Pending(j) == \E k \in Slots : Awaits(k, j)
(* at are the places in the log of the lines that c has heard. *)
Places(c, at) ==
    /\ at \in [1..Lines(c) -> 1..Len(log)]
    /\ \A p \in 1..Lines(c) : heard[c][p + 1] = log[at[p]]
    /\ \A p, q \in 1..Lines(c) : p < q => at[p] < at[q]
    /\ \A p \in 1..Lines(c), q \in 1..Lines(c), n \in 1..Len(log) :
           at[p] <= n /\ n <= at[q] => (~Own(c, n) <=> \E r \in 1..Lines(c) : at[r] = n)

(* The client of entry j has missed nothing after its last line but the    *)
(* shout that is on its way to it.                                         *)
UpToDate(c, at) ==
    \A j \in Slots : j < client_id /\ clients[j].sockfd = c /\ conn[c] = "open" /\ Lines(c) > 0 =>
        /\ \A n \in 1..Len(log) : at[Lines(c)] < n /\ ~Own(c, n) => n = Len(log) /\ Pending(j)
        /\ Pending(j) => at[Lines(c)] < Len(log)
HasPlaces(c) == \E at \in [1..Lines(c) -> 1..Len(log)] : Places(c, at) /\ UpToDate(c, at)
Followed == \A c \in Clients : HasPlaces(c)

OrderInv == RInv /\ LogAuthors /\ Counted /\ Followed

LEMMA InitOrder == Init => OrderInv
  <1> SUFFICES ASSUME Init PROVE OrderInv
    OBVIOUS
  <1>1. log = <<>> /\ Len(log) = 0 /\ \A c \in Clients : heard[c] = <<>> /\ Len(heard[c]) = 0
    BY EmptySeq DEF Init
  <1>2. LogAuthors
    BY <1>1 DEF LogAuthors
  <1>3. Counted
    BY <1>1 DEF Counted, Lines
  <1>4. ASSUME NEW c \in Clients PROVE HasPlaces(c)
    <2>1. Lines(c) = 0 - 1 /\ 1..Lines(c) = {}
      BY <1>1 DEF Lines
    <2> DEFINE at == [p \in 1..Lines(c) |-> p]
    <2>2. at \in [1..Lines(c) -> 1..Len(log)]
      BY <2>1
    <2>3. Places(c, at)
      BY <2>1, <2>2 DEF Places
    <2>4. UpToDate(c, at)
      BY <2>1 DEF UpToDate
    <2>5. QED
      BY <2>2, <2>3, <2>4 DEF HasPlaces
  <1>5. QED
    BY <1>2, <1>3, <1>4, InitRInv DEF OrderInv, Followed

(* Only taking the mutex adds to the log. *)
LEMMA OnlyLocks == [Next]_vars => (\E k \in Slots : Lock(k)) \/ UNCHANGED log
  <1> SUFFICES ASSUME [Next]_vars, ~(\E k \in Slots : Lock(k)) PROVE UNCHANGED log
    OBVIOUS
  <1>1. CASE UNCHANGED vars
    BY <1>1 DEF vars, threadVars
  <1>2. CASE Main
    BY <1>2 DEF Main, Accept, Entry, Greet, Spawn, Count, threadVars
  <1>3. ASSUME NEW k \in Slots, HearAll(k) PROVE UNCHANGED log
    BY <1>3 DEF HearAll, Start, Recv, RecvEof, RecvError, ShoutNext, ShoutSend, ShoutEnd, threadVars
  <1>4. ASSUME NEW c \in Clients, Client(c) PROVE UNCHANGED log
    BY <1>4 DEF Client, Connect, Say, Read, Hang, Close, threadVars
  <1>5. QED
    BY <1>1, <1>2, <1>3, <1>4 DEF Next

(* What taking the mutex does: nobody was shouting, and the log grows by   *)
(* a shout of the thread's own client.                                     *)
LEMMA LockFacts ==
    ASSUME TypeOK, Threads, NEW k \in Slots, Lock(k)
    PROVE  /\ \A l \in Slots : ~Shouting(l)
           /\ UNCHANGED <<client_id, clients, mpc, conn, heard, id>>
           /\ id[k] = k /\ Entered(k)
           /\ Len(log) \in Nat /\ Len(log') = Len(log) + 1
           /\ \A n \in 1..Len(log) : log'[n] = log[n]
           /\ log'[Len(log) + 1].id = k
           /\ Shouting(k)' /\ i'[k] = 0
  <1> DEFINE item == [id |-> id[k], text |-> buffer[k]]
  <1>1. item \in Items /\ log \in Seq(Items) /\ Len(log) \in Nat
    BY LenProperties DEF TypeOK, Items
  <1>2. log' = Append(log, item) /\ pc[k] = "lock" /\ shouting = NoThread
    BY DEF Lock
  <1>3. id[k] = k /\ Entered(k)
    BY <1>2 DEF Threads, ThreadOK, Entered
  <1>4. \A l \in Slots : ~Shouting(l)
    BY <1>2, GroupAssumption DEF Threads, ThreadOK, Shouting, Slots
  <1>5. UNCHANGED <<client_id, clients, mpc, conn, heard, id>>
    BY DEF Lock, mainVars, netVars
  <1>6. Shouting(k)' /\ i'[k] = 0
    BY DEF Lock, Shouting, TypeOK
  <1>7. item.id = k
    BY <1>3
  <1> HIDE DEF item
  <1>8. /\ Len(log') = Len(log) + 1 /\ log'[Len(log) + 1] = item
        /\ \A n \in 1..Len(log) : log'[n] = log[n]
    BY <1>1, <1>2, AppendProperties
  <1>9. QED
    BY <1>1, <1>3, <1>4, <1>5, <1>6, <1>7, <1>8

(* Every shout of the log is by the thread of an entry. *)
LEMMA StepLogAuthors ==
    ASSUME RInv, LogAuthors, [Next]_vars
    PROVE  LogAuthors'
  <1>0. TypeOK /\ Threads /\ EntriesStay /\ log \in Seq(Items)
    BY StepEntriesStay DEF RInv, IInv, TypeOK
  <1>1. ASSUME NEW n \in 1..Len(log)
        PROVE  \E j \in Slots : j = log[n].id /\ Entered(j)
    <2>1. log[n] \in Items
      BY <1>0, ElementOfSeq
    <2>2. log[n].id \in Slots
      BY <2>1 DEF Items
    <2>3. QED
      BY <2>2 DEF LogAuthors
  <1>2. ASSUME NEW n \in 1..Len(log')
        PROVE  \E j \in Slots : j = log'[n].id /\ Entered(j)'
    <2>1. CASE UNCHANGED log
      BY <1>0, <1>1, <2>1 DEF EntriesStay
    <2>2. ASSUME NEW k \in Slots, Lock(k)
          PROVE  \E j \in Slots : j = log'[n].id /\ Entered(j)'
      <3>1. /\ Entered(k) /\ Len(log) \in Nat /\ Len(log') = Len(log) + 1
            /\ \A m \in 1..Len(log) : log'[m] = log[m]
            /\ log'[Len(log) + 1].id = k
        BY <1>0, <2>2, LockFacts
      <3>2. Entered(k)'
        BY <1>0, <3>1 DEF EntriesStay
      <3>3. CASE n \in 1..Len(log)
        <4>1. PICK j \in Slots : j = log[n].id /\ Entered(j)
          BY <1>1, <3>3
        <4>2. Entered(j)' /\ log'[n] = log[n]
          BY <1>0, <3>1, <3>3, <4>1 DEF EntriesStay
        <4>3. QED
          BY <4>1, <4>2
      <3>4. CASE n = Len(log) + 1
        BY <3>1, <3>2, <3>4
      <3>5. QED
        BY <3>1, <3>3, <3>4
    <2>3. QED
      BY <2>1, <2>2, OnlyLocks
  <1>3. QED
    BY <1>2 DEF LogAuthors, Entered

(* Who has heard a shout has been counted. *)
LEMMA StepCounted ==
    ASSUME RInv, Counted, [Next]_vars
    PROVE  Counted'
  <1>0. TypeOK /\ MainKnows /\ Registry /\ Threads /\ Greeting /\ EntriesStay
        /\ client_id \in Int /\ Slots \subseteq Int
    BY StepEntriesStay DEF RInv, IInv, TypeOK, Slots
  <1>1. client_id' \in Int /\ client_id' >= client_id
    BY <1>0, OnlyMain DEF Main, Accept, Entry, Greet, Spawn, Count
  <1>2. ASSUME NEW j \in Slots, j < client_id
        PROVE  j < client_id' /\ clients'[j] = clients[j]
    BY <1>0, <1>1, <1>2 DEF EntriesStay, Entered
  <1> SUFFICES ASSUME NEW c \in Clients, Len(heard'[c]) - 1 > 0
               PROVE  \E j \in Slots : j < client_id' /\ clients'[j].sockfd = c
    BY DEF Counted, Lines
  <1>3. CASE heard'[c] = heard[c]
    BY <1>2, <1>3 DEF Counted, Lines
  <1>4. CASE Greet
    <2>1. newsockfd \in Clients /\ heard[newsockfd] = <<>> /\ Len(heard[newsockfd]) = 0
      BY <1>0, <1>4, GreetedOnce, EmptySeq
    <2>2. SendDid(newsockfd, [id |-> client_id, text |-> Auth])
      BY <1>0, <1>4, GreetFacts
    <2>3. c # newsockfd
      <3>1. heard'[newsockfd] = heard[newsockfd] \/ Len(heard'[newsockfd]) = Len(heard[newsockfd]) + 1
        BY <2>2 DEF SendDid
      <3>2. CASE heard'[newsockfd] = heard[newsockfd]
        <4>1. Len(heard'[newsockfd]) = 0
          BY <2>1, <3>2
        <4>2. QED
          BY <4>1
      <3>3. CASE Len(heard'[newsockfd]) = Len(heard[newsockfd]) + 1
        <4>1. Len(heard'[newsockfd]) - 1 = 0
          BY <2>1, <3>3
        <4>2. SUFFICES ASSUME c = newsockfd PROVE FALSE
          OBVIOUS
        <4>3. Len(heard'[c]) - 1 = 0
          BY <4>1, <4>2
        <4>4. 0 > 0
          BY <4>3
        <4>5. QED
          BY <4>4
      <3>4. QED
        BY <3>1, <3>2, <3>3
    <2>4. heard'[c] = heard[c]
      BY <2>2, <2>3 DEF SendDid
    <2>5. QED
      BY <1>3, <2>4
  <1>5. ASSUME NEW k \in Slots, ShoutSend(k)
        PROVE  \E j \in Slots : j < client_id' /\ clients'[j].sockfd = c
    <2>1. /\ i[k] \in Slots /\ i[k] < client_id
          /\ SendDid(clients[i[k]].sockfd, [id |-> id[k], text |-> buffer[k]])
      BY <1>0, <1>5, ShoutFacts
    <2>2. CASE c = clients[i[k]].sockfd
      BY <1>2, <2>1, <2>2
    <2>3. CASE c # clients[i[k]].sockfd
      BY <1>3, <2>1, <2>3 DEF SendDid
    <2>4. QED
      BY <2>2, <2>3
  <1>6. QED
    BY <1>3, <1>4, <1>5, OnlySends

(* A shout is over only by ShoutEnd. *)
LEMMA StopsShouting ==
    ASSUME TypeOK, Threads, [Next]_vars, NEW k \in Slots, Shouting(k), ~Shouting(k)'
    PROVE  ShoutEnd(k)
  <1> SUFFICES ASSUME ~ShoutEnd(k) PROVE FALSE
    OBVIOUS
  <1>1. CASE UNCHANGED vars
    BY <1>1 DEF vars, threadVars, Shouting
  <1>2. CASE Main
    <2>1. pc' = pc \/ (mpc = "spawn" /\ pc' = [pc EXCEPT ![client_id] = "start"])
      BY <1>2 DEF Main, Accept, Entry, Greet, Spawn, Count, threadVars
    <2>2. mpc = "spawn" => k # client_id
      <3>1. client_id \in Int /\ k \in Int /\ pc[k] # "none"
        BY DEF Shouting, TypeOK, Slots
      <3>2. k < client_id \/ (k = client_id /\ mpc = "count")
        BY <3>1 DEF Threads, ThreadOK
      <3>3. QED
        BY <3>1, <3>2
    <2>3. QED
      BY <2>1, <2>2 DEF Shouting, TypeOK
  <1>3. ASSUME NEW l \in Slots, HearAll(l) PROVE FALSE
    <2>1. CASE l # k
      BY <1>3, <2>1 DEF HearAll, Start, Recv, RecvEof, RecvError, Lock, ShoutNext,
                        ShoutSend, ShoutEnd, threadVars, TypeOK, Shouting
    <2>2. CASE l = k
      BY <1>3, <2>2 DEF HearAll, Start, Recv, RecvEof, RecvError, Lock, ShoutNext,
                        ShoutSend, threadVars, TypeOK, Shouting
    <2>3. QED
      BY <2>1, <2>2
  <1>4. ASSUME NEW c \in Clients, Client(c) PROVE FALSE
    BY <1>4 DEF Client, Connect, Say, Read, Hang, Close, threadVars, Shouting
  <1>5. QED
    BY <1>1, <1>2, <1>3, <1>4 DEF Next

(* The shout on its way to an entry stays so unless it is sent there.      *)
LEMMA StepPending ==
    ASSUME RInv, Threads', [Next]_vars, NEW j \in Slots, j < client_id,
           \A k \in Slots : ~Lock(k) /\ (ShoutSend(k) => i[k] # j)
    PROVE  Pending(j)' <=> Pending(j)
  <1>0. TypeOK /\ Threads /\ client_id \in Int /\ j \in Int
    BY DEF RInv, IInv, TypeOK, Slots
  <1>1. ASSUME NEW k \in Slots, Shouting(k)' PROVE Awaits(k, j)' <=> Awaits(k, j)
    <2>0. i[k] \in Int /\ id'[k] = k
      <3>1. i[k] \in Int
        BY <1>0 DEF TypeOK
      <3>2. ThreadOK(k)'
        BY DEF Threads
      <3>3. id'[k] = k
        BY <1>1, <3>2 DEF ThreadOK, Shouting
      <3>4. QED
        BY <3>1, <3>3
    <2>1. CASE ShoutNext(k) \/ ShoutSend(k)
      <3>1. Shouting(k) /\ id' = id
        BY <2>1 DEF ShoutNext, ShoutSend, Shouting
      <3>2. \/ i'[k] = i[k]
            \/ i'[k] = i[k] + 1 /\ (i[k] = id[k] \/ i[k] # j)
        BY <1>0, <2>1 DEF ShoutNext, ShoutSend, TypeOK
      <3>3. QED
        BY <1>0, <1>1, <2>0, <3>1, <3>2 DEF Awaits
    <2>2. CASE Shouting(k) /\ i'[k] = i[k] /\ id'[k] = id[k]
      BY <1>1, <2>2 DEF Awaits
    <2>3. QED
      BY <1>0, <1>1, <2>1, <2>2, OnlyTheShouter
  <1>2. ASSUME NEW k \in Slots, ~Shouting(k)' PROVE ~Awaits(k, j)' /\ ~Awaits(k, j)
    <2>1. CASE ~Shouting(k)
      BY <1>2, <2>1 DEF Awaits
    <2>2. CASE Shouting(k)
      <3>0. i[k] \in Int
        BY <1>0 DEF TypeOK
      <3>1. ShoutEnd(k)
        BY <1>0, <1>2, <2>2, StopsShouting
      <3>2. i[k] >= client_id
        BY <3>1 DEF ShoutEnd
      <3>3. ~(i[k] <= j)
        BY <1>0, <3>0, <3>2
      <3>4. QED
        BY <1>2, <3>3 DEF Awaits
    <2>3. QED
      BY <2>1, <2>2
  <1>3. QED
    BY <1>1, <1>2 DEF Pending

(* What the invariant says of the state after a step as well. *)
LEMMA StepKnown ==
    ASSUME RInv, [Next]_vars
    PROVE  /\ TypeOK /\ Registry /\ Threads /\ Greeting /\ EntriesStay /\ ConnGrows
           /\ TypeOK' /\ Registry' /\ Threads'
  <1>1. TypeOK /\ MainKnows /\ Registry /\ Newcomers /\ Threads /\ Greeting
    BY DEF RInv, IInv
  <1>2. ConnGrows
    BY <1>1, StepConnGrows
  <1>3. QED
    BY <1>1, <1>2, StepTypeOK, StepThreads, StepRegistry, StepEntriesStay

(* Whose shout a line of the log is does not change. *)
LEMMA StepOwn ==
    ASSUME RInv, LogAuthors, [Next]_vars, NEW c \in Clients,
           NEW n \in 1..Len(log), log'[n] = log[n]
    PROVE  Own(c, n)' <=> Own(c, n)
  <1>1. log[n] \in Items
    <2>1. log \in Seq(Items)
      BY DEF RInv, IInv, TypeOK
    <2>2. QED
      BY <2>1, ElementOfSeq
  <1>2. PICK j \in Slots : j = log[n].id
    BY <1>1 DEF Items
  <1>3. Entered(j)
    BY <1>2 DEF LogAuthors
  <1>4. clients'[j] = clients[j]
    BY <1>3, StepKnown DEF EntriesStay
  <1>5. QED
    BY <1>2, <1>4 DEF Own

(* The entry of a client that has heard a shout is not a new one. *)
LEMMA SameEntry ==
    ASSUME RInv, Counted, [Next]_vars, NEW c \in Clients, Lines(c) > 0,
           NEW j \in Slots, j < client_id', clients'[j].sockfd = c, conn'[c] = "open"
    PROVE  j < client_id /\ clients[j].sockfd = c /\ conn[c] = "open"
  <1>1. PICK l \in Slots : l < client_id /\ clients[l].sockfd = c
    BY DEF Counted
  <1>2. Entered(l)
    BY <1>1 DEF Entered
  <1>3. Entered(l)' /\ clients'[l] = clients[l]
    BY <1>2, StepKnown DEF EntriesStay
  <1>4. Entered(j)'
    BY DEF Entered
  <1>5. l = j
    BY <1>1, <1>3, <1>4, StepKnown DEF Registry
  <1>6. conn[c] # "off"
    BY <1>1, <1>2, StepKnown DEF Registry
  <1>7. conn[c] = "open"
    BY <1>6, StepKnown DEF ConnGrows
  <1>8. QED
    BY <1>1, <1>5, <1>7

(* A step that neither adds to the log nor is heard by a client. *)
LEMMA KeepPlaces ==
    ASSUME RInv, LogAuthors, Counted, [Next]_vars, UNCHANGED log,
           NEW c \in Clients, heard'[c] = heard[c], HasPlaces(c)
    PROVE  HasPlaces(c)'
  <1>1. PICK at \in [1..Lines(c) -> 1..Len(log)] : Places(c, at) /\ UpToDate(c, at)
    BY DEF HasPlaces
  <1>2. Lines(c)' = Lines(c) /\ Len(log') = Len(log)
    BY DEF Lines
  <1>3. \A n \in 1..Len(log) : Own(c, n)' <=> Own(c, n)
    BY StepOwn
  <1>4. Places(c, at)'
    BY <1>1, <1>2, <1>3 DEF Places
  <1>5. ASSUME NEW j \in Slots, j < client_id', clients'[j].sockfd = c, conn'[c] = "open", Lines(c) > 0
        PROVE  /\ \A n \in 1..Len(log) : at[Lines(c)] < n /\ ~Own(c, n)' => n = Len(log) /\ Pending(j)'
               /\ Pending(j)' => at[Lines(c)] < Len(log)
    <2>1. j < client_id /\ clients[j].sockfd = c /\ conn[c] = "open"
      BY <1>5, SameEntry
    <2>2. ASSUME NEW k \in Slots PROVE ~Lock(k)
      <3>1. SUFFICES ASSUME Lock(k) PROVE FALSE
        OBVIOUS
      <3>2. Len(log) \in Nat /\ Len(log') = Len(log) + 1
        BY <3>1, StepKnown, LockFacts
      <3>3. QED
        BY <1>2, <3>2
    <2>3. ASSUME NEW k \in Slots, ShoutSend(k), i[k] = j PROVE FALSE
      <3>1. SendDid(clients[i[k]].sockfd, [id |-> id[k], text |-> buffer[k]])
        BY <2>3, StepKnown, ShoutFacts
      <3>2. Len(heard'[c]) = Len(heard[c]) + 1
        BY <2>1, <2>3, <3>1 DEF SendDid
      <3>3. Len(heard[c]) \in Nat
        BY StepKnown, LenProperties DEF TypeOK
      <3>4. QED
        BY <3>2, <3>3
    <2>4. Pending(j)' <=> Pending(j)
      BY <2>1, <2>2, <2>3, StepKnown, StepPending
    <2>5. QED
      BY <1>1, <1>3, <1>5, <2>1, <2>4 DEF UpToDate
  <1>6. UpToDate(c, at)'
    BY <1>2, <1>5 DEF UpToDate
  <1>7. QED
    BY <1>1, <1>2, <1>4, <1>6 DEF HasPlaces

(* A thread takes the mutex: everybody was up to date. *)
LEMMA LockPlaces ==
    ASSUME RInv, LogAuthors, [Next]_vars, NEW k \in Slots, Lock(k),
           NEW c \in Clients, HasPlaces(c)
    PROVE  HasPlaces(c)'
  <1>1. PICK at \in [1..Lines(c) -> 1..Len(log)] : Places(c, at) /\ UpToDate(c, at)
    BY DEF HasPlaces
  <1>2. PICK N \in Nat : N = Len(log)
    BY StepKnown, LenProperties DEF TypeOK
  <1>3. /\ \A l \in Slots : ~Shouting(l)
        /\ UNCHANGED <<client_id, clients, mpc, conn, heard, id>>
        /\ id[k] = k /\ Len(log') = N + 1
        /\ \A n \in 1..N : log'[n] = log[n]
        /\ log'[N + 1].id = k
        /\ Shouting(k)' /\ i'[k] = 0
    BY <1>2, StepKnown, LockFacts
  <1>4. Lines(c)' = Lines(c)
    BY <1>3 DEF Lines
  <1>5. \A n \in 1..N : Own(c, n)' <=> Own(c, n)
    BY <1>2, <1>3, StepOwn
  <1>6. at \in [1..Lines(c)' -> 1..Len(log')]
    BY <1>1, <1>2, <1>3, <1>4
  <1>7. Places(c, at)'
    <2>1. \A p \in 1..Lines(c) : at[p] \in 1..N
      BY <1>1, <1>2
    <2>2. \A p \in 1..Lines(c) : heard'[c][p + 1] = log'[at[p]]
      BY <1>1, <1>3, <2>1 DEF Places
    <2>3. ASSUME NEW p \in 1..Lines(c), NEW q \in 1..Lines(c), NEW n \in 1..(N + 1),
                 at[p] <= n /\ n <= at[q]
          PROVE  ~Own(c, n)' <=> \E r \in 1..Lines(c) : at[r] = n
      <3>1. n \in 1..N
        BY <2>1, <2>3
      <3>2. QED
        BY <1>1, <1>2, <1>5, <2>3, <3>1 DEF Places
    <2>4. QED
      BY <1>1, <1>3, <1>4, <1>6, <2>2, <2>3 DEF Places
  <1>8. UpToDate(c, at)'
    <2>1. SUFFICES ASSUME NEW j \in Slots, j < client_id, clients[j].sockfd = c, conn[c] = "open",
                          Lines(c) > 0
                   PROVE  /\ \A n \in 1..(N + 1) : at[Lines(c)] < n /\ ~Own(c, n)'
                                                       => n = N + 1 /\ Pending(j)'
                          /\ at[Lines(c)] < N + 1
      BY <1>3, <1>4 DEF UpToDate
    <2>2. at[Lines(c)] \in 1..N
      <3>1. PICK m \in Nat : m = Len(heard[c])
        BY StepKnown, LenProperties DEF TypeOK
      <3>2. Lines(c) \in 1..Lines(c)
        BY <2>1, <3>1 DEF Lines
      <3>3. QED
        BY <1>1, <1>2, <3>2
    <2>3. ~Pending(j)
      BY <1>3 DEF Pending, Awaits
    <2>4. ASSUME NEW n \in 1..(N + 1), at[Lines(c)] < n, ~Own(c, n)'
          PROVE  n = N + 1 /\ Pending(j)'
      <3>1. n \notin 1..N
        BY <1>1, <1>2, <1>5, <2>1, <2>3, <2>4 DEF UpToDate
      <3>2. n = N + 1
        BY <3>1
      <3>3. k # j
        BY <1>3, <2>1, <2>4, <3>2 DEF Own
      <3>4. j >= 0
        BY DEF Slots
      <3>5. Awaits(k, j)'
        BY <1>3, <3>3, <3>4 DEF Awaits
      <3>6. QED
        BY <3>2, <3>5 DEF Pending
    <2>5. QED
      BY <2>2, <2>4
  <1>9. QED
    BY <1>6, <1>7, <1>8 DEF HasPlaces

(* A client hears the shout: the place of its new line is the end of the   *)
(* log, and only its own shouts lie between that and the line before.      *)
LEMMA HearPlaces ==
    ASSUME RInv, LogAuthors, Counted, [Next]_vars, NEW k \in Slots, ShoutSend(k),
           NEW c \in Clients, c = clients[i[k]].sockfd, conn[c] = "open", HasPlaces(c)
    PROVE  HasPlaces(c)'
  <1>1. PICK at \in [1..Lines(c) -> 1..Len(log)] : Places(c, at) /\ UpToDate(c, at)
    BY DEF HasPlaces
  <1>2. PICK j \in Slots : j = i[k]
    BY StepKnown, ShoutFacts
  <1> DEFINE item == [id |-> id[k], text |-> buffer[k]]
  <1>3. /\ j < client_id /\ j # k /\ clients[j].sockfd = c
        /\ SendDid(c, item) /\ UNCHANGED <<client_id, clients, log, id>>
    BY <1>2, StepKnown, ShoutFacts DEF ShoutSend, mainVars
  <1>4. /\ Shouting(k) /\ id[k] = k /\ Entered(k) /\ shouting = k
        /\ i'[k] = j + 1 /\ shouting' = k
    <2>1. pc[k] = "send" /\ i' = [i EXCEPT ![k] = @ + 1] /\ shouting' = shouting
      BY DEF ShoutSend
    <2>2. ThreadOK(k)
      BY StepKnown DEF Threads
    <2>3. id[k] = k /\ shouting = k /\ Entered(k)
      BY <2>1, <2>2 DEF ThreadOK, Entered
    <2>4. i'[k] = i[k] + 1
      BY <2>1, StepKnown DEF TypeOK
    <2>5. QED
      BY <1>2, <2>1, <2>3, <2>4 DEF Shouting
  <1>5. PICK N \in Nat : N = Len(log)
    BY StepKnown, LenProperties DEF TypeOK
  <1>6. N > 0 /\ log[N] = item /\ item.id = k
    <2>1. log # <<>> /\ Last(log) = item
      BY <1>4 DEF RInv, LogTop
    <2>2. N > 0
      BY <1>5, <2>1, StepKnown, EmptySeq, LenProperties DEF TypeOK
    <2>3. QED
      BY <1>4, <1>5, <2>1, <2>2 DEF Last
  <1>7. ~Own(c, N)
    <2>1. Entered(j)
      BY <1>3 DEF Entered
    <2>2. clients[k].sockfd # c
      BY <1>3, <1>4, <2>1, StepKnown DEF Registry
    <2>3. QED
      BY <1>6, <2>2 DEF Own
  <1>8. PICK L \in Nat : Len(heard[c]) = L + 1
    <2>1. heard[c] # <<>>
      BY <1>3, StepKnown DEF Greeting, Greeted
    <2>2. heard[c] \in Seq(Items)
      BY StepKnown DEF TypeOK
    <2>3. PICK m \in Nat : m = Len(heard[c]) /\ m # 0
      BY <2>1, <2>2, EmptySeq, LenProperties
    <2>4. m - 1 \in Nat /\ Len(heard[c]) = (m - 1) + 1
      BY <2>3
    <2>5. QED
      BY <2>4
  <1> HIDE DEF item
  <1>9. Lines(c) = L
    BY <1>8 DEF Lines
  <1>10. /\ Len(heard'[c]) = L + 2
         /\ \A n \in 1..(L + 1) : heard'[c][n] = heard[c][n]
         /\ heard'[c][L + 2] = item
    BY <1>3, <1>8 DEF SendDid
  <1>11. Lines(c)' = L + 1
    BY <1>10 DEF Lines
  <1>12. Pending(j)
    BY <1>2, <1>3, <1>4 DEF Pending, Awaits, Slots
  <1>13. /\ at \in [1..L -> 1..N]
         /\ \A p \in 1..L : heard[c][p + 1] = log[at[p]]
         /\ \A p, q \in 1..L : p < q => at[p] < at[q]
         /\ \A p \in 1..L, q \in 1..L, n \in 1..N :
                at[p] <= n /\ n <= at[q] => (~Own(c, n) <=> \E r \in 1..L : at[r] = n)
    <2>1. Places(c, at) /\ Len(log) = N
      BY <1>1, <1>5
    <2>2. at \in [1..L -> 1..N] /\ \A p \in 1..L : heard[c][p + 1] = log[at[p]]
      BY <1>9, <2>1 DEF Places
    <2>3. \A p, q \in 1..L : p < q => at[p] < at[q]
      BY <1>9, <2>1 DEF Places
    <2>4. \A p \in 1..L, q \in 1..L, n \in 1..N :
              at[p] <= n /\ n <= at[q] => (~Own(c, n) <=> \E r \in 1..L : at[r] = n)
      BY <1>9, <2>1 DEF Places
    <2>5. QED
      BY <2>2, <2>3, <2>4
  <1>14. L > 0 => /\ at[L] < N
                  /\ \A n \in 1..N : at[L] < n /\ ~Own(c, n) => n = N
    BY <1>1, <1>3, <1>5, <1>9, <1>12 DEF UpToDate
  <1>15. \A p \in 1..L : at[p] \in 1..N /\ at[p] <= at[L] /\ at[p] < N
    <2>1. SUFFICES ASSUME NEW p \in 1..L
                   PROVE  at[p] \in 1..N /\ at[p] <= at[L] /\ at[p] < N
      OBVIOUS
    <2>2. L \in 1..L /\ L > 0
      OBVIOUS
    <2>3. at[p] \in 1..N /\ at[L] \in 1..N
      BY <1>13, <2>2
    <2>4. p = L \/ at[p] < at[L]
      BY <1>13, <2>2
    <2>5. at[p] <= at[L]
      BY <2>3, <2>4
    <2>6. QED
      BY <1>14, <2>2, <2>3, <2>5
  <1> DEFINE on == [p \in 1..(L + 1) |-> IF p = L + 1 THEN N ELSE at[p]]
  <1>16. \A p \in 1..L : p \in 1..(L + 1) /\ p # L + 1
    OBVIOUS
  <1>17. /\ on \in [1..(L + 1) -> 1..N] /\ on[L + 1] = N
         /\ \A p \in 1..L : on[p] = at[p]
         /\ \A p \in 1..(L + 1) : p \in 1..L \/ p = L + 1
    <2>1. \A p \in 1..(L + 1) : p \in 1..L \/ p = L + 1
      OBVIOUS
    <2>2. N \in 1..N /\ L + 1 \in 1..(L + 1)
      BY <1>6
    <2>3. on \in [1..(L + 1) -> 1..N]
      BY <1>15, <2>1, <2>2
    <2>4. QED
      BY <1>16, <2>1, <2>2, <2>3
  <1> HIDE DEF on
  <1>18. \A p \in 1..(L + 1) : heard'[c][p + 1] = log[on[p]]
    <2>1. ASSUME NEW p \in 1..L PROVE heard'[c][p + 1] = log[on[p]]
      <3>1. p + 1 \in 1..(L + 1)
        OBVIOUS
      <3>2. QED
        BY <1>10, <1>13, <1>17, <3>1
    <2>2. heard'[c][(L + 1) + 1] = log[on[L + 1]]
      BY <1>6, <1>10, <1>17
    <2>3. QED
      BY <1>17, <2>1, <2>2
  <1>19. ASSUME NEW p \in 1..(L + 1), NEW q \in 1..(L + 1), p < q
         PROVE  on[p] < on[q]
    <2>1. p \in 1..L
      BY <1>19
    <2>2. CASE q \in 1..L
      BY <1>13, <1>17, <1>19, <2>1, <2>2
    <2>3. CASE q = L + 1
      BY <1>15, <1>17, <2>1, <2>3
    <2>4. QED
      BY <1>17, <2>2, <2>3
  <1>20. ASSUME NEW p \in 1..(L + 1), NEW q \in 1..(L + 1), NEW n \in 1..N,
                on[p] <= n, n <= on[q]
         PROVE  ~Own(c, n) <=> \E r \in 1..(L + 1) : on[r] = n
    <2>1. CASE n = N
      <3>1. L + 1 \in 1..(L + 1)
        OBVIOUS
      <3>2. QED
        BY <1>7, <1>17, <2>1, <3>1
    <2>2. CASE n < N
      <3>1. p \in 1..L /\ on[p] = at[p]
        BY <1>17, <1>20, <2>2
      <3>2. (\E r \in 1..(L + 1) : on[r] = n) <=> \E r \in 1..L : at[r] = n
        BY <1>16, <1>17, <2>2
      <3>3. L \in 1..L /\ L > 0 /\ at[L] \in 1..N
        BY <1>15, <3>1
      <3>4. CASE n <= at[L]
        BY <1>13, <1>20, <3>1, <3>2, <3>3, <3>4
      <3>5. CASE n > at[L]
        <4>1. Own(c, n)
          BY <1>14, <2>2, <3>3, <3>5
        <4>2. \A r \in 1..L : at[r] # n
          <5>1. ASSUME NEW r \in 1..L PROVE at[r] # n
            <6>1. at[r] \in 1..N /\ at[r] <= at[L]
              BY <1>15
            <6>2. QED
              BY <3>3, <3>5, <6>1
          <5>2. QED
            BY <5>1
        <4>3. QED
          BY <3>2, <4>1, <4>2
      <3>6. QED
        BY <3>3, <3>4, <3>5
    <2>3. QED
      BY <2>1, <2>2
  <1>21. \A n \in 1..N : Own(c, n)' <=> Own(c, n)
    BY <1>3 DEF Own
  <1>22. Len(log') = N
    BY <1>3, <1>5
  <1>23. Places(c, on)'
    <2>1. \A p \in 1..(L + 1) : heard'[c][p + 1] = log'[on[p]]
      BY <1>3, <1>18
    <2>2. \A p, q \in 1..(L + 1) : p < q => on[p] < on[q]
      BY <1>19
    <2>3. \A p \in 1..(L + 1), q \in 1..(L + 1), n \in 1..N :
              on[p] <= n /\ n <= on[q] => (~Own(c, n)' <=> \E r \in 1..(L + 1) : on[r] = n)
      BY <1>20, <1>21
    <2>4. QED
      BY <1>11, <1>17, <1>22, <2>1, <2>2, <2>3 DEF Places
  <1>24. ASSUME NEW l \in Slots, l < client_id', clients'[l].sockfd = c
         PROVE  ~Pending(l)'
    <2>1. l = j
      BY <1>3, <1>24, StepKnown DEF Registry, Entered
    <2>2. ASSUME NEW m \in Slots, Awaits(m, l)' PROVE FALSE
      <3>1. shouting' = m
        BY <2>2, StepKnown DEF Awaits, Shouting, Threads, ThreadOK
      <3>2. i'[m] = j + 1 /\ i'[m] <= j
        BY <1>4, <2>1, <2>2, <3>1 DEF Awaits
      <3>3. QED
        BY <3>2 DEF Slots
    <2>3. QED
      BY <2>2 DEF Pending
  <1>25. UpToDate(c, on)'
    BY <1>11, <1>17, <1>22, <1>24 DEF UpToDate
  <1>26. QED
    BY <1>11, <1>17, <1>22, <1>23, <1>25 DEF HasPlaces

(* A client that is greeted has heard no shout yet. *)
LEMMA GreetPlaces ==
    ASSUME RInv, Greet, NEW c \in Clients, c = newsockfd
    PROVE  HasPlaces(c)'
  <1>1. heard[c] = <<>>
    BY GreetedOnce DEF RInv, IInv
  <1>2. SendDid(c, [id |-> client_id, text |-> Auth])
    BY GreetFacts DEF RInv, IInv
  <1>3. PICK m \in {0, 1} : m = Len(heard'[c])
    <2>1. Len(heard[c]) = 0
      BY <1>1, EmptySeq
    <2>2. heard'[c] = heard[c] \/ Len(heard'[c]) = Len(heard[c]) + 1
      BY <1>2 DEF SendDid
    <2>3. Len(heard'[c]) \in {0, 1}
      BY <2>1, <2>2
    <2>4. QED
      BY <2>3
  <1>4. Lines(c)' = m - 1
    BY <1>1, <1>3 DEF Lines
  <1>5. 1..(m - 1) = {} /\ ~(m - 1 > 0)
    <2>1. CASE m = 0
      <3>1. m - 1 = 0 - 1
        BY <2>1
      <3>2. QED
        BY <3>1
    <2>2. CASE m = 1
      <3>1. m - 1 = 0
        BY <2>2
      <3>2. QED
        BY <3>1
    <2>3. QED
      BY <1>3, <2>1, <2>2
  <1> DEFINE at == [p \in 1..(m - 1) |-> p]
  <1>6. at \in [1..(m - 1) -> 1..Len(log')]
    BY <1>5
  <1> HIDE DEF at
  <1>7. Places(c, at)'
    BY <1>1, <1>4, <1>5, <1>6 DEF Places
  <1>8. UpToDate(c, at)'
    BY <1>1, <1>4, <1>5 DEF UpToDate
  <1>9. QED
    BY <1>1, <1>4, <1>6, <1>7, <1>8 DEF HasPlaces

LEMMA StepFollowed ==
    ASSUME RInv, LogAuthors, Counted, Followed, [Next]_vars
    PROVE  Followed'
  <1> SUFFICES ASSUME NEW c \in Clients PROVE HasPlaces(c)'
    BY DEF Followed
  <1>1. HasPlaces(c)
    BY DEF Followed
  <1>2. CASE UNCHANGED log /\ heard'[c] = heard[c]
    BY <1>1, <1>2, KeepPlaces
  <1>3. CASE \E k \in Slots : Lock(k)
    BY <1>1, <1>3, LockPlaces
  <1>4. CASE Greet
    <2>1. UNCHANGED log /\ SendDid(newsockfd, [id |-> client_id, text |-> Auth])
      BY <1>4, StepKnown, GreetFacts DEF Greet, threadVars, RInv, IInv
    <2>2. CASE c = newsockfd
      BY <1>4, <2>2, GreetPlaces
    <2>3. CASE c # newsockfd
      BY <1>2, <2>1, <2>3 DEF SendDid
    <2>4. QED
      BY <2>2, <2>3
  <1>5. ASSUME NEW k \in Slots, ShoutSend(k) PROVE HasPlaces(c)'
    <2> DEFINE d == clients[i[k]].sockfd
               item == [id |-> id[k], text |-> buffer[k]]
    <2>1. UNCHANGED log /\ SendDid(d, item)
      BY <1>5, StepKnown, ShoutFacts DEF ShoutSend
    <2>2. CASE c = d /\ conn[c] = "open"
      BY <1>1, <1>5, <2>2, HearPlaces
    <2>3. CASE c # d \/ conn[c] # "open"
      BY <1>2, <2>1, <2>3 DEF SendDid
    <2>4. QED
      BY <2>2, <2>3
  <1>6. QED
    BY <1>2, <1>3, <1>4, <1>5, OnlyLocks, OnlySends

LEMMA OrderInductive == Spec => []OrderInv
  <1>1. Init => OrderInv
    BY InitOrder
  <1>2. OrderInv /\ RInv' /\ [Next]_vars => OrderInv'
    BY StepLogAuthors, StepCounted, StepFollowed DEF OrderInv
  <1>3. QED
    BY <1>1, <1>2, RInductive, PTL DEF Spec

(* All clients hear the shouts in one order, that of the mutex: after its  *)
(* greeting a client has heard, from some shout on and without a gap, the  *)
(* shouts of the others.                                                   *)
THEOREM GroupOneOrder == Spec => []OneOrder
  <1>1. ASSUME OrderInv PROVE OneOrder
    <2>1. SUFFICES ASSUME NEW c \in Clients
                   PROVE  \E at \in [1..Lines(c) -> 1..Len(log)] :
                            /\ \A p \in 1..Lines(c) : heard[c][p + 1] = log[at[p]]
                            /\ \A p, q \in 1..Lines(c) : p < q => at[p] < at[q]
                            /\ \A p \in 1..Lines(c), q \in 1..Lines(c), n \in 1..Len(log) :
                                   at[p] <= n /\ n <= at[q] =>
                                     (clients[log[n].id].sockfd # c
                                        <=> \E r \in 1..Lines(c) : at[r] = n)
      BY DEF OneOrder
    <2>2. PICK at \in [1..Lines(c) -> 1..Len(log)] : Places(c, at)
      BY <1>1 DEF OrderInv, Followed, HasPlaces
    <2>3. /\ \A p \in 1..Lines(c) : heard[c][p + 1] = log[at[p]]
          /\ \A p, q \in 1..Lines(c) : p < q => at[p] < at[q]
      BY <2>2 DEF Places
    <2>4. \A p \in 1..Lines(c), q \in 1..Lines(c), n \in 1..Len(log) :
             at[p] <= n /\ n <= at[q] =>
               (clients[log[n].id].sockfd # c <=> \E r \in 1..Lines(c) : at[r] = n)
      BY <2>2 DEF Places, Own
    <2>5. QED
      BY <2>2, <2>3, <2>4
  <1>2. QED
    BY <1>1, OrderInductive, PTL

==============================================================================

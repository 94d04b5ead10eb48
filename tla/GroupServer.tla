----------------------------- MODULE GroupServer -----------------------------
(***************************************************************************)
(* The server of week0/beej/group_chat.  main accepts connections, enters  *)
(* each into the array clients, greets it ("You are ClientN"), starts a    *)
(* thread hear_all for it and only then counts it in client_id.  Each      *)
(* thread receives frames from its client and shouts them, under the mutex *)
(* shouting, to every other entry below client_id.  Nobody ever leaves the *)
(* array, and recv = 0 is not looked at: a closed connection makes its     *)
(* thread shout its buffer again and again.                                *)
(*                                                                         *)
(* The clients and the kernel are the environment.  A frame that a client  *)
(* sends is received whole.  heard is everything the server ever sent to a *)
(* client; the client has read the first read[c] items of it.              *)
(***************************************************************************)
EXTENDS Integers, Sequences, SequencesExt

CONSTANTS
    Clients,         \* the client processes, one connection each
    NoClient,        \* a sockfd that was never assigned
    NoThread,        \* nobody holds the mutex
    Auth,            \* the text of a greeting
    Stack,           \* the content of a buffer nothing was received into
    MAX_NUM_CLIENT,  \* the length of the array clients
    SockBuf,         \* items a socket buffers before a send to it blocks
    Hangs,           \* the clients that may stop reading while their process lives
    MaxLines,        \* bound: frames the clients send in all
    MaxEchoes        \* bound: times the threads go round on closed connections

ASSUME GroupAssumption ==
    /\ NoClient \notin Clients
    /\ MAX_NUM_CLIENT \in Nat \ {0}
    /\ NoThread \notin 0..(MAX_NUM_CLIENT - 1)
    /\ SockBuf \in Nat \ {0} /\ MaxLines \in Nat /\ MaxEchoes \in Nat
    /\ Hangs \subseteq Clients
    /\ Stack \notin Clients \X (1..MaxLines)
    /\ Auth \notin (Clients \X (1..MaxLines)) \cup {Stack}

Slots == 0..(MAX_NUM_CLIENT - 1)
Frames == Clients \X (1..MaxLines)             \* a client and its line
Items == [id : Slots, text : Frames \cup {Stack, Auth}]

VARIABLES
    server,    \* "up", or how the process ended
    client_id, clients, shouting,      \* the globals of server.c
    mpc, newsockfd,                    \* main
    pc, sockfd, id, buffer, i,         \* per slot: its hear_all and shout
    echoes,                            \* rounds made on closed connections
    backlog,                           \* connections main has not accepted yet
    conn,                              \* per client: its connection
    inbox,                             \* per client: frames under way to the server
    sent,                              \* frames sent so far
    heard, read,                       \* per client: items sent to it, and how many it read
    hung,                              \* the clients whose two threads are over
    log                                \* the shouts, in the order the mutex was taken (history)

mainVars == <<client_id, clients, mpc, newsockfd, backlog>>
threadVars == <<pc, sockfd, id, buffer, i, echoes, shouting, log>>
netVars == <<server, conn, inbox, sent, heard, read, hung>>
vars == <<mainVars, threadVars, netVars>>

TypeOK ==
    /\ server \in {"up", "exited", "sigpipe", "corrupt"}
    /\ client_id \in 0..MAX_NUM_CLIENT
    /\ clients \in [Slots -> [id : Slots, sockfd : Clients \cup {NoClient}]]
    /\ shouting \in Slots \cup {NoThread}
    /\ mpc \in {"accept", "entry", "greet", "spawn", "count"}
    /\ newsockfd \in Clients \cup {NoClient}
    /\ pc \in [Slots -> {"none", "start", "recv", "lock", "loop", "send"}]
    /\ sockfd \in [Slots -> Clients \cup {NoClient}]
    /\ id \in [Slots -> Slots]
    /\ buffer \in [Slots -> Frames \cup {Stack}]
    /\ i \in [Slots -> 0..MAX_NUM_CLIENT]
    /\ echoes \in 0..MaxEchoes
    /\ backlog \in Seq(Clients)
    /\ conn \in [Clients -> {"off", "open", "fin", "rst", "dead"}]
    /\ inbox \in [Clients -> Seq(Frames)]
    /\ sent \in 0..MaxLines
    /\ heard \in [Clients -> Seq(Items)]
    /\ read \in [Clients -> Nat]
    /\ hung \subseteq Clients
    /\ log \in Seq(Items)

(* main is about to accept; the globals are zero as C leaves them. *)
Init ==
    /\ server = "up"
    /\ client_id = 0
    /\ clients = [k \in Slots |-> [id |-> 0, sockfd |-> NoClient]]
    /\ shouting = NoThread
    /\ mpc = "accept"
    /\ newsockfd = NoClient
    /\ pc = [k \in Slots |-> "none"]
    /\ sockfd = [k \in Slots |-> NoClient]
    /\ id = [k \in Slots |-> 0]
    /\ buffer = [k \in Slots |-> Stack]
    /\ i = [k \in Slots |-> 0]
    /\ echoes = 0
    /\ backlog = <<>>
    /\ conn = [c \in Clients |-> "off"]
    /\ inbox = [c \in Clients |-> <<>>]
    /\ sent = 0
    /\ heard = [c \in Clients |-> <<>>]
    /\ read = [c \in Clients |-> 0]
    /\ hung = {}
    /\ log = <<>>

-----------------------------------------------------------------------------
(* The connection of a client is "open" while its process lives.  A client *)
(* that closes after reading everything leaves "fin"; one that closes with *)
(* data unread resets the connection, "rst".  "dead" is a connection whose *)
(* reset has been noticed: the next send to it raises SIGPIPE.             *)

(* send(c, item): blocks while the socket buffer of an open connection is  *)
(* full; the result is ignored by every caller.                            *)
SendTo(c, item) ==
    /\ \/ /\ conn[c] = "open" /\ Len(heard[c]) - read[c] < SockBuf
          /\ heard' = [heard EXCEPT ![c] = Append(@, item)]
          /\ UNCHANGED <<server, conn>>
       \/ /\ conn[c] = "fin"
          /\ conn' \in {conn, [conn EXCEPT ![c] = "dead"]}
          /\ UNCHANGED <<server, heard>>
       \/ /\ conn[c] = "rst"
          /\ conn' = [conn EXCEPT ![c] = "dead"]
          /\ UNCHANGED <<server, heard>>
       \/ /\ conn[c] = "dead"
          /\ server' = "sigpipe"
          /\ UNCHANGED <<conn, heard>>
    /\ UNCHANGED <<inbox, sent, read, hung>>

-----------------------------------------------------------------------------
(* main *)

Accept ==
    /\ server = "up" /\ mpc = "accept"
    /\ backlog # <<>>
    /\ newsockfd' = Head(backlog)
    /\ backlog' = Tail(backlog)
    /\ mpc' = "entry"
    /\ UNCHANGED <<client_id, clients, threadVars, netVars>>

(* VARIANT: the id of an entry, line 135, is never set. *)
EntryWithoutId ==
    /\ server = "up" /\ mpc = "entry"
    /\ clients' = [clients EXCEPT ![client_id].sockfd = newsockfd]
    /\ mpc' = "greet"
    /\ UNCHANGED <<client_id, newsockfd, backlog, threadVars, netVars>>

(* Nothing compares client_id with MAX_NUM_CLIENT: past the end of the     *)
(* array the write hits whatever lies there, and the model stops.          *)
Entry ==
    /\ server = "up" /\ mpc = "entry"
    /\ IF client_id \in Slots
       THEN /\ clients' = [clients EXCEPT
                              ![client_id] = [id |-> client_id, sockfd |-> newsockfd]]
            /\ UNCHANGED server
       ELSE /\ server' = "corrupt"
            /\ UNCHANGED clients
    /\ mpc' = "greet"
    /\ UNCHANGED <<client_id, newsockfd, backlog, threadVars, conn, inbox, sent, heard, read, hung>>

(* VARIANT: every greeting goes to the first client. *)
GreetFirstClient ==
    /\ server = "up" /\ mpc = "greet"
    /\ SendTo(clients[0].sockfd, [id |-> client_id, text |-> Auth])
    /\ mpc' = "spawn"
    /\ UNCHANGED <<client_id, clients, newsockfd, backlog, threadVars>>

Greet ==
    /\ server = "up" /\ mpc = "greet"
    /\ SendTo(newsockfd, [id |-> client_id, text |-> Auth])
    /\ mpc' = "spawn"
    /\ UNCHANGED <<client_id, clients, newsockfd, backlog, threadVars>>

Spawn ==
    /\ server = "up" /\ mpc = "spawn"
    /\ pc' = [pc EXCEPT ![client_id] = "start"]
    /\ mpc' = "count"
    /\ UNCHANGED <<client_id, clients, newsockfd, backlog,
                   sockfd, id, buffer, i, echoes, shouting, log, netVars>>

Count ==
    /\ server = "up" /\ mpc = "count"
    /\ client_id' = client_id + 1
    /\ mpc' = "accept"
    /\ UNCHANGED <<clients, newsockfd, backlog, threadVars, netVars>>

-----------------------------------------------------------------------------
(* hear_all for the client of slot k *)

(* VARIANT: the two fields of the entry are mixed up. *)
StartSwapped(k) ==
    /\ server = "up" /\ pc[k] = "start"
    /\ sockfd' = [sockfd EXCEPT ![k] = clients[k].id]
    /\ id' = [id EXCEPT ![k] = clients[k].sockfd]
    /\ pc' = [pc EXCEPT ![k] = "recv"]
    /\ UNCHANGED <<mainVars, buffer, i, echoes, shouting, log, netVars>>

Start(k) ==
    /\ server = "up" /\ pc[k] = "start"
    /\ sockfd' = [sockfd EXCEPT ![k] = clients[k].sockfd]
    /\ id' = [id EXCEPT ![k] = clients[k].id]
    /\ pc' = [pc EXCEPT ![k] = "recv"]
    /\ UNCHANGED <<mainVars, buffer, i, echoes, shouting, log, netVars>>

Recv(k) ==
    /\ server = "up" /\ pc[k] = "recv"
    /\ inbox[sockfd[k]] # <<>>
    /\ buffer' = [buffer EXCEPT ![k] = Head(inbox[sockfd[k]])]
    /\ inbox' = [inbox EXCEPT ![sockfd[k]] = Tail(@)]
    /\ pc' = [pc EXCEPT ![k] = "lock"]
    /\ UNCHANGED <<mainVars, sockfd, id, i, echoes, shouting, log,
                   server, conn, sent, heard, read, hung>>

(* recv = 0, at the end of the stream: the buffer keeps the last frame. *)
RecvEof(k) ==
    /\ server = "up" /\ pc[k] = "recv"
    /\ inbox[sockfd[k]] = <<>> /\ conn[sockfd[k]] \in {"fin", "dead"}
    /\ echoes < MaxEchoes
    /\ echoes' = echoes + 1
    /\ pc' = [pc EXCEPT ![k] = "lock"]
    /\ UNCHANGED <<mainVars, sockfd, id, buffer, i, shouting, log, netVars>>

(* recv = -1: the whole server exits. *)
RecvError(k) ==
    /\ server = "up" /\ pc[k] = "recv"
    /\ inbox[sockfd[k]] = <<>> /\ conn[sockfd[k]] = "rst"
    /\ server' = "exited"
    /\ UNCHANGED <<mainVars, threadVars, conn, inbox, sent, heard, read, hung>>

(* VARIANTS: the mutex is not taken; the loop of shout begins at 1. *)
LockWithoutMutex(k) ==
    /\ server = "up" /\ pc[k] = "lock"
    /\ log' = Append(log, [id |-> id[k], text |-> buffer[k]])
    /\ i' = [i EXCEPT ![k] = 0]
    /\ pc' = [pc EXCEPT ![k] = "loop"]
    /\ UNCHANGED <<mainVars, sockfd, id, buffer, echoes, shouting, netVars>>
LockFromOne(k) ==
    /\ server = "up" /\ pc[k] = "lock"
    /\ shouting = NoThread
    /\ shouting' = k
    /\ log' = Append(log, [id |-> id[k], text |-> buffer[k]])
    /\ i' = [i EXCEPT ![k] = 1]
    /\ pc' = [pc EXCEPT ![k] = "loop"]
    /\ UNCHANGED <<mainVars, sockfd, id, buffer, echoes, netVars>>

Lock(k) ==
    /\ server = "up" /\ pc[k] = "lock"
    /\ shouting = NoThread
    /\ shouting' = k
    /\ log' = Append(log, [id |-> id[k], text |-> buffer[k]])
    /\ i' = [i EXCEPT ![k] = 0]
    /\ pc' = [pc EXCEPT ![k] = "loop"]
    /\ UNCHANGED <<mainVars, sockfd, id, buffer, echoes, netVars>>

(* VARIANTS: a client counts from the moment it has an entry, greeted or   *)
(* not; the loop does not get past the speaker itself.                     *)
ShoutNextUngreeted(k) ==
    /\ server = "up" /\ pc[k] = "loop"
    /\ i[k] < client_id + (IF mpc = "greet" THEN 1 ELSE 0)
    /\ IF i[k] = id[k]
       THEN /\ i' = [i EXCEPT ![k] = @ + 1]
            /\ UNCHANGED pc
       ELSE /\ pc' = [pc EXCEPT ![k] = "send"]
            /\ UNCHANGED i
    /\ UNCHANGED <<mainVars, sockfd, id, buffer, echoes, shouting, log, netVars>>
ShoutNextStuck(k) ==
    /\ server = "up" /\ pc[k] = "loop"
    /\ i[k] < client_id /\ i[k] # id[k]
    /\ pc' = [pc EXCEPT ![k] = "send"]
    /\ UNCHANGED <<mainVars, sockfd, id, buffer, i, echoes, shouting, log, netVars>>

(* The head of the loop of shout: client_id is read anew each time, while  *)
(* main may be counting another client.                                    *)
ShoutNext(k) ==
    /\ server = "up" /\ pc[k] = "loop"
    /\ i[k] < client_id
    /\ IF i[k] = id[k]
       THEN /\ i' = [i EXCEPT ![k] = @ + 1]
            /\ UNCHANGED pc
       ELSE /\ pc' = [pc EXCEPT ![k] = "send"]
            /\ UNCHANGED i
    /\ UNCHANGED <<mainVars, sockfd, id, buffer, echoes, shouting, log, netVars>>

ShoutSend(k) ==
    /\ server = "up" /\ pc[k] = "send"
    /\ SendTo(clients[i[k]].sockfd, [id |-> id[k], text |-> buffer[k]])
    /\ i' = [i EXCEPT ![k] = @ + 1]
    /\ pc' = [pc EXCEPT ![k] = "loop"]
    /\ UNCHANGED <<mainVars, sockfd, id, buffer, echoes, shouting, log>>

(* The loop is over and the mutex is given back: nothing happens between.  *)
ShoutEnd(k) ==
    /\ server = "up" /\ pc[k] = "loop"
    /\ i[k] >= client_id
    /\ shouting' = NoThread
    /\ pc' = [pc EXCEPT ![k] = "recv"]
    /\ UNCHANGED <<mainVars, sockfd, id, buffer, i, echoes, log, netVars>>

-----------------------------------------------------------------------------
(* The clients *)

Connect(c) ==
    /\ server = "up" /\ conn[c] = "off"
    /\ conn' = [conn EXCEPT ![c] = "open"]
    /\ backlog' = Append(backlog, c)
    /\ UNCHANGED <<client_id, clients, mpc, newsockfd, threadVars,
                   server, inbox, sent, heard, read, hung>>

Say(c) ==
    /\ server = "up" /\ conn[c] = "open" /\ c \notin hung /\ sent < MaxLines
    /\ sent' = sent + 1
    /\ inbox' = [inbox EXCEPT ![c] = Append(@, <<c, sent'>>)]
    /\ UNCHANGED <<mainVars, threadVars, server, conn, heard, read, hung>>

(* The hear thread of the client takes all that has arrived. *)
Read(c) ==
    /\ server = "up" /\ conn[c] = "open" /\ c \notin hung /\ read[c] < Len(heard[c])
    /\ read' = [read EXCEPT ![c] = Len(heard[c])]
    /\ UNCHANGED <<mainVars, threadVars, server, conn, inbox, sent, heard, hung>>

(* Both threads of a client are over within one of its polls, which takes  *)
(* an "#END" of its user and something heard: its main thread polls for    *)
(* ever, with the socket open and nobody reading it.  The model asks only  *)
(* that it has heard something.                                            *)
Hang(c) ==
    /\ server = "up" /\ conn[c] = "open" /\ c \in Hangs \ hung /\ read[c] > 0
    /\ hung' = hung \cup {c}
    /\ UNCHANGED <<mainVars, threadVars, server, conn, inbox, sent, heard, read>>

(* The process of the client ends, by itself or interrupted. *)
Close(c) ==
    /\ server = "up" /\ conn[c] = "open"
    /\ conn' = [conn EXCEPT ![c] = IF read[c] = Len(heard[c]) THEN "fin" ELSE "rst"]
    /\ UNCHANGED <<mainVars, threadVars, server, inbox, sent, heard, read, hung>>

-----------------------------------------------------------------------------
Main == Accept \/ Entry \/ Greet \/ Spawn \/ Count

HearAll(k) == \/ Start(k) \/ Recv(k) \/ RecvEof(k) \/ RecvError(k) \/ Lock(k)
              \/ ShoutNext(k) \/ ShoutSend(k) \/ ShoutEnd(k)

Client(c) == Connect(c) \/ Say(c) \/ Read(c) \/ Hang(c) \/ Close(c)

Next == \/ Main
        \/ \E k \in Slots : HearAll(k)
        \/ \E c \in Clients : Client(c)

(* Every thread that can run runs, and so does the hear thread of a client *)
(* that has one; nobody owes a connection, a line or a close.  The mutex   *)
(* is not assumed to be fair between the threads that wait for it.         *)
Fairness == /\ WF_vars(Main)
            /\ \A k \in Slots : WF_vars(HearAll(k))
            /\ \A c \in Clients : WF_vars(Read(c))

Spec == Init /\ [][Next]_vars
FairSpec == Spec /\ Fairness

-----------------------------------------------------------------------------
(* Safety *)

Shouting(k) == pc[k] \in {"loop", "send"}

(* The first thing a client hears is its own greeting, and it hears it     *)
(* once: main counts a client only after greeting it, so no shout that     *)
(* races with the accept can get in first.                                 *)
GreetedFirst ==
    \A c \in Clients : \A n \in 1..Len(heard[c]) :
        (heard[c][n].text = Auth) <=> (n = 1)

(* "CLIENTn: line" names the client that typed the line, and nobody hears  *)
(* a line of his own.                                                      *)
RightName ==
    \A c \in Clients : \A n \in 1..Len(heard[c]) :
        heard[c][n].text \in Frames =>
            /\ heard[c][n].text[1] # c
            /\ clients[heard[c][n].id].sockfd = heard[c][n].text[1]

(* As long as a shout lasts, its line is the last thing that every client  *)
(* it has passed has been sent, unless that client is gone or the speaker: *)
(* the mutex keeps the shouts of other threads out.                        *)
EveryoneHeard ==
    \A k \in Slots : Shouting(k) =>
        \A j \in 0..(i[k] - 1) :
            LET c == clients[j].sockfd IN
            conn[c] = "open" /\ j # id[k] =>
                Last(heard[c]) = [id |-> id[k], text |-> buffer[k]]

(* All clients hear the shouts in one order, that of the mutex: after its  *)
(* greeting a client has heard, from some shout on and without a gap, the  *)
(* shouts of the others.  at says which shout of the log each line was.    *)
Lines(c) == Len(heard[c]) - 1
OneOrder ==
    \A c \in Clients : \E at \in [1..Lines(c) -> 1..Len(log)] :
        /\ \A p \in 1..Lines(c) : heard[c][p + 1] = log[at[p]]
        /\ \A p, q \in 1..Lines(c) : p < q => at[p] < at[q]
        /\ \A p \in 1..Lines(c), q \in 1..Lines(c), n \in 1..Len(log) :
               at[p] <= n /\ n <= at[q] =>
                   (clients[log[n].id].sockfd # c <=> \E r \in 1..Lines(c) : at[r] = n)

(* The array holds MAX_NUM_CLIENT clients (line 16): no entry is ever      *)
(* written past its end.                                                   *)
InBounds == server # "corrupt"

-----------------------------------------------------------------------------
(* Liveness *)

(* send, at line 40, waits for a client that reads no more.                *)
StuckAtHung(k) ==
    /\ pc[k] = "send"
    /\ LET c == clients[i[k]].sockfd IN
          c \in hung /\ conn[c] = "open" /\ Len(heard[c]) - read[c] >= SockBuf

(* A shout that has begun ends and gives the mutex back, unless the whole  *)
(* server is gone, or it has come to a client whose process lives on       *)
(* without its threads: nothing else stops a shout, neither a slow client, *)
(* one that leaves in its middle, nor the shouts that wait.                *)
ShoutEnds ==
    \A k \in Slots : (pc[k] = "loop") ~> (pc[k] = "recv" \/ server # "up" \/ StuckAtHung(k))

(* A client that connects is greeted, unless it leaves or the server dies. *)
ConnectedIsGreeted ==
    \A c \in Clients :
        (conn[c] = "open") ~> (heard[c] # <<>> \/ conn[c] # "open" \/ server # "up")
==============================================================================

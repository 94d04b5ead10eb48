---------------------------- MODULE DatagramLabs ----------------------------
(***************************************************************************)
(* The Java exercises over UDP, and p1 and p3 in Python: one server, which *)
(* takes the datagrams of all clients from one socket, and clients that    *)
(* wait for an answer or do not.  Nothing is sent twice.  As in StreamLabs *)
(* a program is a table of its calls.  A datagram is lost when nobody has  *)
(* the port, when the socket of the receiver is full, and with a process   *)
(* that ends before it has read it.                                        *)
(***************************************************************************)
EXTENDS Integers, Sequences

CONSTANTS
    Clients,
    Server,  \* the process of the server
    Labs,    \* the exercises to run, among the names of Lab
    Buf      \* datagrams that a socket holds

Procs == Clients \cup {Server}

(* code: the calls; loop: where it goes on after the last one. *)
Program(code, loop) == [code |-> code, loop |-> loop]

(* p3: four rounds of the loop. *)
Rounds(s) == [n \in 1..(4 * Len(s)) |-> s[((n - 1) % Len(s)) + 1]]

(* Q1 and Q2: a hello, an answer; the server goes on.                      *)
AnswerServer == Program(<<"from", "say">>, 1)
AskClient == Program(<<"hello", "recv", "exit">>, 1)
(* p1: the same, once.                                                     *)
GreetServer == Program(<<"from", "say", "exit">>, 1)
GreetClient == Program(<<"hello", "recv", "exit">>, 1)
(* p3: the first datagram names the client, the others may be anybody's.   *)
StepsServer == Program(<<"from">> \o Rounds(<<"say", "recv">>) \o <<"exit">>, 1)
StepsClient == Program(<<"hello">> \o Rounds(<<"recv", "hello">>) \o <<"exit">>, 1)
(* Q3: a line, an answer, until logout.                                    *)
ReplyServer == Program(<<"from", "type", "say", "test">>, 1)
ReplyClient == Program(<<"type", "send", "recv", "test">>, 1)
(* Q4: lines with the name in front, until logout.                         *)
ChatServer == Program(<<"from", "test">>, 1)
ChatClient == Program(<<"type", "send", "test">>, 1)
(* Program1: lines until bye.                                              *)
ByeServer == Program(<<"from", "test">>, 1)
ByeClient == Program(<<"type", "send", "test">>, 1)

Exercise(server, client) == [server |-> server, client |-> client]
Lab == [
    answer |-> Exercise(AnswerServer, AskClient),
    greet  |-> Exercise(GreetServer, GreetClient),
    steps  |-> Exercise(StepsServer, StepsClient),
    reply  |-> Exercise(ReplyServer, ReplyClient),
    chat   |-> Exercise(ChatServer, ChatClient),
    bye    |-> Exercise(ByeServer, ByeClient)]

ASSUME DatagramLabsAssumption ==
    /\ Server \notin Clients
    /\ Labs \subseteq DOMAIN Lab
    /\ Buf \in Nat \ {0}

VARIABLES
    lab,    \* the exercise that runs
    state,  \* per process: idle, run, or how it ended
    pc,     \* per process: the call it is at
    line,   \* per process: the line it typed last
    got,    \* per process: the text it received last
    inbox,  \* per process: the datagrams its socket holds
    addr,   \* the client whose address the server keeps; Server for none
    lost    \* the clients of which a datagram, or one to them, was lost (history)

vars == <<lab, state, pc, line, got, inbox, addr, lost>>

(* The closing word, another text, one with a name in front, and one with  *)
(* the rest of a receive array behind it.                                  *)
Texts == {"word", "text", "named", "padded"}
Datagrams == [from : Procs, text : Texts]

TypeOK ==
    /\ lab \in Labs
    /\ state \in [Procs -> {"idle", "run", "left", "dead"}]
    /\ pc \in [Procs -> 1..10]
    /\ line \in [Procs -> Texts \cup {""}] /\ got \in [Procs -> Texts \cup {""}]
    /\ inbox \in [Procs -> Seq(Datagrams)]
    /\ \A p \in Procs : Len(inbox[p]) <= Buf
    /\ addr \in Procs
    /\ lost \subseteq Clients

Init ==
    /\ lab \in Labs
    /\ state = [p \in Procs |-> "idle"]
    /\ pc = [p \in Procs |-> 1]
    /\ line = [p \in Procs |-> ""] /\ got = [p \in Procs |-> ""]
    /\ inbox = [p \in Procs |-> <<>>]
    /\ addr = Server
    /\ lost = {}

Prog(p) == IF p = Server THEN Lab[lab].server ELSE Lab[lab].client
Runs(p) == state[p] = "run"
At(p, call) == Runs(p) /\ Prog(p).code[pc[p]] = call
Advance(p) ==
    pc' = [pc EXCEPT ![p] = IF @ = Len(Prog(p).code) THEN Prog(p).loop ELSE @ + 1]

(* Q4 puts the name in front of what is typed. *)
TypedAs(l) == IF lab = "chat" THEN "named" ELSE l

(* VARIANT: data() takes the whole array as well. *)
ReceivedWhole(text) == "padded"
(* The string of the whole array of 1024 bytes keeps the zeros behind the  *)
(* datagram.  data() of Program1 stops at the first zero.                  *)
Received(text) == IF lab = "bye" THEN text ELSE "padded"

-----------------------------------------------------------------------------
(* The socket is bound as a process starts. *)
Start(p) ==
    /\ state[p] = "idle"
    /\ state' = [state EXCEPT ![p] = "run"]
    /\ UNCHANGED <<lab, pc, line, got, inbox, addr, lost>>

Parties(p) == IF p = Server THEN {inbox[p][n].from : n \in DOMAIN inbox[p]}
              ELSE IF inbox[p] # <<>> THEN {p} ELSE {}

End(p, how) ==
    /\ state' = [state EXCEPT ![p] = how]
    /\ inbox' = [inbox EXCEPT ![p] = <<>>]
    /\ lost' = lost \cup Parties(p)
    /\ UNCHANGED pc

(* VARIANT: the null of the end of the terminal is used like a line. *)
TypeNull(p) ==
    /\ At(p, "type")
    /\ \E l \in {"word", "text", "null"} : line' = [line EXCEPT ![p] = TypedAs(l)]
    /\ Advance(p)
    /\ UNCHANGED <<lab, state, got, inbox, addr, lost>>

(* readLine of the terminal.  At its end the line is null: Q4 sends "name: *)
(* null" for ever, the others die.                                         *)
Type(p) ==
    /\ At(p, "type")
    /\ \/ /\ \E l \in {"word", "text"} : line' = [line EXCEPT ![p] = TypedAs(l)]
          /\ Advance(p)
          /\ UNCHANGED <<state, inbox, lost>>
       \/ /\ lab # "chat"
          /\ End(p, "dead")
          /\ UNCHANGED line
    /\ UNCHANGED <<lab, got, addr>>

SendTo(p, q, text) ==
    IF Runs(q) /\ Len(inbox[q]) < Buf
    THEN /\ inbox' = [inbox EXCEPT ![q] = Append(@, [from |-> p, text |-> text])]
         /\ UNCHANGED lost
    ELSE /\ lost' = lost \cup ({p, q} \cap Clients)
         /\ UNCHANGED inbox

(* The client sends a text of its own, or what was typed.                  *)
Hello(c) ==
    /\ At(c, "hello") /\ SendTo(c, Server, "text")
    /\ Advance(c)
    /\ UNCHANGED <<lab, state, line, got, addr>>

Send(c) ==
    /\ At(c, "send") /\ SendTo(c, Server, line[c])
    /\ Advance(c)
    /\ UNCHANGED <<lab, state, line, got, addr>>

(* The server sends to the address it keeps. *)
Say ==
    /\ At(Server, "say")
    /\ SendTo(Server, addr, IF lab = "reply" THEN line[Server] ELSE "text")
    /\ Advance(Server)
    /\ UNCHANGED <<lab, state, line, got, addr>>

(* VARIANT: the answer goes to the first client there was. *)
RecvKeepsFirst(p) ==
    /\ At(p, "recv") \/ At(p, "from")
    /\ inbox[p] # <<>>
    /\ got' = [got EXCEPT ![p] = Received(Head(inbox[p]).text)]
    /\ addr' = IF At(p, "from") /\ addr = Server THEN Head(inbox[p]).from ELSE addr
    /\ inbox' = [inbox EXCEPT ![p] = Tail(@)]
    /\ Advance(p)
    /\ UNCHANGED <<lab, state, line, lost>>

(* "from" also keeps the sender's address.                                 *)
Recv(p) ==
    /\ At(p, "recv") \/ At(p, "from")
    /\ inbox[p] # <<>>
    /\ got' = [got EXCEPT ![p] = Received(Head(inbox[p]).text)]
    /\ addr' = IF At(p, "from") THEN Head(inbox[p]).from ELSE addr
    /\ inbox' = [inbox EXCEPT ![p] = Tail(@)]
    /\ Advance(p)
    /\ UNCHANGED <<lab, state, line, lost>>

(* The loops look for the word in what they typed and in what they got.    *)
Test(p) ==
    /\ At(p, "test")
    /\ IF "word" \in {line[p], got[p]} THEN End(p, "left")
       ELSE Advance(p) /\ UNCHANGED <<state, inbox, lost>>
    /\ UNCHANGED <<lab, line, got, addr>>

Exit(p) ==
    /\ At(p, "exit")
    /\ End(p, "left")
    /\ UNCHANGED <<lab, line, got, addr>>

Kill(p) ==
    /\ Runs(p)
    /\ End(p, "dead")
    /\ UNCHANGED <<lab, line, got, addr>>

Work(p) == Hello(p) \/ Send(p) \/ Recv(p) \/ Test(p) \/ Exit(p)

Next ==
    \/ Say
    \/ \E p \in Procs : Start(p) \/ Type(p) \/ Work(p) \/ Kill(p)

(* A process that runs goes on; the users start and type when they like.   *)
Spec == Init /\ [][Next]_vars
FairSpec == Spec /\ WF_vars(Say) /\ \A p \in Procs : WF_vars(Work(p))
-----------------------------------------------------------------------------
(* Properties *)

Waits(p) == (At(p, "recv") \/ At(p, "from")) /\ inbox[p] = <<>>
Owed(c) == addr = c /\ (At(Server, "type") \/ At(Server, "say"))
Underway(c) == \E n \in DOMAIN inbox[Server] : inbox[Server][n].from = c

(* A client waits for an answer that nobody is to send only if a datagram  *)
(* to or from it was lost, if the server was killed, or if p1 or p3 serves *)
(* another client.  Elsewhere other clients never cost it its answer.  And *)
(* the server of p3 waits for the rest of a client that has ended only if  *)
(* a datagram was lost or the client was killed.                           *)
StuckOnlyByLoss ==
    /\ \A c \in Clients :
           Waits(c) /\ ~Owed(c) /\ ~Underway(c)
               => c \in lost \/ state[Server] = "dead" \/ (lab \in {"greet", "steps"} /\ addr # c)
    /\ lab = "steps" /\ addr # Server /\ At(Server, "recv") /\ Waits(Server)
           => state[addr] # "left" \/ addr \in lost

(* Program1: a client that has said bye leaves no server behind that goes  *)
(* on, unless its bye was lost: whatever else is in the socket, the server *)
(* comes to the bye and knows it by its bytes up to the first zero.        *)
ByeEndsServer ==
    \A c \in Clients :
        lab = "bye" /\ state[c] = "left" /\ Runs(Server)
            => c \in lost \/ Underway(c) \/ (At(Server, "test") /\ got[Server] = "word")

(* Whose question is in the server's socket gets its answer and ends, and  *)
(* the client whose hello the server of p3 has walks with it through the   *)
(* four rounds to the end, unless a datagram is lost or one is killed.     *)
AskedIsAnswered ==
    \A c \in Clients :
        /\ lab = "answer" /\ Underway(c) ~> ~Runs(c) \/ c \in lost \/ state[Server] = "dead"
        /\ lab = "steps" /\ addr = c
              ~> \/ ~Runs(c) /\ ~Runs(Server)
                 \/ c \in lost \/ state[c] = "dead" \/ state[Server] = "dead"
=============================================================================

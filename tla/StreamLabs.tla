----------------------------- MODULE StreamLabs -----------------------------
(***************************************************************************)
(* The Java exercises over TCP, and p2 in Python.  The server and its      *)
(* clients are loops of reads and writes; what sets the exercises apart is *)
(* the order of the calls, where the closing word is looked for, what an   *)
(* exception does, and whether the server takes one client, one at a time, *)
(* or each with a thread of its own.  So a program is a table of its calls *)
(* with the place its loop starts at, and one operator per call walks it.  *)
(***************************************************************************)
EXTENDS Integers, Sequences

CONSTANTS
    Conns,  \* the clients, and so the connections
    Labs,   \* the exercises to run, among the names of Lab
    Buf     \* messages the socket buffers of one direction hold

(* code: the calls; loop: where the loop starts; catch: where an exception *)
(* leads, back to the loop or to the end of the process.                   *)
Program(code, loop, catch) == [code |-> code, loop |-> loop, catch |-> catch]

(* Q4: the name, then lines until logout. *)
ChatClient == Program(<<"type", "write", "test", "type", "write">>, 3, "loop")
(* VARIANT: only every second line is looked at. *)
ChatHandlerSkips == Program(<<"read", "read", "read", "test">>, 2, "loop")
ChatHandler == Program(<<"read", "read", "test">>, 2, "loop")
(* Program1: lines until Over. *)
(* VARIANT: the word is looked for after the write. *)
LinesClientLast == Program(<<"type", "write", "test">>, 1, "loop")
LinesClient == Program(<<"test", "type", "write">>, 1, "loop")
LinesServer == Program(<<"test", "read">>, 1, "loop")
(* Q3: the two take turns, each until the last string it got is Over.      *)
(* VARIANT: the server speaks first. *)
TalkServerFirst == Program(<<"test", "type", "write", "read">>, 1, "loop")
TalkClient == Program(<<"test", "type", "write", "read">>, 1, "loop")
TalkServer == Program(<<"test", "read", "type", "write">>, 1, "loop")
(* Program2: prompt, request, answer, until Exit.                          *)
(* VARIANT: a case of the switch falls through to the next one. *)
DateHandlerFalls == Program(<<"prompt", "read", "test", "answer", "answer">>, 1, "loop")
(* VARIANT: the word is looked for after the answer. *)
DateHandlerLast == Program(<<"prompt", "read", "answer", "test">>, 1, "loop")
DateClient == Program(<<"skip", "type", "write", "test", "skip">>, 1, "end")
DateHandler == Program(<<"prompt", "read", "test", "answer">>, 1, "loop")
(* Q1, Q2 and p2: an answer, to a request or to none.                      *)
HelloServer == Program(<<"answer", "exit">>, 1, "end")
HelloClient == Program(<<"skip", "exit">>, 1, "end")
TimeServer == Program(<<"answer", "exit">>, 1, "end")
TimeClient == Program(<<"skip", "exit">>, 1, "end")
AskServer == Program(<<"skip", "answer">>, 1, "end")
AskClient == Program(<<"ask", "skip", "exit">>, 1, "end")

(* serves: a thread for each client, the clients one by one, or one only.  *)
Exercise(server, client, serves) == [server |-> server, client |-> client, serves |-> serves]
Lab == [
    chat  |-> Exercise(ChatHandler, ChatClient,  "each"),
    date  |-> Exercise(DateHandler, DateClient,  "each"),
    time  |-> Exercise(TimeServer,  TimeClient,  "one by one"),
    lines |-> Exercise(LinesServer, LinesClient, "one"),
    talk  |-> Exercise(TalkServer,  TalkClient,  "one"),
    hello |-> Exercise(HelloServer, HelloClient, "one"),
    ask   |-> Exercise(AskServer,   AskClient,   "one")]

Sides == {"client", "server"}
Other(s) == IF s = "client" THEN "server" ELSE "client"

(* What is typed or read: the closing word of the exercise, another line,  *)
(* or one whose length writeUTF refuses; "" before anything is.            *)
Typed == {"word", "text", "long"}
Messages == {"word", "text", "prompt", "answer", "ask"}

ASSUME StreamLabsAssumption == Labs \subseteq DOMAIN Lab /\ Buf \in Nat \ {0}

VARIABLES
    lab,      \* the exercise that runs
    up,       \* whether the server process has begun, and how it ended
    backlog,  \* the connections that wait for accept
    state,    \* per connection and side: idle, queued, run, or how it ended
    pc,       \* per connection and side: the call it is at
    line,     \* per connection and side: the variable the loop looks at
    net,      \* per connection and side: what was sent to it and not yet read
    ar,       \* the vector of handlers of Q4
    spoken,   \* the clients that have sent something (history)
    bye,      \* the clients that have sent the closing word, in Q4 not first (history)
    refused   \* the connections on which the server typed too long a line (history)

history == <<spoken, bye, refused>>
vars == <<lab, up, backlog, state, pc, line, net, ar, spoken, bye, refused>>

TypeOK ==
    /\ lab \in Labs
    /\ up \in {"new", "up", "gone", "killed"}
    /\ backlog \in Seq(Conns)
    /\ state \in [Conns -> [Sides -> {"idle", "queued", "run", "left", "dead"}]]
    /\ pc \in [Conns -> [Sides -> 1..5]]
    /\ line \in [Conns -> [Sides -> Typed \cup Messages \cup {""}]]
    /\ net \in [Conns -> [Sides -> Seq(Messages)]]
    /\ \A c \in Conns, s \in Sides : Len(net[c][s]) <= Buf
    /\ ar \in Seq(Conns)
    /\ spoken \subseteq Conns /\ bye \subseteq spoken /\ refused \subseteq Conns

Init ==
    /\ lab \in Labs
    /\ up = "new" /\ backlog = <<>> /\ ar = <<>>
    /\ state = [c \in Conns |-> [s \in Sides |-> "idle"]]
    /\ pc = [c \in Conns |-> [s \in Sides |-> 1]]
    /\ line = [c \in Conns |-> [s \in Sides |-> ""]]
    /\ net = [c \in Conns |-> [s \in Sides |-> <<>>]]
    /\ spoken = {} /\ bye = {} /\ refused = {}

Prog(s) == Lab[lab][s]
Runs(c, s) == state[c][s] = "run"
At(c, s, call) == Runs(c, s) /\ Prog(s).code[pc[c][s]] = call
Gone(c, s) == state[c][s] \in {"left", "dead"}

-----------------------------------------------------------------------------
(* The server's process, and how a side goes on or ends *)

Start ==
    /\ up = "new"
    /\ up' = "up"
    /\ UNCHANGED <<lab, backlog, state, pc, line, net, ar, history>>

(* Without a server the streams of the client stay null: it dies of them.  *)
Connect(c) ==
    /\ state[c].client = "idle"
    /\ IF up = "up"
       THEN /\ state' = [state EXCEPT ![c] = [client |-> "run", server |-> "queued"]]
            /\ backlog' = Append(backlog, c)
       ELSE /\ state' = [state EXCEPT ![c].client = "dead"]
            /\ UNCHANGED backlog
    /\ UNCHANGED <<lab, up, pc, line, net, ar, history>>

(* A server for one client accepts once; the others stay in the backlog.   *)
Free ==
    CASE Lab[lab].serves = "each" -> TRUE
      [] Lab[lab].serves = "one by one" -> \A c \in Conns : ~Runs(c, "server")
      [] Lab[lab].serves = "one" -> \A c \in Conns : state[c].server \in {"idle", "queued"}

Accept ==
    /\ up = "up" /\ backlog # <<>> /\ Free
    /\ state' = [state EXCEPT ![Head(backlog)].server = "run"]
    /\ backlog' = Tail(backlog)
    /\ ar' = IF lab = "chat" THEN Append(ar, Head(backlog)) ELSE ar
    /\ UNCHANGED <<lab, up, pc, line, net, history>>

(* The server's process ends, and with it all its connections. *)
Down(ended, how) ==
    /\ up' = how
    /\ backlog' = <<>>
    /\ state' = [c \in Conns |->
           IF ended[c].server \in {"run", "queued"}
           THEN [ended[c] EXCEPT !.server = "dead"] ELSE ended[c]]

(* VARIANT: the server for one client after the other ends with the first. *)
EndOfFirst(c, s, how) ==
    LET ended == [state EXCEPT ![c][s] = how] IN
    /\ IF s = "server" /\ Lab[lab].serves \in {"one", "one by one"}
       THEN Down(ended, "gone")
       ELSE state' = ended /\ UNCHANGED <<up, backlog>>
    /\ UNCHANGED pc

End(c, s, how) ==
    LET ended == [state EXCEPT ![c][s] = how] IN
    /\ IF s = "server" /\ (Lab[lab].serves = "one" \/ (Prog(s).catch = "end" /\ how = "dead"))
       THEN Down(ended, "gone")
       ELSE state' = ended /\ UNCHANGED <<up, backlog>>
    /\ UNCHANGED pc

Goto(c, s, n) ==
    /\ pc' = [pc EXCEPT ![c][s] = n]
    /\ UNCHANGED <<up, backlog, state>>

Advance(c, s) ==
    Goto(c, s, IF pc[c][s] = Len(Prog(s).code) THEN Prog(s).loop ELSE pc[c][s] + 1)

(* An exception keeps the variables as they are. *)
Catch(c, s) ==
    IF Prog(s).catch = "loop" THEN Goto(c, s, Prog(s).loop) ELSE End(c, s, "dead")

-----------------------------------------------------------------------------
(* The calls *)

(* VARIANT: the null of the end of the terminal is used like a line. *)
TypeNull(c, s) ==
    /\ At(c, s, "type")
    /\ \E l \in Typed \cup {"null"} : line' = [line EXCEPT ![c][s] = l]
    /\ Advance(c, s)
    /\ UNCHANGED <<lab, net, ar, history>>

(* readLine of the terminal.  At its end the line is null, and using it    *)
(* kills the process.                                                      *)
Type(c, s) ==
    /\ At(c, s, "type")
    /\ \/ /\ \E l \in Typed : line' = [line EXCEPT ![c][s] = l]
          /\ Advance(c, s)
       \/ End(c, s, "dead") /\ UNCHANGED line
    /\ UNCHANGED <<lab, net, ar, history>>

(* A write waits while the buffers are full.  To a peer that is gone it is *)
(* lost or fails, as the reset has not come or has.                        *)
Send(c, s, m) ==
    \/ /\ Gone(c, Other(s))
       /\ Advance(c, s) \/ Catch(c, s)
       /\ UNCHANGED <<net, spoken, bye>>
    \/ /\ ~Gone(c, Other(s)) /\ Len(net[c][Other(s)]) < Buf
       /\ net' = [net EXCEPT ![c][Other(s)] = Append(@, m)]
       /\ spoken' = IF s = "client" THEN spoken \cup {c} ELSE spoken
       /\ bye' = IF s = "client" /\ m = "word" /\ (lab = "chat" => c \in spoken)
                 THEN bye \cup {c} ELSE bye
       /\ Advance(c, s)

(* writeUTF of the line; one of more than 65535 bytes is an exception.     *)
Write(c, s) ==
    /\ At(c, s, "write")
    /\ IF line[c][s] = "long"
       THEN /\ Catch(c, s)
            /\ refused' = IF s = "server" THEN refused \cup {c} ELSE refused
            /\ UNCHANGED <<net, spoken, bye>>
       ELSE Send(c, s, line[c][s]) /\ UNCHANGED refused
    /\ UNCHANGED <<lab, line, ar>>

(* A text of the program's own. *)
Say(c, s) ==
    /\ \E m \in {"prompt", "answer", "ask"} : At(c, s, m) /\ Send(c, s, m)
    /\ UNCHANGED <<lab, line, ar, refused>>

(* "read" keeps what it reads in the line, "skip" prints it.  What came    *)
(* before the end of the stream is read, then it is an exception.          *)
Read(c, s) ==
    /\ At(c, s, "read") \/ At(c, s, "skip")
    /\ IF net[c][s] # <<>>
       THEN /\ net' = [net EXCEPT ![c][s] = Tail(@)]
            /\ line' = [line EXCEPT ![c][s] = IF At(c, s, "read") THEN Head(net[c][s]) ELSE @]
            /\ Advance(c, s)
       ELSE /\ Gone(c, Other(s))
            /\ Catch(c, s)
            /\ UNCHANGED <<net, line>>
    /\ UNCHANGED <<lab, ar, history>>

Test(c, s) ==
    /\ At(c, s, "test")
    /\ IF line[c][s] = "word" THEN End(c, s, "left") ELSE Advance(c, s)
    /\ UNCHANGED <<lab, line, net, ar, history>>

Exit(c, s) ==
    /\ At(c, s, "exit")
    /\ End(c, s, "left")
    /\ UNCHANGED <<lab, line, net, ar, history>>

-----------------------------------------------------------------------------
KillClient(c) ==
    /\ Runs(c, "client")
    /\ state' = [state EXCEPT ![c].client = "dead"]
    /\ UNCHANGED <<lab, up, backlog, pc, line, net, ar, history>>

KillServer ==
    /\ up = "up"
    /\ Down(state, "killed")
    /\ UNCHANGED <<lab, pc, line, net, ar, history>>

Work(c, s) == Write(c, s) \/ Say(c, s) \/ Read(c, s) \/ Test(c, s) \/ Exit(c, s)

Next ==
    \/ Start \/ Accept \/ KillServer
    \/ \E c \in Conns : Connect(c) \/ KillClient(c)
    \/ \E c \in Conns, s \in Sides : Type(c, s) \/ Work(c, s)

(* The threads run; the users start and type what and when they like.      *)
Spec == Init /\ [][Next]_vars
FairSpec == Spec /\ WF_vars(Accept) /\ \A c \in Conns, s \in Sides : WF_vars(Work(c, s))
-----------------------------------------------------------------------------
(* Properties *)

(* The exercises in which the client takes leave with the closing word.    *)
Leaving == {"chat", "date", "lines"}

(* readUTF throws at the end of the stream and the loop goes round again:  *)
(* a server side that does so for ever has lost its client.  It never is   *)
(* one whose client has said the closing word, however late it is read and *)
(* whatever exceptions came before: only a client that was killed, whose   *)
(* terminal ended, or whose word was taken for a name leaves such a thread *)
(* (it gave the word as its name, or its name was refused by writeUTF).    *)
SpinsOnlyWithoutWord ==
    \A c \in bye :
        ~(lab \in Leaving /\ At(c, "server", "read")
            /\ Gone(c, "client") /\ net[c].server = <<>>)

(* Q3: while both sides run, the turn is in one place: the client's, the   *)
(* server's, or on the way.  It is lost, and both wait for each other for  *)
(* ever, only when the server typed a line that writeUTF refuses: it goes  *)
(* back to reading.  A client that does so keeps its turn.                 *)
OneTurn ==
    \A c \in Conns :
        LET mine(s) == IF Runs(c, s) /\ \E call \in {"type", "write"} : At(c, s, call) THEN 1 ELSE 0
            back == IF At(c, "client", "test") THEN 1 ELSE 0
            turns == mine("client") + mine("server") + back + Len(net[c].client) + Len(net[c].server)
        IN  lab = "talk" /\ Runs(c, "client") /\ ~Gone(c, "server")
                => turns <= 1 /\ (turns = 0 => c \in refused)

(* Program2: prompts and answers come in one stream and look alike.  The   *)
(* client prints each where it expects it, also after refused lines.       *)
InStep ==
    \A c \in Conns :
        lab = "date" /\ Runs(c, "client") /\ net[c].client # <<>>
            => /\ pc[c].client = 1 => Head(net[c].client) = "prompt"
               /\ pc[c].client = 5 => Head(net[c].client) = "answer"

(* Q2: main throws what a write throws.  The date server that was not      *)
(* killed is gone only if a client had vanished before its answer.         *)
(* Clients that come, are answered and leave never bring it down.          *)
FallsByVanished ==
    [][lab = "time" /\ up = "up" /\ up' = "gone"
          => \E c \in Conns : state[c].client = "dead" /\ At(c, "server", "answer")]_vars

(* A client that said the closing word is let go: its server side ends.    *)
WordEndsServer ==
    \A c \in Conns :
        (c \in bye /\ lab \in Leaving /\ Runs(c, "server")) ~> Gone(c, "server")

(* Who types the closing word comes out of the loop, also when the write   *)
(* or the read after it throws, if the other side is served or gone.  Not  *)
(* the client of Q3, whose line is replaced by what it reads.              *)
OwnWordLeaves ==
    \A c \in Conns, s \in Sides :
        (/\ At(c, s, "write") /\ line[c][s] = "word"
         /\ ~(s = "client" /\ (lab = "talk" \/ state[c].server = "queued")))
            ~> Gone(c, s)
=============================================================================

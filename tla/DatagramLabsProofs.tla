------------------------- MODULE DatagramLabsProofs -------------------------
(* Machine-checked proofs about DatagramLabs, for every set of clients,    *)
(* every choice among the exercises and every size of the sockets.         *)
EXTENDS DatagramLabs, SequenceTheorems, TLAPS

(* A program is at one of its calls, and sends what it has typed.          *)
InCode ==
    \A p \in Procs :
        /\ pc[p] \in 1..Len(Prog(p).code)
        /\ Prog(p).code[pc[p]] = "send" => line[p] \in Texts
        /\ lab = "reply" /\ Prog(p).code[pc[p]] = "say" => line[p] \in Texts

(* A socket holds nothing before it is bound and after its process, and a  *)
(* client that has not started has sent nothing.                           *)
Quiet ==
    /\ \A p \in Procs : ~Runs(p) => inbox[p] = <<>>
    /\ \A c \in Clients : state[c] = "idle" => pc[c] = 1 /\ addr # c /\ ~Underway(c)

(* The server hears clients only, and keeps an address once it has one.    *)
FromClients ==
    /\ \A n \in 1..Len(inbox[Server]) : inbox[Server][n].from \in Clients
    /\ addr = Server => pc[Server] = 1
    /\ lab = "steps" /\ pc[Server] = 1 => addr = Server

(* The first half of StuckOnlyByLoss for one client. *)
Answered(c) ==
    Waits(c) /\ ~Owed(c) /\ ~Underway(c)
        => c \in lost \/ state[Server] = "dead" \/ (lab \in {"greet", "steps"} /\ addr # c)

(* p3: the answers the client of the exercise has been given so far, and   *)
(* what a program of p3 that is at its n-th call has sent or received.     *)
Half(n) == (n - 1) \div 2
Given(c) == IF addr = c THEN Half(pc[Server]) ELSE 0
Round(c) ==
    /\ Half(pc[c]) + Len(inbox[c]) <= Given(c)
    /\ Runs(c) /\ c \notin lost => Half(pc[c]) + Len(inbox[c]) = Given(c)
    /\ state[c] = "left" => pc[c] = 10
    /\ addr = c /\ pc[c] = 10 /\ pc[Server] = 9 => c \in lost \/ Underway(c)
InRounds == lab = "steps" => \A c \in Clients : Round(c)

(* Program1: the bye of a client is in the socket of the server, or the    *)
(* server is to look at it.                                                *)
ByeSaid(c) == (pc[c] = 3 /\ line[c] = "word") \/ state[c] = "left"
ByeHeld(c) ==
    \/ c \in lost
    \/ \E n \in 1..Len(inbox[Server]) : inbox[Server][n].from = c /\ inbox[Server][n].text = "word"
    \/ At(Server, "test") /\ got[Server] = "word"
ByeKept ==
    lab = "bye" => /\ \A c \in Clients : inbox[c] = <<>> /\ got[c] = ""
                   /\ \A c \in Clients :
                         ByeSaid(c) /\ state[Server] \in {"idle", "run"} => ByeHeld(c)

(* The inductive invariant. *)
IInv ==
    /\ TypeOK /\ InCode /\ Quiet /\ FromClients
    /\ \A c \in Clients : Answered(c)
    /\ InRounds /\ ByeKept

-----------------------------------------------------------------------------
(* The tables. *)
LEMMA RoundsIs ==
    ASSUME NEW a, NEW b
    PROVE  Rounds(<<a, b>>) = [n \in 1..8 |-> IF n % 2 = 1 THEN a ELSE b]
  <1> DEFINE s == <<a, b>>
  <1>1. Rounds(s) = [n \in 1..8 |-> s[((n - 1) % 2) + 1]]
    BY DEF Rounds
  <1>2. \A n \in 1..8 : s[((n - 1) % 2) + 1] = IF n % 2 = 1 THEN a ELSE b
    <2> SUFFICES ASSUME NEW n \in 1..8 PROVE s[((n - 1) % 2) + 1] = IF n % 2 = 1 THEN a ELSE b
      OBVIOUS
    <2>1. CASE n % 2 = 1
      <3>1. ((n - 1) % 2) + 1 = 1
        BY <2>1
      <3>2. QED
        BY <2>1, <3>1
    <2>2. CASE n % 2 # 1
      <3>1. ((n - 1) % 2) + 1 = 2
        BY <2>2
      <3>2. QED
        BY <2>2, <3>1
    <2>3. QED
      BY <2>1, <2>2
  <1> HIDE DEF s
  <1>3. Rounds(s) = [n \in 1..8 |-> IF n % 2 = 1 THEN a ELSE b]
    BY <1>1, <1>2
  <1>4. QED
    BY <1>3 DEF s

(* The programs of p3. *)
Frame(x, a, b, z) == <<x>> \o Rounds(<<a, b>>) \o <<z>>

LEMMA InFrame ==
    ASSUME NEW x, NEW a, NEW b, NEW z
    PROVE  /\ Len(Frame(x, a, b, z)) = 10
           /\ Frame(x, a, b, z)[1] = x /\ Frame(x, a, b, z)[10] = z
           /\ \A n \in 2..9 : Frame(x, a, b, z)[n] = IF n % 2 = 0 THEN a ELSE b
  <1> DEFINE S == {x, a, b, z}
             r == Rounds(<<a, b>>)
             u == <<x>>
             v == <<z>>
             h == u \o r
             code == h \o v
  <1>0. r = [n \in 1..8 |-> IF n % 2 = 1 THEN a ELSE b]
    BY RoundsIs
  <1>1. r \in Seq(S) /\ Len(r) = 8 /\ \A n \in 1..8 : r[n] = IF n % 2 = 1 THEN a ELSE b
    <2> HIDE DEF r
    <2>1. r \in [1..8 -> S] /\ DOMAIN r = 1..8
      BY <1>0
    <2>2. r \in Seq(S)
      <3> HIDE DEF S
      <3>1. QED
        BY <2>1, 8 \in Nat, SeqDef
    <2>3. Len(r) \in Nat /\ DOMAIN r = 1..Len(r)
      BY <2>2, LenProperties
    <2>4. Len(r) = 8
      BY <2>1, <2>3
    <2>5. \A n \in 1..8 : r[n] = IF n % 2 = 1 THEN a ELSE b
      BY <1>0
    <2>6. QED
      BY <2>2, <2>4, <2>5
  <1>2. u \in Seq(S) /\ Len(u) = 1 /\ u[1] = x
    OBVIOUS
  <1>3. v \in Seq(S) /\ Len(v) = 1 /\ v[1] = z
    OBVIOUS
  <1> HIDE DEF r, S, u, v
  <1>4. /\ h \in Seq(S) /\ Len(h) = 9
        /\ \A n \in 1..9 : h[n] = IF n <= 1 THEN u[n] ELSE r[n - 1]
    <2>1. /\ u \o r \in Seq(S) /\ Len(u \o r) = Len(u) + Len(r)
          /\ \A n \in 1..(Len(u) + Len(r)) : (u \o r)[n] = IF n <= Len(u) THEN u[n] ELSE r[n - Len(u)]
      BY <1>1, <1>2, ConcatProperties
    <2>2. Len(u) = 1 /\ Len(r) = 8 /\ Len(u) + Len(r) = 9
      BY <1>1, <1>2
    <2>3. h \in Seq(S) /\ Len(h) = 9
      BY <2>1, <2>2
    <2>4. \A n \in 1..9 : h[n] = IF n <= 1 THEN u[n] ELSE r[n - 1]
      BY <2>1, <2>2
    <2>5. QED
      BY <2>3, <2>4
  <1> HIDE DEF h
  <1>5. /\ Len(code) = 10
        /\ \A n \in 1..10 : code[n] = IF n <= 9 THEN h[n] ELSE v[n - 9]
    <2>1. /\ h \o v \in Seq(S) /\ Len(h \o v) = Len(h) + Len(v)
          /\ \A n \in 1..(Len(h) + Len(v)) : (h \o v)[n] = IF n <= Len(h) THEN h[n] ELSE v[n - Len(h)]
      BY <1>3, <1>4, ConcatProperties
    <2>2. Len(h) = 9 /\ Len(v) = 1 /\ Len(h) + Len(v) = 10
      BY <1>3, <1>4
    <2>3. Len(code) = 10
      BY <2>1, <2>2
    <2>4. \A n \in 1..10 : code[n] = IF n <= 9 THEN h[n] ELSE v[n - 9]
      BY <2>1, <2>2
    <2>5. QED
      BY <2>3, <2>4
  <1> HIDE DEF code
  <1>6. code[1] = x /\ code[10] = z
    BY <1>2, <1>3, <1>4, <1>5
  <1>7. \A n \in 2..9 : code[n] = IF n % 2 = 0 THEN a ELSE b
    <2> SUFFICES ASSUME NEW n \in 2..9 PROVE code[n] = IF n % 2 = 0 THEN a ELSE b
      OBVIOUS
    <2>1. n \in 1..10 /\ n <= 9 /\ n \in 1..9 /\ ~(n <= 1) /\ n - 1 \in 1..8
      OBVIOUS
    <2>2. code[n] = r[n - 1]
      BY <1>4, <1>5, <2>1
    <2>3. (n - 1) % 2 = 1 <=> n % 2 = 0
      OBVIOUS
    <2>4. QED
      BY <1>1, <2>1, <2>2, <2>3
  <1>8. QED
    BY <1>5, <1>6, <1>7 DEF Frame, code, h, r, u, v

(* The programs of one exercise each. *)
LEMMA ByePrograms ==
    ASSUME lab = "bye", NEW c \in Clients
    PROVE  /\ Prog(Server).code = <<"from", "test">> /\ Prog(Server).loop = 1
           /\ Prog(c).code = <<"type", "send", "test">> /\ Prog(c).loop = 1
  <1>1. Prog(Server) = ByeServer /\ Prog(c) = ByeClient
    BY DatagramLabsAssumption DEF Prog, Lab, Exercise
  <1>2. QED
    BY <1>1 DEF ByeServer, ByeClient, Program

LEMMA StepsPrograms ==
    ASSUME lab = "steps", NEW c \in Clients
    PROVE  /\ Len(Prog(Server).code) = 10 /\ Prog(Server).loop = 1
           /\ Prog(Server).code[1] = "from" /\ Prog(Server).code[10] = "exit"
           /\ \A n \in 2..9 : Prog(Server).code[n] = IF n % 2 = 0 THEN "say" ELSE "recv"
           /\ Len(Prog(c).code) = 10 /\ Prog(c).loop = 1
           /\ Prog(c).code[1] = "hello" /\ Prog(c).code[10] = "exit"
           /\ \A n \in 2..9 : Prog(c).code[n] = IF n % 2 = 0 THEN "recv" ELSE "hello"
  <1>1. Prog(Server) = StepsServer /\ Prog(c) = StepsClient
    BY DatagramLabsAssumption DEF Prog, Lab, Exercise
  <1>2. StepsServer.code = Frame("from", "say", "recv", "exit") /\ StepsServer.loop = 1
    BY DEF StepsServer, Program, Frame
  <1>3. StepsClient.code = Frame("hello", "recv", "hello", "exit") /\ StepsClient.loop = 1
    BY DEF StepsClient, Program, Frame
  <1>4. QED
    BY <1>1, <1>2, <1>3, InFrame

(* What holds of all programs of the clients, and of the server's. *)
ClientTable(q, l) ==
    /\ Len(q.code) \in Nat \ {0} /\ Len(q.code) <= 10 /\ q.loop = 1
    /\ q.code[1] \in {"hello", "type"}
    /\ \A n \in 1..Len(q.code) :
          /\ q.code[n] \in {"hello", "recv", "exit", "type", "send", "test"}
          /\ q.code[n] = "send" => n > 1 /\ q.code[n - 1] = "type"
          /\ q.code[n] = "recv" => n > 1 /\ q.code[n - 1] \in {"hello", "send"}
          /\ l \in {"chat", "bye"} => q.code[n] # "recv"
ServerTable(q, l) ==
    /\ Len(q.code) \in Nat \ {0} /\ Len(q.code) <= 10 /\ q.loop = 1
    /\ q.code[1] = "from"
    /\ \A n \in 1..Len(q.code) :
          /\ q.code[n] \in {"from", "say", "recv", "type", "test", "exit"}
          /\ l = "reply" /\ q.code[n] = "say" => n > 1 /\ q.code[n - 1] = "type"
          /\ l # "steps" => q.code[n] # "recv"
          /\ l = "steps" => q.code[n] # "type"
          /\ l \in {"answer", "greet", "reply"} /\ q.code[n] \in {"from", "type"}
                => n + 1 <= Len(q.code) /\ q.code[n + 1] \in {"type", "say"}

LEMMA Tables ==
    ASSUME TypeOK
    PROVE  /\ ServerTable(Prog(Server), lab)
           /\ \A c \in Clients : ClientTable(Prog(c), lab) /\ c # Server /\ c \in Procs
           /\ Server \in Procs
  <1>0. lab \in {"answer", "greet", "steps", "reply", "chat", "bye"}
    BY DatagramLabsAssumption DEF TypeOK, Lab
  <1>a. Server \in Procs /\ \A c \in Clients : c # Server /\ c \in Procs
    BY DatagramLabsAssumption DEF Procs
  <1>1. CASE lab = "answer"
    <2>1. Prog(Server) = AnswerServer /\ \A c \in Clients : Prog(c) = AskClient
      BY <1>1, <1>a DEF Prog, Lab, Exercise
    <2>2. ServerTable(AnswerServer, lab)
      BY <1>1 DEF ServerTable, AnswerServer, Program
    <2>3. ClientTable(AskClient, lab)
      BY <1>1 DEF ClientTable, AskClient, Program
    <2>4. QED
      BY <1>a, <2>1, <2>2, <2>3
  <1>2. CASE lab = "greet"
    <2>1. Prog(Server) = GreetServer /\ \A c \in Clients : Prog(c) = GreetClient
      BY <1>2, <1>a DEF Prog, Lab, Exercise
    <2>2. ServerTable(GreetServer, lab)
      BY <1>2 DEF ServerTable, GreetServer, Program
    <2>3. ClientTable(GreetClient, lab)
      BY <1>2 DEF ClientTable, GreetClient, Program
    <2>4. QED
      BY <1>a, <2>1, <2>2, <2>3
  <1>3. CASE lab = "reply"
    <2>1. Prog(Server) = ReplyServer /\ \A c \in Clients : Prog(c) = ReplyClient
      BY <1>3, <1>a DEF Prog, Lab, Exercise
    <2>2. ServerTable(ReplyServer, lab)
      BY <1>3 DEF ServerTable, ReplyServer, Program
    <2>3. ClientTable(ReplyClient, lab)
      BY <1>3 DEF ClientTable, ReplyClient, Program
    <2>4. QED
      BY <1>a, <2>1, <2>2, <2>3
  <1>4. CASE lab = "chat"
    <2>1. Prog(Server) = ChatServer /\ \A c \in Clients : Prog(c) = ChatClient
      BY <1>4, <1>a DEF Prog, Lab, Exercise
    <2>2. ServerTable(ChatServer, lab)
      BY <1>4 DEF ServerTable, ChatServer, Program
    <2>3. ClientTable(ChatClient, lab)
      BY <1>4 DEF ClientTable, ChatClient, Program
    <2>4. QED
      BY <1>a, <2>1, <2>2, <2>3
  <1>5. CASE lab = "bye"
    <2>1. Prog(Server) = ByeServer /\ \A c \in Clients : Prog(c) = ByeClient
      BY <1>5, <1>a DEF Prog, Lab, Exercise
    <2>2. ServerTable(ByeServer, lab)
      BY <1>5 DEF ServerTable, ByeServer, Program
    <2>3. ClientTable(ByeClient, lab)
      BY <1>5 DEF ClientTable, ByeClient, Program
    <2>4. QED
      BY <1>a, <2>1, <2>2, <2>3
  <1>6. CASE lab = "steps"
    <2>1. ASSUME NEW q, NEW x, NEW y, NEW z, Len(q.code) = 10, q.loop = 1, q.code[1] = x,
                 q.code[10] = "exit", \A n \in 2..9 : q.code[n] = IF n % 2 = 0 THEN y ELSE z
          PROVE  \A n \in 1..Len(q.code) :
                    /\ q.code[n] \in {x, y, z, "exit"}
                    /\ q.code[n] = y /\ y \notin {x, z, "exit"}
                          => n > 1 /\ q.code[n - 1] \in {x, z}
      <3> SUFFICES ASSUME NEW n \in 1..10
                   PROVE  /\ q.code[n] \in {x, y, z, "exit"}
                          /\ q.code[n] = y /\ y \notin {x, z, "exit"}
                                => n > 1 /\ q.code[n - 1] \in {x, z}
        BY <2>1
      <3>1. n = 1 \/ n = 10 \/ n \in 2..9
        OBVIOUS
      <3>2. CASE n = 1 \/ n = 10
        BY <2>1, <3>2
      <3>3. CASE n \in 2..9
        <4>1. q.code[n] \in {y, z} /\ (q.code[n] = y /\ y # z => n % 2 = 0)
          BY <2>1, <3>3
        <4>2. n - 1 = 1 \/ n - 1 \in 2..9
          BY <3>3
        <4>3. ASSUME n % 2 = 0 PROVE q.code[n - 1] \in {x, z}
          <5>1. (n - 1) % 2 # 0
            BY <3>3, <4>3
          <5>2. QED
            BY <2>1, <4>2, <5>1
        <4>4. n > 1
          BY <3>3
        <4>5. QED
          BY <4>1, <4>3, <4>4
      <3>4. QED
        BY <3>1, <3>2, <3>3
    <2>2. ASSUME NEW c \in Clients PROVE ClientTable(Prog(c), lab)
      <3>1. /\ Len(Prog(c).code) = 10 /\ Prog(c).loop = 1
            /\ Prog(c).code[1] = "hello" /\ Prog(c).code[10] = "exit"
            /\ \A n \in 2..9 : Prog(c).code[n] = IF n % 2 = 0 THEN "recv" ELSE "hello"
        BY <1>6, StepsPrograms
      <3>2. \A n \in 1..Len(Prog(c).code) :
               /\ Prog(c).code[n] \in {"hello", "recv", "exit"}
               /\ Prog(c).code[n] = "recv" => n > 1 /\ Prog(c).code[n - 1] = "hello"
        BY <2>1, <3>1
      <3>3. QED
        BY <1>6, <3>1, <3>2 DEF ClientTable
    <2>3. ServerTable(Prog(Server), lab)
      <3>1. Prog(Server) = StepsServer
        BY <1>6 DEF Prog, Lab, Exercise
      <3>2. StepsServer.code = Frame("from", "say", "recv", "exit") /\ StepsServer.loop = 1
        BY DEF StepsServer, Program, Frame
      <3>3. /\ Len(Prog(Server).code) = 10 /\ Prog(Server).loop = 1
            /\ Prog(Server).code[1] = "from" /\ Prog(Server).code[10] = "exit"
            /\ \A n \in 2..9 : Prog(Server).code[n] = IF n % 2 = 0 THEN "say" ELSE "recv"
        BY <3>1, <3>2, InFrame
      <3>4. \A n \in 1..Len(Prog(Server).code) : Prog(Server).code[n] \in {"from", "say", "recv", "exit"}
        BY <2>1, <3>3
      <3>5. QED
        BY <1>6, <3>3, <3>4 DEF ServerTable
    <2>4. QED
      BY <1>a, <2>2, <2>3
  <1>7. QED
    BY <1>0, <1>1, <1>2, <1>3, <1>4, <1>5, <1>6

-----------------------------------------------------------------------------
(* The steps there are, by their effects. *)
NextPc(p) == IF pc[p] = Len(Prog(p).code) THEN Prog(p).loop ELSE pc[p] + 1
Walks(p) ==
    /\ pc' \in [Procs -> 1..10] /\ pc'[p] = NextPc(p)
    /\ \A r \in Procs : r # p => pc'[r] = pc[r]

(* A datagram comes to a socket, or is taken from it. *)
Grows(q, m) ==
    /\ inbox' \in [Procs -> Seq(Datagrams)]
    /\ Len(inbox'[q]) = Len(inbox[q]) + 1 /\ Len(inbox'[q]) <= Buf
    /\ inbox'[q][Len(inbox[q]) + 1] = m
    /\ \A i \in 1..Len(inbox[q]) : inbox'[q][i] = inbox[q][i]
    /\ \A r \in Procs : r # q => inbox'[r] = inbox[r]
Shrinks(p) ==
    /\ inbox' \in [Procs -> Seq(Datagrams)]
    /\ Len(inbox[p]) \in Nat \ {0} /\ Len(inbox'[p]) = Len(inbox[p]) - 1
    /\ \A i \in 1..Len(inbox'[p]) : inbox'[p][i] = inbox[p][i + 1]
    /\ \A r \in Procs : r # p => inbox'[r] = inbox[r]

(* Who sends what to whom. *)
Writes(p, q, m) ==
    /\ m \in Datagrams /\ m.from = p
    /\ \/ p \in Clients /\ q = Server /\ At(p, "hello") /\ m.text = "text"
       \/ p \in Clients /\ q = Server /\ At(p, "send") /\ m.text = line[p]
       \/ p = Server /\ q = addr /\ At(p, "say")
Puts(p, q, m) ==
    /\ Writes(p, q, m) /\ Runs(q) /\ Walks(p) /\ Grows(q, m)
    /\ UNCHANGED <<lab, state, line, got, addr, lost>>
Loses(p, q, m) ==
    /\ Writes(p, q, m) /\ Walks(p) /\ lost' = lost \cup ({p, q} \cap Clients)
    /\ UNCHANGED <<lab, state, line, got, addr, inbox>>

Starts(p) ==
    /\ state[p] = "idle" /\ state'[p] = "run"
    /\ state' \in [Procs -> {"idle", "run", "left", "dead"}]
    /\ \A r \in Procs : r # p => state'[r] = state[r]
    /\ UNCHANGED <<lab, pc, line, got, inbox, addr, lost>>
Types(p) ==
    /\ At(p, "type") /\ Walks(p) /\ line'[p] \in Texts
    /\ line' \in [Procs -> Texts \cup {""}]
    /\ \A r \in Procs : r # p => line'[r] = line[r]
    /\ UNCHANGED <<lab, state, got, inbox, addr, lost>>
Gets(p) ==
    /\ At(p, "recv") \/ At(p, "from")
    /\ Walks(p) /\ Shrinks(p) /\ inbox[p][1] \in Datagrams
    /\ got'[p] = Received(inbox[p][1].text) /\ got' \in [Procs -> Texts \cup {""}]
    /\ \A r \in Procs : r # p => got'[r] = got[r]
    /\ addr' = IF At(p, "from") THEN inbox[p][1].from ELSE addr
    /\ UNCHANGED <<lab, state, line, lost>>
Passes(p) ==
    /\ At(p, "test") /\ Walks(p) /\ "word" \notin {line[p], got[p]}
    /\ UNCHANGED <<lab, state, line, got, inbox, addr, lost>>
Ends(p) ==
    /\ Runs(p) /\ state'[p] \in {"left", "dead"}
    /\ state'[p] = "left" => At(p, "exit") \/ (At(p, "test") /\ "word" \in {line[p], got[p]})
    /\ state' \in [Procs -> {"idle", "run", "left", "dead"}]
    /\ \A r \in Procs : r # p => state'[r] = state[r]
    /\ inbox' \in [Procs -> Seq(Datagrams)]
    /\ inbox'[p] = <<>> /\ \A r \in Procs : r # p => inbox'[r] = inbox[r]
    /\ lost' = lost \cup Parties(p)
    /\ UNCHANGED <<lab, pc, line, got, addr>>

LEMMA Boxes ==
    ASSUME TypeOK, NEW p \in Procs
    PROVE  /\ inbox[p] \in Seq(Datagrams) /\ Len(inbox[p]) \in Nat
           /\ DOMAIN inbox[p] = 1..Len(inbox[p])
           /\ inbox[p] # <<>> => Len(inbox[p]) # 0
           /\ inbox[p] = <<>> => Len(inbox[p]) = 0
           /\ \A n \in 1..Len(inbox[p]) : inbox[p][n] \in Datagrams
  <1>1. inbox[p] \in Seq(Datagrams)
    BY DEF TypeOK
  <1>2. QED
    BY <1>1, LenProperties, EmptySeq, ElementOfSeq

LEMMA TheFirst ==
    ASSUME NEW p \in Procs, Shrinks(p)
    PROVE  1 \in 1..Len(inbox[p])
  <1>1. PICK k \in Nat \ {0} : k = Len(inbox[p])
    BY DEF Shrinks
  <1>2. 1 \in 1..k
    OBVIOUS
  <1>3. QED
    BY <1>1, <1>2

(* The next call. *)
LEMMA Calls ==
    ASSUME TypeOK, InCode, NEW p \in Procs
    PROVE  /\ pc[p] \in 1..10 /\ Prog(p).loop = 1
           /\ Len(Prog(p).code) \in Nat \ {0} /\ Len(Prog(p).code) <= 10
           /\ pc[p] \in 1..Len(Prog(p).code) /\ NextPc(p) \in 1..Len(Prog(p).code)
           /\ NextPc(p) \in 1..10
           /\ NextPc(p) = IF pc[p] = Len(Prog(p).code) THEN 1 ELSE pc[p] + 1
  <1>1. /\ Len(Prog(p).code) \in Nat \ {0} /\ Len(Prog(p).code) <= 10 /\ Prog(p).loop = 1
    BY Tables DEF Procs, ClientTable, ServerTable
  <1>2. pc[p] \in 1..Len(Prog(p).code)
    BY DEF InCode
  <1>3. NextPc(p) = IF pc[p] = Len(Prog(p).code) THEN 1 ELSE pc[p] + 1
    BY <1>1 DEF NextPc
  <1>4. PICK k \in Nat \ {0} : k = Len(Prog(p).code) /\ k <= 10
    BY <1>1
  <1>5. pc[p] \in 1..k
    BY <1>2, <1>4
  <1>6. NextPc(p) \in 1..k
    <2>1. CASE pc[p] = k
      BY <1>3, <1>4, <2>1
    <2>2. CASE pc[p] # k
      <3>1. NextPc(p) = pc[p] + 1
        BY <1>3, <1>4, <2>2
      <3>2. QED
        BY <1>5, <2>2, <3>1
    <2>3. QED
      BY <2>1, <2>2
  <1>7. pc[p] \in 1..10 /\ NextPc(p) \in 1..10
    <2>1. \A n \in 1..k : n \in 1..10
      BY <1>4
    <2>2. QED
      BY <2>1, <1>5, <1>6
  <1>8. NextPc(p) \in 1..Len(Prog(p).code)
    BY <1>4, <1>6
  <1>9. QED
    BY <1>1, <1>2, <1>3, <1>7, <1>8

LEMMA AdvanceWalks ==
    ASSUME TypeOK, InCode, NEW p \in Procs, Advance(p)
    PROVE  Walks(p)
  <1>1. pc' = [pc EXCEPT ![p] = NextPc(p)]
    BY DEF Advance, NextPc, TypeOK
  <1>2. NextPc(p) \in 1..10 /\ pc \in [Procs -> 1..10]
    BY Calls DEF TypeOK
  <1>3. QED
    BY <1>1, <1>2 DEF Walks

LEMMA SendToKinds ==
    ASSUME TypeOK, InCode, NEW p \in Procs, NEW q \in Procs, NEW text,
           Writes(p, q, [from |-> p, text |-> text]), SendTo(p, q, text), Advance(p),
           UNCHANGED <<lab, state, line, got, addr>>
    PROVE  \E m \in Datagrams : Puts(p, q, m) \/ Loses(p, q, m)
  <1> DEFINE m == [from |-> p, text |-> text]
  <1>1. Walks(p) /\ m \in Datagrams
    BY AdvanceWalks DEF Writes
  <1>2. CASE Runs(q) /\ Len(inbox[q]) < Buf
    <2>1. inbox' = [inbox EXCEPT ![q] = Append(@, m)] /\ UNCHANGED lost
      BY <1>2 DEF SendTo
    <2>2. inbox[q] \in Seq(Datagrams) /\ Len(inbox[q]) \in Nat /\ Buf \in Nat
      BY Boxes, DatagramLabsAssumption
    <2>3. /\ Append(inbox[q], m) \in Seq(Datagrams)
          /\ Len(Append(inbox[q], m)) = Len(inbox[q]) + 1
          /\ \A i \in 1..Len(inbox[q]) : Append(inbox[q], m)[i] = inbox[q][i]
          /\ Append(inbox[q], m)[Len(inbox[q]) + 1] = m
      BY <1>1, <2>2, AppendProperties
    <2>4. /\ inbox' \in [Procs -> Seq(Datagrams)] /\ inbox'[q] = Append(inbox[q], m)
          /\ \A r \in Procs : r # q => inbox'[r] = inbox[r]
      BY <2>1, <2>3 DEF TypeOK
    <2> HIDE DEF m
    <2>5. Grows(q, m)
      BY <1>2, <2>2, <2>3, <2>4 DEF Grows
    <2>6. QED
      BY <1>1, <1>2, <2>1, <2>5 DEF Puts, m
  <1>3. CASE ~(Runs(q) /\ Len(inbox[q]) < Buf)
    BY <1>1, <1>3 DEF SendTo, Loses
  <1>4. QED
    BY <1>2, <1>3

LEMMA EndEnds ==
    ASSUME TypeOK, NEW p \in Procs, NEW how \in {"left", "dead"}, Runs(p), End(p, how),
           how = "left" => At(p, "exit") \/ (At(p, "test") /\ "word" \in {line[p], got[p]}),
           UNCHANGED <<lab, line, got, addr>>
    PROVE  Ends(p)
  <1>1. <<>> \in Seq(Datagrams)
    BY EmptySeq
  <1>2. /\ inbox' \in [Procs -> Seq(Datagrams)] /\ inbox'[p] = <<>>
        /\ \A r \in Procs : r # p => inbox'[r] = inbox[r]
    BY <1>1 DEF End, TypeOK
  <1>3. /\ state' \in [Procs -> {"idle", "run", "left", "dead"}] /\ state'[p] = how
        /\ \A r \in Procs : r # p => state'[r] = state[r]
    BY DEF End, TypeOK
  <1>4. QED
    BY <1>2, <1>3 DEF End, Ends

LEMMA StepKinds ==
    ASSUME TypeOK, InCode, [Next]_vars
    PROVE  \/ UNCHANGED vars
           \/ \E p \in Procs : Starts(p) \/ Types(p) \/ Gets(p) \/ Passes(p) \/ Ends(p)
           \/ \E p \in Procs, q \in Procs : \E m \in Datagrams : Puts(p, q, m) \/ Loses(p, q, m)
  <1>1. ASSUME NEW p \in Procs, Start(p) PROVE Starts(p)
    BY <1>1 DEF Start, Starts, TypeOK
  <1>2. ASSUME NEW p \in Procs, Type(p) PROVE Types(p) \/ Ends(p)
    <2>1. CASE End(p, "dead") /\ UNCHANGED line
      BY <1>2, <2>1, EndEnds DEF Type, At
    <2>2. CASE /\ \E l \in {"word", "text"} : line' = [line EXCEPT ![p] = TypedAs(l)]
               /\ Advance(p) /\ UNCHANGED <<state, inbox, lost>>
      <3>1. PICK l \in {"word", "text"} : line' = [line EXCEPT ![p] = TypedAs(l)]
        BY <2>2
      <3>2. TypedAs(l) \in Texts
        BY DEF TypedAs, Texts
      <3>3. line'[p] \in Texts /\ line' \in [Procs -> Texts \cup {""}]
            /\ \A r \in Procs : r # p => line'[r] = line[r]
        BY <3>1, <3>2 DEF TypeOK
      <3>4. QED
        BY <1>2, <2>2, <3>3, AdvanceWalks DEF Type, Types
    <2>3. QED
      BY <1>2, <2>1, <2>2 DEF Type
  <1>3. ASSUME NEW p \in Procs, Hello(p)
        PROVE  \E m \in Datagrams : Puts(p, Server, m) \/ Loses(p, Server, m)
    <2>1. p \in Clients
      <3>1. p # Server
        BY <1>3, Tables DEF Hello, At, ServerTable, InCode
      <3>2. QED
        BY <3>1 DEF Procs
    <2>2. Writes(p, Server, [from |-> p, text |-> "text"])
      BY <1>3, <2>1 DEF Hello, Writes, Datagrams, Texts
    <2>3. QED
      BY <1>3, <2>2, Tables, SendToKinds DEF Hello
  <1>4. ASSUME NEW p \in Procs, Send(p)
        PROVE  \E m \in Datagrams : Puts(p, Server, m) \/ Loses(p, Server, m)
    <2>1. p \in Clients /\ line[p] \in Texts
      <3>1. p # Server
        BY <1>4, Tables DEF Send, At, ServerTable, InCode
      <3>2. QED
        BY <1>4, <3>1 DEF Procs, Send, At, InCode
    <2>2. Writes(p, Server, [from |-> p, text |-> line[p]])
      BY <1>4, <2>1 DEF Send, Writes, Datagrams
    <2>3. QED
      BY <1>4, <2>2, Tables, SendToKinds DEF Send
  <1>5. ASSUME Say PROVE \E m \in Datagrams : Puts(Server, addr, m) \/ Loses(Server, addr, m)
    <2> DEFINE x == IF lab = "reply" THEN line[Server] ELSE "text"
    <2>1. x \in Texts /\ Server \in Procs /\ addr \in Procs
      BY <1>5, Tables DEF Say, At, InCode, Texts, TypeOK
    <2>2. Writes(Server, addr, [from |-> Server, text |-> x])
      BY <1>5, <2>1 DEF Say, Writes, Datagrams
    <2>3. SendTo(Server, addr, x) /\ Advance(Server) /\ UNCHANGED <<lab, state, line, got, addr>>
      BY <1>5 DEF Say
    <2> HIDE DEF x
    <2>4. QED
      BY <2>1, <2>2, <2>3, SendToKinds
  <1>6. ASSUME NEW p \in Procs, Recv(p) PROVE Gets(p)
    <2>1. /\ inbox[p] # <<>> /\ inbox' = [inbox EXCEPT ![p] = Tail(@)]
          /\ got' = [got EXCEPT ![p] = Received(Head(inbox[p]).text)]
          /\ addr' = IF At(p, "from") THEN Head(inbox[p]).from ELSE addr
      BY <1>6 DEF Recv
    <2>2. inbox[p] \in Seq(Datagrams) /\ Len(inbox[p]) \in Nat \ {0}
      BY <2>1, Boxes
    <2>3. Head(inbox[p]) = inbox[p][1] /\ inbox[p][1] \in Datagrams
      BY <2>2, Boxes
    <2>4. /\ Tail(inbox[p]) \in Seq(Datagrams) /\ Len(Tail(inbox[p])) = Len(inbox[p]) - 1
          /\ \A i \in 1..Len(Tail(inbox[p])) : Tail(inbox[p])[i] = inbox[p][i + 1]
      BY <2>1, <2>2, HeadTailProperties
    <2>5. /\ inbox' \in [Procs -> Seq(Datagrams)] /\ inbox'[p] = Tail(inbox[p])
          /\ \A r \in Procs : r # p => inbox'[r] = inbox[r]
      <3>1. inbox' = [inbox EXCEPT ![p] = Tail(inbox[p])] /\ inbox \in [Procs -> Seq(Datagrams)]
        BY <2>1 DEF TypeOK
      <3>2. QED
        BY <2>4, <3>1
    <2>6. Shrinks(p)
      BY <2>2, <2>4, <2>5 DEF Shrinks
    <2>7. Received(inbox[p][1].text) \in Texts
      BY <2>3 DEF Received, Datagrams, Texts
    <2>8. /\ got'[p] = Received(inbox[p][1].text) /\ got' \in [Procs -> Texts \cup {""}]
          /\ \A r \in Procs : r # p => got'[r] = got[r]
      <3>1. got' = [got EXCEPT ![p] = Received(inbox[p][1].text)] /\ got \in [Procs -> Texts \cup {""}]
        BY <2>1, <2>3 DEF TypeOK
      <3>2. QED
        BY <2>7, <3>1
    <2>9. Walks(p) /\ (At(p, "recv") \/ At(p, "from")) /\ UNCHANGED <<lab, state, line, lost>>
      BY <1>6, AdvanceWalks DEF Recv
    <2>10. QED
      BY <2>1, <2>3, <2>6, <2>8, <2>9 DEF Gets
  <1>7. ASSUME NEW p \in Procs, Test(p) PROVE Passes(p) \/ Ends(p)
    <2>1. CASE "word" \in {line[p], got[p]}
      BY <1>7, <2>1, EndEnds DEF Test, At
    <2>2. CASE "word" \notin {line[p], got[p]}
      BY <1>7, <2>2, AdvanceWalks DEF Test, Passes
    <2>3. QED
      BY <2>1, <2>2
  <1>8. ASSUME NEW p \in Procs, Exit(p) PROVE Ends(p)
    BY <1>8, EndEnds DEF Exit, At
  <1>9. ASSUME NEW p \in Procs, Kill(p) PROVE Ends(p)
    BY <1>9, EndEnds DEF Kill
  <1>10. Server \in Procs /\ addr \in Procs
    BY Tables DEF TypeOK
  <1>11. QED
    BY <1>1, <1>2, <1>3, <1>4, <1>5, <1>6, <1>7, <1>8, <1>9, <1>10 DEF Next, Work

LEMMA BoxesNext ==
    ASSUME inbox' \in [Procs -> Seq(Datagrams)], NEW p \in Procs
    PROVE  /\ Len(inbox'[p]) \in Nat /\ DOMAIN inbox'[p] = 1..Len(inbox'[p])
           /\ inbox'[p] = <<>> <=> Len(inbox'[p]) = 0
           /\ \A n \in 1..Len(inbox'[p]) : inbox'[p][n] \in Datagrams
  <1>1. inbox'[p] \in Seq(Datagrams)
    OBVIOUS
  <1>2. QED
    BY <1>1, LenProperties, EmptySeq, ElementOfSeq

(* The calls before "send", before the server's "say" of the reply, and    *)
(* before a client's "recv".                                               *)
LEMMA Before ==
    ASSUME TypeOK, InCode, NEW p \in Procs
    PROVE  /\ Prog(p).code[NextPc(p)] = "send" => Prog(p).code[pc[p]] = "type"
           /\ lab = "reply" /\ Prog(p).code[NextPc(p)] = "say" => Prog(p).code[pc[p]] = "type"
           /\ p \in Clients /\ Prog(p).code[NextPc(p)] = "recv"
                 => Prog(p).code[pc[p]] \in {"hello", "send"}
  <1> DEFINE n == NextPc(p)
  <1>1. /\ n \in 1..Len(Prog(p).code) /\ pc[p] \in 1..10
        /\ n > 1 => n - 1 = pc[p]
    BY Calls
  <1>2. CASE p \in Clients
    <2>1. ClientTable(Prog(p), lab)
      BY <1>2, Tables
    <2> HIDE DEF n
    <2>2. /\ Prog(p).code[n] \in {"hello", "recv", "exit", "type", "send", "test"}
          /\ Prog(p).code[n] = "send" => n > 1 /\ Prog(p).code[n - 1] = "type"
          /\ Prog(p).code[n] = "recv" => n > 1 /\ Prog(p).code[n - 1] \in {"hello", "send"}
      BY <1>1, <2>1 DEF ClientTable
    <2>3. QED
      BY <1>1, <2>2 DEF n
  <1>3. CASE p = Server
    <2>1. ServerTable(Prog(p), lab) /\ p \notin Clients
      BY <1>3, Tables
    <2> HIDE DEF n
    <2>2. /\ Prog(p).code[n] \in {"from", "say", "recv", "type", "test", "exit"}
          /\ lab = "reply" /\ Prog(p).code[n] = "say" => n > 1 /\ Prog(p).code[n - 1] = "type"
      BY <1>1, <2>1 DEF ServerTable
    <2>3. QED
      BY <1>1, <2>1, <2>2 DEF n
  <1>4. QED
    BY <1>2, <1>3 DEF Procs

-----------------------------------------------------------------------------
(* Types *)
LEMMA StepTypeOK ==
    ASSUME TypeOK, InCode, FromClients, [Next]_vars
    PROVE  TypeOK'
  <1>a. Server \in Procs /\ \A c \in Clients : c \in Procs
    BY Tables
  <1>b. Buf \in Nat
    BY DatagramLabsAssumption
  <1>0. CASE UNCHANGED vars
    BY <1>0 DEF vars, TypeOK
  <1>1. ASSUME NEW p \in Procs, Starts(p) PROVE TypeOK'
    BY <1>1 DEF Starts, TypeOK
  <1>2. ASSUME NEW p \in Procs, Types(p) PROVE TypeOK'
    BY <1>2 DEF Types, Walks, TypeOK
  <1>3. ASSUME NEW p \in Procs, Gets(p) PROVE TypeOK'
    <2>1. \A r \in Procs : Len(inbox'[r]) <= Buf
      <3>1. /\ Len(inbox[p]) \in Nat \ {0} /\ Len(inbox'[p]) = Len(inbox[p]) - 1
            /\ \A r \in Procs : r # p => inbox'[r] = inbox[r]
        BY <1>3 DEF Gets, Shrinks
      <3>2. PICK k \in Nat \ {0} : k = Len(inbox[p]) /\ k <= Buf
        BY <3>1 DEF TypeOK
      <3>3. Len(inbox'[p]) = k - 1
        BY <3>1, <3>2
      <3>4. Len(inbox'[p]) <= Buf
        BY <1>b, <3>2, <3>3
      <3>5. QED
        BY <3>1, <3>4 DEF TypeOK
    <2>2. addr' \in Procs
      BY <1>3 DEF Gets, Datagrams, TypeOK
    <2>3. /\ pc' \in [Procs -> 1..10] /\ inbox' \in [Procs -> Seq(Datagrams)]
          /\ got' \in [Procs -> Texts \cup {""}] /\ UNCHANGED <<lab, state, line, lost>>
      BY <1>3 DEF Gets, Shrinks, Walks
    <2>4. QED
      BY <2>1, <2>2, <2>3 DEF TypeOK
  <1>4. ASSUME NEW p \in Procs, Passes(p) PROVE TypeOK'
    BY <1>4 DEF Passes, Walks, TypeOK
  <1>5. ASSUME NEW p \in Procs, Ends(p) PROVE TypeOK'
    <2>1. Parties(p) \subseteq Clients
      <3>1. CASE p = Server
        <4>1. DOMAIN inbox[Server] = 1..Len(inbox[Server])
          BY <1>a, Boxes
        <4>2. QED
          BY <3>1, <4>1 DEF Parties, FromClients
      <3>2. CASE p # Server
        BY <3>2 DEF Parties, Procs
      <3>3. QED
        BY <3>1, <3>2
    <2>2. Len(<<>>) = 0
      BY EmptySeq
    <2>a. inbox'[p] = <<>> /\ \A r \in Procs : r # p => inbox'[r] = inbox[r]
      BY <1>5 DEF Ends
    <2>b. Len(inbox'[p]) <= Buf
      <3>1. Len(inbox'[p]) = 0
        BY <2>2, <2>a
      <3>2. QED
        BY <1>b, <3>1
    <2>3. \A r \in Procs : Len(inbox'[r]) <= Buf
      BY <2>a, <2>b DEF TypeOK
    <2>4. /\ state' \in [Procs -> {"idle", "run", "left", "dead"}]
          /\ inbox' \in [Procs -> Seq(Datagrams)] /\ lost' = lost \cup Parties(p)
          /\ UNCHANGED <<lab, pc, line, got, addr>>
      BY <1>5 DEF Ends
    <2>5. QED
      BY <2>1, <2>3, <2>4 DEF TypeOK
  <1>6. ASSUME NEW p \in Procs, NEW q \in Procs, NEW m \in Datagrams, Puts(p, q, m) PROVE TypeOK'
    <2>1. /\ inbox' \in [Procs -> Seq(Datagrams)] /\ pc' \in [Procs -> 1..10]
          /\ Len(inbox'[q]) <= Buf /\ \A r \in Procs : r # q => inbox'[r] = inbox[r]
          /\ UNCHANGED <<lab, state, line, got, addr, lost>>
      BY <1>6 DEF Puts, Grows, Walks
    <2>2. \A r \in Procs : Len(inbox'[r]) <= Buf
      BY <2>1 DEF TypeOK
    <2>3. QED
      BY <2>1, <2>2 DEF TypeOK
  <1>7. ASSUME NEW p \in Procs, NEW q \in Procs, NEW m \in Datagrams, Loses(p, q, m) PROVE TypeOK'
    BY <1>7 DEF Loses, Walks, TypeOK
  <1>8. QED
    BY <1>0, <1>1, <1>2, <1>3, <1>4, <1>5, <1>6, <1>7, StepKinds

(* Every step of one process leaves the calls of the others alone. *)
LEMMA StepInCode ==
    ASSUME TypeOK, InCode, [Next]_vars
    PROVE  InCode'
  <1>0. ASSUME UNCHANGED <<lab, pc, line>> PROVE InCode'
    BY <1>0 DEF InCode, Prog
  <1>1. ASSUME NEW p \in Procs, Walks(p), lab' = lab,
               \A r \in Procs : r # p => line'[r] = line[r],
               Prog(p).code[pc[p]] = "type" => line'[p] \in Texts
        PROVE  InCode'
    <2>1. \A r \in Procs : Prog(r)' = Prog(r)
      BY <1>1 DEF Prog
    <2>2. pc'[p] = NextPc(p) /\ NextPc(p) \in 1..Len(Prog(p).code)
      BY <1>1, Calls DEF Walks
    <2>3. /\ Prog(p).code[NextPc(p)] = "send" => line'[p] \in Texts
          /\ lab = "reply" /\ Prog(p).code[NextPc(p)] = "say" => line'[p] \in Texts
      BY <1>1, Before
    <2>4. QED
      BY <1>1, <2>1, <2>2, <2>3 DEF InCode, Walks
  <1>2. ASSUME NEW p \in Procs, Starts(p) \/ Ends(p) PROVE InCode'
    BY <1>0, <1>2 DEF Starts, Ends
  <1>3. ASSUME NEW p \in Procs, Types(p) PROVE InCode'
    BY <1>1, <1>3 DEF Types
  <1>4. ASSUME NEW p \in Procs, Gets(p) \/ Passes(p) PROVE InCode'
    BY <1>1, <1>4 DEF Gets, Passes, At
  <1>5. ASSUME NEW p \in Procs, NEW q \in Procs, NEW m \in Datagrams, Puts(p, q, m) \/ Loses(p, q, m)
        PROVE  InCode'
    BY <1>1, <1>5 DEF Puts, Loses, Writes, At
  <1>6. QED
    BY <1>0, <1>2, <1>3, <1>4, <1>5, StepKinds DEF vars

(* What is under way to the server from a client. *)
LEMMA UnderwayFacts ==
    ASSUME TypeOK, NEW c \in Clients
    PROVE  /\ Underway(c) <=> \E n \in 1..Len(inbox[Server]) : inbox[Server][n].from = c
           /\ inbox'[Server] = inbox[Server] => (Underway(c)' <=> Underway(c))
           /\ \A p, q \in Procs : \A m \in Datagrams : Puts(p, q, m) =>
                 /\ Underway(c) => Underway(c)'
                 /\ q = Server /\ p = c => Underway(c)'
                 /\ Underway(c)' => Underway(c) \/ p = c
           /\ \A p \in Procs : Gets(p) =>
                 /\ Underway(c) => Underway(c)' \/ (p = Server /\ inbox[Server][1].from = c)
                 /\ Underway(c)' => Underway(c)
           /\ \A p \in Procs : Ends(p) =>
                 /\ Underway(c) => Underway(c)' \/ (p = Server /\ c \in lost')
                 /\ Underway(c)' => Underway(c)
  <1>a. Server \in Procs
    BY Tables
  <1>b. DOMAIN inbox[Server] = 1..Len(inbox[Server]) /\ Len(inbox[Server]) \in Nat
    BY <1>a, Boxes
  <1>1. Underway(c) <=> \E n \in 1..Len(inbox[Server]) : inbox[Server][n].from = c
    BY <1>b DEF Underway
  <1>2. inbox'[Server] = inbox[Server] => (Underway(c)' <=> Underway(c))
    BY DEF Underway
  <1>3. ASSUME inbox' \in [Procs -> Seq(Datagrams)]
        PROVE  /\ Len(inbox'[Server]) \in Nat
               /\ Underway(c)' <=> \E n \in 1..Len(inbox'[Server]) : inbox'[Server][n].from = c
    <2>1. DOMAIN inbox'[Server] = 1..Len(inbox'[Server]) /\ Len(inbox'[Server]) \in Nat
      BY <1>3, <1>a, BoxesNext
    <2>2. QED
      BY <2>1 DEF Underway
  <1>4. ASSUME NEW p \in Procs, NEW q \in Procs, NEW m \in Datagrams, Puts(p, q, m)
        PROVE  /\ Underway(c) => Underway(c)'
               /\ q = Server /\ p = c => Underway(c)'
               /\ Underway(c)' => Underway(c) \/ p = c
    <2>1. m.from = p /\ Grows(q, m)
      BY <1>4 DEF Puts, Writes
    <2>2. CASE q # Server
      <3>1. inbox'[Server] = inbox[Server]
        BY <1>a, <2>1, <2>2 DEF Grows
      <3>2. QED
        BY <1>2, <2>2, <3>1
    <2>3. CASE q = Server
      <3>1. PICK k \in Nat : k = Len(inbox[Server])
        BY <1>b
      <3>2. /\ inbox' \in [Procs -> Seq(Datagrams)] /\ Len(inbox'[Server]) = k + 1
            /\ inbox'[Server][k + 1] = m /\ \A i \in 1..k : inbox'[Server][i] = inbox[Server][i]
        BY <2>1, <2>3, <3>1 DEF Grows
      <3>3. Underway(c)' <=> \E n \in 1..(k + 1) : inbox'[Server][n].from = c
        BY <1>3, <3>2
      <3>4. Underway(c) <=> \E n \in 1..k : inbox[Server][n].from = c
        BY <1>1, <3>1
      <3>5. \A n \in 1..(k + 1) : n \in 1..k \/ n = k + 1
        OBVIOUS
      <3>6. \A n \in 1..k : n \in 1..(k + 1)
        OBVIOUS
      <3>7. k + 1 \in 1..(k + 1)
        OBVIOUS
      <3>8. QED
        BY <2>1, <3>2, <3>3, <3>4, <3>5, <3>6, <3>7
    <2>4. QED
      BY <2>2, <2>3
  <1>5. ASSUME NEW p \in Procs, Gets(p)
        PROVE  /\ Underway(c) => Underway(c)' \/ (p = Server /\ inbox[Server][1].from = c)
               /\ Underway(c)' => Underway(c)
    <2>1. Shrinks(p)
      BY <1>5 DEF Gets
    <2>2. CASE p # Server
      <3>1. inbox'[Server] = inbox[Server]
        BY <1>a, <2>1, <2>2 DEF Shrinks
      <3>2. QED
        BY <1>2, <3>1
    <2>3. CASE p = Server
      <3>1. PICK k \in Nat \ {0} : k = Len(inbox[Server])
        BY <2>1, <2>3 DEF Shrinks
      <3>2. /\ inbox' \in [Procs -> Seq(Datagrams)] /\ Len(inbox'[Server]) = k - 1
            /\ \A i \in 1..(k - 1) : inbox'[Server][i] = inbox[Server][i + 1]
        BY <2>1, <2>3, <3>1 DEF Shrinks
      <3>3. Underway(c)' <=> \E n \in 1..(k - 1) : inbox'[Server][n].from = c
        BY <1>3, <3>2
      <3>4. Underway(c) <=> \E n \in 1..k : inbox[Server][n].from = c
        BY <1>1, <3>1
      <3>5. \A n \in 1..k : n = 1 \/ (n - 1 \in 1..(k - 1) /\ (n - 1) + 1 = n)
        OBVIOUS
      <3>6. \A n \in 1..(k - 1) : n + 1 \in 1..k
        OBVIOUS
      <3>7. ASSUME NEW n \in 1..k, inbox[Server][n].from = c, n # 1 PROVE Underway(c)'
        <4>1. n - 1 \in 1..(k - 1) /\ inbox'[Server][n - 1] = inbox[Server][n]
          BY <3>2, <3>5, <3>7
        <4>2. QED
          BY <3>3, <3>7, <4>1
      <3>8. QED
        BY <2>3, <3>2, <3>3, <3>4, <3>6, <3>7
    <2>4. QED
      BY <2>2, <2>3
  <1>6. ASSUME NEW p \in Procs, Ends(p)
        PROVE  /\ Underway(c) => Underway(c)' \/ (p = Server /\ c \in lost')
               /\ Underway(c)' => Underway(c)
    <2>1. CASE p # Server
      <3>1. inbox'[Server] = inbox[Server]
        BY <1>6, <1>a, <2>1 DEF Ends
      <3>2. QED
        BY <1>2, <3>1
    <2>2. CASE p = Server
      <3>1. inbox'[Server] = <<>> /\ inbox' \in [Procs -> Seq(Datagrams)]
        BY <1>6, <2>2 DEF Ends
      <3>2. ~Underway(c)'
        <4>1. Len(inbox'[Server]) = 0
          BY <1>a, <3>1, BoxesNext
        <4>2. QED
          BY <1>3, <3>1, <4>1
      <3>3. Underway(c) => c \in lost'
        BY <1>6, <2>2 DEF Ends, Parties, Underway
      <3>4. QED
        BY <2>2, <3>2, <3>3
    <2>3. QED
      BY <2>1, <2>2
  <1>7. QED
    BY <1>1, <1>2, <1>4, <1>5, <1>6

(* The call a program is at, and the one the server comes to. *)
LEMMA Current ==
    ASSUME TypeOK, InCode
    PROVE  /\ Prog(Server).code[pc[Server]] \in {"from", "say", "recv", "type", "test", "exit"}
           /\ pc[Server] = 1 => Prog(Server).code[pc[Server]] = "from"
           /\ lab # "steps" => Prog(Server).code[pc[Server]] # "recv"
           /\ lab = "steps" => Prog(Server).code[pc[Server]] # "type"
           /\ lab \in {"answer", "greet", "reply"} /\ Prog(Server).code[pc[Server]] \in {"from", "type"}
                 => Prog(Server).code[NextPc(Server)] \in {"type", "say"}
           /\ \A c \in Clients :
                 /\ Prog(c).code[pc[c]] \in {"hello", "recv", "exit", "type", "send", "test"}
                 /\ pc[c] = 1 => Prog(c).code[pc[c]] \in {"hello", "type"}
                 /\ lab \in {"chat", "bye"} => Prog(c).code[pc[c]] # "recv"
  <1>a. Server \in Procs /\ ServerTable(Prog(Server), lab) /\ lab \in DOMAIN Lab
    BY Tables, DatagramLabsAssumption DEF TypeOK
  <1>b. /\ pc[Server] \in 1..Len(Prog(Server).code) /\ Len(Prog(Server).code) \in Nat
        /\ NextPc(Server) = IF pc[Server] = Len(Prog(Server).code) THEN 1 ELSE pc[Server] + 1
    BY <1>a, Calls
  <1>2. /\ Prog(Server).code[pc[Server]] \in {"from", "say", "recv", "type", "test", "exit"}
        /\ pc[Server] = 1 => Prog(Server).code[pc[Server]] = "from"
        /\ lab # "steps" => Prog(Server).code[pc[Server]] # "recv"
        /\ lab = "steps" => Prog(Server).code[pc[Server]] # "type"
    BY <1>a, <1>b DEF ServerTable
  <1>3. ASSUME lab \in {"answer", "greet", "reply"}, Prog(Server).code[pc[Server]] \in {"from", "type"}
        PROVE  Prog(Server).code[NextPc(Server)] \in {"type", "say"}
    <2>1. pc[Server] + 1 <= Len(Prog(Server).code) /\ Prog(Server).code[pc[Server] + 1] \in {"type", "say"}
      BY <1>a, <1>b, <1>3 DEF ServerTable
    <2>2. NextPc(Server) = pc[Server] + 1
      BY <1>b, <2>1
    <2>3. QED
      BY <2>1, <2>2
  <1>4. ASSUME NEW c \in Clients
        PROVE  /\ Prog(c).code[pc[c]] \in {"hello", "recv", "exit", "type", "send", "test"}
               /\ pc[c] = 1 => Prog(c).code[pc[c]] \in {"hello", "type"}
               /\ lab \in {"chat", "bye"} => Prog(c).code[pc[c]] # "recv"
    <2>1. ClientTable(Prog(c), lab) /\ pc[c] \in 1..Len(Prog(c).code)
      BY Tables, Calls
    <2>2. QED
      BY <2>1 DEF ClientTable
  <1>5. QED
    BY <1>2, <1>3, <1>4

(* Every step but the start of a process is one of a process that runs. *)
LEMMA StepQuiet ==
    ASSUME TypeOK, InCode, Quiet, [Next]_vars
    PROVE  Quiet'
  <1>a. Server \in Procs /\ \A c \in Clients : c \in Procs /\ c # Server
    BY Tables
  <1>0. CASE UNCHANGED vars
    BY <1>0 DEF vars, Quiet, Runs, Underway
  <1>1. ASSUME NEW p \in Procs, Starts(p) PROVE Quiet'
    BY <1>1, <1>a DEF Starts, Quiet, Runs, Underway
  <1>2. ASSUME NEW p \in Procs, Runs(p), Walks(p), UNCHANGED <<state, inbox, addr>> PROVE Quiet'
    BY <1>2, <1>a DEF Walks, Quiet, Runs, Underway
  <1>3. ASSUME NEW p \in Procs, Gets(p) PROVE Quiet'
    <2>1. /\ Runs(p) /\ state' = state /\ \A r \in Procs : r # p => inbox'[r] = inbox[r]
          /\ \A r \in Procs : r # p => pc'[r] = pc[r]
      BY <1>3 DEF Gets, Shrinks, Walks, At
    <2>2. ASSUME NEW c \in Clients, state[c] = "idle" PROVE addr' # c /\ ~Underway(c)'
      <3>1. addr # c /\ ~Underway(c)
        BY <2>2 DEF Quiet
      <3>2. ~Underway(c)'
        BY <1>3, <3>1, UnderwayFacts
      <3>3. CASE At(p, "from")
        <4>1. p = Server
          BY <3>3, Current DEF Procs, At
        <4>2. 1 \in 1..Len(inbox[Server])
          BY <1>3, <4>1, TheFirst DEF Gets
        <4>3. inbox[Server][1].from # c
          BY <3>1, <4>2, UnderwayFacts
        <4>4. QED
          BY <1>3, <3>2, <3>3, <4>1, <4>3 DEF Gets
      <3>4. CASE ~At(p, "from")
        BY <1>3, <3>1, <3>2, <3>4 DEF Gets
      <3>5. QED
        BY <3>3, <3>4
    <2>3. QED
      BY <1>a, <2>1, <2>2 DEF Quiet, Runs
  <1>4. ASSUME NEW p \in Procs, Ends(p) PROVE Quiet'
    <2>1. /\ Runs(p) /\ state'[p] # "idle" /\ \A r \in Procs : r # p => state'[r] = state[r]
          /\ inbox'[p] = <<>> /\ \A r \in Procs : r # p => inbox'[r] = inbox[r]
          /\ pc' = pc /\ addr' = addr
      BY <1>4 DEF Ends
    <2>2. \A c \in Clients : Underway(c)' => Underway(c)
      BY <1>4, UnderwayFacts
    <2>3. QED
      BY <1>a, <2>1, <2>2 DEF Quiet, Runs
  <1>5. ASSUME NEW p \in Procs, NEW q \in Procs, NEW m \in Datagrams, Puts(p, q, m) PROVE Quiet'
    <2>1. /\ Runs(p) /\ Runs(q) /\ state' = state /\ \A r \in Procs : r # q => inbox'[r] = inbox[r]
          /\ \A r \in Procs : r # p => pc'[r] = pc[r]
          /\ addr' = addr
      BY <1>5 DEF Puts, Writes, Grows, Walks, At
    <2>2. \A c \in Clients : Underway(c)' => Underway(c) \/ p = c
      BY <1>5, UnderwayFacts
    <2>3. QED
      BY <1>a, <2>1, <2>2 DEF Quiet, Runs
  <1>6. ASSUME NEW p \in Procs, NEW q \in Procs, NEW m \in Datagrams, Loses(p, q, m) PROVE Quiet'
    BY <1>2, <1>6 DEF Loses, Writes, At
  <1>7. ASSUME NEW p \in Procs, Types(p) \/ Passes(p) PROVE Quiet'
    BY <1>2, <1>7 DEF Types, Passes, At
  <1>8. QED
    BY <1>0, <1>1, <1>3, <1>4, <1>5, <1>6, <1>7, StepKinds

(* The server says nothing before it has an address: what comes to it is   *)
(* of clients.                                                             *)
LEMMA StepFromClients ==
    ASSUME TypeOK, InCode, FromClients, [Next]_vars
    PROVE  FromClients'
  <1>a. Server \in Procs /\ \A c \in Clients : c \in Procs /\ c # Server
    BY Tables
  <1>b. pc[Server] = 1 => Prog(Server).code[pc[Server]] = "from"
    BY Current
  <1>c. lab = "steps" /\ NextPc(Server) = 1 => Prog(Server).code[pc[Server]] = "exit"
    <2>1. ASSUME lab = "steps", NextPc(Server) = 1 PROVE Prog(Server).code[pc[Server]] = "exit"
      <3>1. StepsServer.code = Frame("from", "say", "recv", "exit") /\ Prog(Server) = StepsServer
        BY <2>1 DEF StepsServer, Program, Frame, Prog, Lab, Exercise
      <3>2. Len(Prog(Server).code) = 10 /\ Prog(Server).code[10] = "exit"
        BY <3>1, InFrame
      <3>3. pc[Server] \in 1..10 /\ NextPc(Server) = IF pc[Server] = 10 THEN 1 ELSE pc[Server] + 1
        BY <1>a, <3>2, Calls
      <3>4. pc[Server] = 10
        BY <2>1, <3>3
      <3>5. QED
        BY <3>2, <3>4
    <2>2. QED
      BY <2>1
  <1>d. NextPc(Server) = IF pc[Server] = Len(Prog(Server).code) THEN 1 ELSE pc[Server] + 1
    BY <1>a, Calls
  <1> DEFINE Of(b) == \A n \in 1..Len(b) : b[n].from \in Clients
             Known(a, n) == /\ a = Server => n = 1
                            /\ lab = "steps" /\ n = 1 => a = Server
  <1>e. /\ FromClients <=> Of(inbox[Server]) /\ Known(addr, pc[Server])
        /\ lab' = lab => (FromClients' <=> Of(inbox'[Server]) /\ Known(addr', pc'[Server]))
    BY DEF FromClients
  <1> HIDE DEF Of
  <1>f. \A p \in Procs : \A x \in {"say", "type", "test", "recv", "hello", "send"} :
           At(p, x) /\ Walks(p) => Known(addr, pc'[Server])
    <2> SUFFICES ASSUME NEW p \in Procs, NEW x \in {"say", "type", "test", "recv", "hello", "send"},
                        At(p, x), Walks(p)
                 PROVE  Known(addr, pc'[Server])
      OBVIOUS
    <2>1. CASE p = Server
      <3>1. pc'[Server] = NextPc(Server) /\ Prog(Server).code[pc[Server]] = x
        BY <2>1 DEF Walks, At
      <3>2. pc[Server] # 1 /\ addr # Server
        BY <1>b, <1>e, <3>1
      <3>3. lab = "steps" => NextPc(Server) # 1
        BY <1>c, <3>1
      <3>4. QED
        BY <3>1, <3>2, <3>3
    <2>2. CASE p # Server
      BY <1>a, <1>e, <2>2 DEF Walks
    <2>3. QED
      BY <2>1, <2>2
  <1>0. ASSUME UNCHANGED <<lab, inbox, addr, pc>> PROVE FromClients'
    BY <1>0, <1>e
  <1>1. ASSUME NEW p \in Procs, Starts(p) PROVE FromClients'
    BY <1>0, <1>1 DEF Starts
  <1>2. ASSUME NEW p \in Procs, Types(p) \/ Passes(p) PROVE FromClients'
    BY <1>2, <1>e, <1>f DEF Types, Passes
  <1>3. ASSUME NEW p \in Procs, Gets(p) PROVE FromClients'
    <2>1. Of(inbox'[Server])
      <3>1. CASE p = Server
        <4>1. PICK k \in Nat \ {0} : k = Len(inbox[Server])
          BY <1>3, <3>1 DEF Gets, Shrinks
        <4>2. /\ Len(inbox'[Server]) = k - 1
              /\ \A i \in 1..(k - 1) : inbox'[Server][i] = inbox[Server][i + 1]
          BY <1>3, <3>1, <4>1 DEF Gets, Shrinks
        <4>3. \A i \in 1..(k - 1) : i + 1 \in 1..k
          OBVIOUS
        <4>4. QED
          BY <1>e, <4>1, <4>2, <4>3 DEF Of
      <3>2. CASE p # Server
        BY <1>3, <1>a, <1>e, <3>2 DEF Gets, Shrinks
      <3>3. QED
        BY <3>1, <3>2
    <2>2. Known(addr', pc'[Server])
      <3>1. CASE At(p, "from")
        <4>1. p = Server
          BY <3>1, Current DEF Procs, At
        <4>2. 1 \in 1..Len(inbox[Server])
          BY <1>3, <4>1, TheFirst DEF Gets
        <4>3. addr' \in Clients
          BY <1>3, <1>e, <3>1, <4>1, <4>2 DEF Gets, Of
        <4>4. pc'[Server] = NextPc(Server) /\ Prog(Server).code[pc[Server]] = "from"
          BY <1>3, <3>1, <4>1 DEF Gets, Walks, At
        <4>5. lab = "steps" => NextPc(Server) # 1
          BY <1>c, <4>4
        <4>6. QED
          BY <1>a, <4>3, <4>4, <4>5
      <3>2. CASE ~At(p, "from")
        BY <1>3, <1>f, <3>2 DEF Gets
      <3>3. QED
        BY <3>1, <3>2
    <2>3. QED
      BY <1>3, <1>e, <2>1, <2>2 DEF Gets
  <1>4. ASSUME NEW p \in Procs, Ends(p) PROVE FromClients'
    <2>1. CASE p = Server
      <3>1. inbox'[Server] = <<>> /\ UNCHANGED <<lab, addr, pc>>
        BY <1>4, <2>1 DEF Ends
      <3>2. Of(<<>>)
        BY EmptySeq DEF Of
      <3>3. QED
        BY <1>e, <3>1, <3>2
    <2>2. CASE p # Server
      BY <1>4, <1>a, <1>e, <2>2 DEF Ends
    <2>3. QED
      BY <2>1, <2>2
  <1>5. ASSUME NEW p \in Procs, NEW q \in Procs, NEW m \in Datagrams, Puts(p, q, m) PROVE FromClients'
    <2>1. Of(inbox'[Server])
      <3>1. CASE q = Server
        <4>1. p \in Clients
          BY <1>5, <1>b, <1>e, <3>1 DEF Puts, Writes, At
        <4>2. PICK k \in Nat : k = Len(inbox[Server])
          BY <1>a, Boxes
        <4>3. /\ Len(inbox'[Server]) = k + 1 /\ inbox'[Server][k + 1] = m
              /\ \A i \in 1..k : inbox'[Server][i] = inbox[Server][i]
              /\ m.from = p
          BY <1>5, <3>1, <4>2 DEF Puts, Grows, Writes
        <4>4. \A n \in 1..(k + 1) : n \in 1..k \/ n = k + 1
          OBVIOUS
        <4>5. QED
          BY <1>e, <4>1, <4>2, <4>3, <4>4 DEF Of
      <3>2. CASE q # Server
        BY <1>5, <1>a, <1>e, <3>2 DEF Puts, Grows
      <3>3. QED
        BY <3>1, <3>2
    <2>2. Known(addr, pc'[Server])
      BY <1>5, <1>f DEF Puts, Writes
    <2>3. QED
      BY <1>5, <1>e, <2>1, <2>2 DEF Puts
  <1>6. ASSUME NEW p \in Procs, NEW q \in Procs, NEW m \in Datagrams, Loses(p, q, m) PROVE FromClients'
    <2>1. Known(addr, pc'[Server])
      BY <1>6, <1>f DEF Loses, Writes
    <2>2. QED
      BY <1>6, <1>e, <2>1 DEF Loses
  <1>7. QED
    BY <1>0, <1>1, <1>2, <1>3, <1>4, <1>5, <1>6, StepKinds DEF vars

(* What the programs of p3 do at each call, and how far they are there. *)
LEMMA StepsCalls ==
    ASSUME TypeOK, InCode, lab = "steps"
    PROVE  /\ pc[Server] \in 1..10 /\ NextPc(Server) = IF pc[Server] = 10 THEN 1 ELSE pc[Server] + 1
           /\ Prog(Server).code[pc[Server]] \in {"from", "say", "recv", "exit"}
           /\ Prog(Server).code[pc[Server]] = "from" => pc[Server] = 1
           /\ Prog(Server).code[pc[Server]] = "say" => pc[Server] \in {2, 4, 6, 8}
           /\ Prog(Server).code[pc[Server]] = "recv" => pc[Server] \in {3, 5, 7, 9}
           /\ pc[Server] \in {1, 3, 5, 7} => Prog(Server).code[NextPc(Server)] = "say"
           /\ \A c \in Clients :
                 /\ pc[c] \in 1..10 /\ NextPc(c) = IF pc[c] = 10 THEN 1 ELSE pc[c] + 1
                 /\ Prog(c).code[pc[c]] \in {"hello", "recv", "exit"}
                 /\ Prog(c).code[pc[c]] = "hello" => pc[c] \in {1, 3, 5, 7, 9}
                 /\ Prog(c).code[pc[c]] = "recv" => pc[c] \in {2, 4, 6, 8}
                 /\ Prog(c).code[pc[c]] = "exit" => pc[c] = 10
  <1>a. Server \in Procs /\ \A c \in Clients : c \in Procs
    BY Tables
  <1>1. ASSUME NEW p \in Procs, NEW x, NEW a, NEW b,
               Prog(p).code = Frame(x, a, b, "exit")
        PROVE  /\ pc[p] \in 1..10 /\ NextPc(p) = IF pc[p] = 10 THEN 1 ELSE pc[p] + 1
               /\ \/ pc[p] = 1 /\ Prog(p).code[pc[p]] = x
                  \/ pc[p] \in {2, 4, 6, 8} /\ Prog(p).code[pc[p]] = a
                  \/ pc[p] \in {3, 5, 7, 9} /\ Prog(p).code[pc[p]] = b
                  \/ pc[p] = 10 /\ Prog(p).code[pc[p]] = "exit"
               /\ pc[p] \in {1, 3, 5, 7} => Prog(p).code[NextPc(p)] = a
    <2>1. /\ Len(Prog(p).code) = 10 /\ Prog(p).code[1] = x /\ Prog(p).code[10] = "exit"
          /\ \A n \in 2..9 : Prog(p).code[n] = IF n % 2 = 0 THEN a ELSE b
      BY <1>1, InFrame
    <2>2. pc[p] \in 1..10 /\ NextPc(p) = IF pc[p] = 10 THEN 1 ELSE pc[p] + 1
      BY <2>1, Calls
    <2>3. /\ \A n \in {2, 4, 6, 8} : n \in 2..9 /\ n % 2 = 0
          /\ \A n \in {3, 5, 7, 9} : n \in 2..9 /\ n % 2 # 0
      OBVIOUS
    <2>4. /\ \A n \in {2, 4, 6, 8} : Prog(p).code[n] = a
          /\ \A n \in {3, 5, 7, 9} : Prog(p).code[n] = b
      BY <2>1, <2>3
    <2>5. pc[p] = 1 \/ pc[p] \in {2, 4, 6, 8} \/ pc[p] \in {3, 5, 7, 9} \/ pc[p] = 10
      BY <2>2
    <2>6. pc[p] \in {1, 3, 5, 7} => NextPc(p) \in {2, 4, 6, 8}
      BY <2>2
    <2>7. QED
      BY <2>1, <2>2, <2>4, <2>5, <2>6
  <1>2. Prog(Server).code = Frame("from", "say", "recv", "exit")
    BY DEF Prog, Lab, Exercise, StepsServer, Program, Frame
  <1>3. \A c \in Clients : Prog(c).code = Frame("hello", "recv", "hello", "exit")
    BY DatagramLabsAssumption DEF Prog, Lab, Exercise, StepsClient, Program, Frame
  <1>4. /\ pc[Server] \in 1..10 /\ NextPc(Server) = IF pc[Server] = 10 THEN 1 ELSE pc[Server] + 1
        /\ \/ pc[Server] = 1 /\ Prog(Server).code[pc[Server]] = "from"
           \/ pc[Server] \in {2, 4, 6, 8} /\ Prog(Server).code[pc[Server]] = "say"
           \/ pc[Server] \in {3, 5, 7, 9} /\ Prog(Server).code[pc[Server]] = "recv"
           \/ pc[Server] = 10 /\ Prog(Server).code[pc[Server]] = "exit"
        /\ pc[Server] \in {1, 3, 5, 7} => Prog(Server).code[NextPc(Server)] = "say"
    BY <1>1, <1>2, <1>a
  <1>5. ASSUME NEW c \in Clients
        PROVE  /\ pc[c] \in 1..10 /\ NextPc(c) = IF pc[c] = 10 THEN 1 ELSE pc[c] + 1
               /\ \/ pc[c] = 1 /\ Prog(c).code[pc[c]] = "hello"
                  \/ pc[c] \in {2, 4, 6, 8} /\ Prog(c).code[pc[c]] = "recv"
                  \/ pc[c] \in {3, 5, 7, 9} /\ Prog(c).code[pc[c]] = "hello"
                  \/ pc[c] = 10 /\ Prog(c).code[pc[c]] = "exit"
    <2>1. c \in Procs /\ Prog(c).code = Frame("hello", "recv", "hello", "exit")
      BY <1>3, <1>a
    <2>2. QED
      BY <1>1, <2>1
  <1>6. QED
    BY <1>4, <1>5

LEMMA Halves ==
    /\ Half(1) = 0 /\ Half(2) = 0 /\ Half(3) = 1 /\ Half(4) = 1 /\ Half(5) = 2 /\ Half(6) = 2
    /\ Half(7) = 3 /\ Half(8) = 3 /\ Half(9) = 4 /\ Half(10) = 4
  BY DEF Half

(* No step makes a client wait in vain without a reason: the answer of the *)
(* server comes to it or is lost, and after the last one of p3 the client  *)
(* no longer waits.                                                        *)
LEMMA StepAnswered ==
    ASSUME TypeOK, InCode, Quiet, FromClients, InRounds, NEW c \in Clients, Answered(c), [Next]_vars
    PROVE  Answered(c)'
  <1>a. Server \in Procs /\ c \in Procs /\ c # Server
    BY Tables
  <1> DEFINE Excused == c \in lost \/ state[Server] = "dead" \/ (lab \in {"greet", "steps"} /\ addr # c)
  <1>b. /\ Waits(c) /\ ~Owed(c) /\ ~Underway(c) => Excused
        /\ (Waits(c)' /\ ~Owed(c)' /\ ~Underway(c)' => Excused') => Answered(c)'
    BY DEF Answered
  <1>c. /\ Waits(c) <=> Runs(c) /\ Prog(c).code[pc[c]] = "recv" /\ inbox[c] = <<>>
        /\ lab' = lab => (Waits(c)' <=> /\ state'[c] = "run" /\ inbox'[c] = <<>>
                                        /\ Prog(c).code[pc'[c]] \in {"recv", "from"})
        /\ Owed(c) <=> addr = c /\ Runs(Server) /\ Prog(Server).code[pc[Server]] \in {"type", "say"}
        /\ lab' = lab => (Owed(c)' <=> /\ addr' = c /\ state'[Server] = "run"
                                       /\ Prog(Server).code[pc'[Server]] \in {"type", "say"})
    <2>1. Prog(c).code[pc[c]] # "from"
      BY Current
    <2>2. QED
      BY <2>1 DEF Waits, Owed, At, Runs, Prog
  <1> HIDE DEF Excused
  <1>d. ASSUME Walks(c), lab' = lab, Prog(c).code[pc[c]] \notin {"hello", "send"} PROVE ~Waits(c)'
    <2>1. Prog(c).code[NextPc(c)] \notin {"recv", "from"}
      <3>1. Prog(c).code[NextPc(c)] # "recv"
        BY <1>d, <1>a, Before
      <3>2. Prog(c).code[NextPc(c)] # "from"
        BY <1>a, Calls, Tables DEF ClientTable
      <3>3. QED
        BY <3>1, <3>2
    <2>2. QED
      BY <1>c, <1>d, <2>1 DEF Walks
  <1>e. ASSUME UNCHANGED <<lab, state, pc, addr, lost>>,
               inbox'[c] = inbox[c], Underway(c) => Underway(c)'
        PROVE  Answered(c)'
    BY <1>e, <1>b, <1>c, Current DEF Excused, Runs
  <1>0. CASE UNCHANGED vars
    BY <1>0, <1>e, UnderwayFacts DEF vars
  <1>1. ASSUME NEW p \in Procs, Starts(p) PROVE Answered(c)'
    <2>1. /\ state'[p] = "run" /\ state[p] = "idle" /\ UNCHANGED <<lab, pc, inbox, addr, lost>>
          /\ \A r \in Procs : r # p => state'[r] = state[r]
      BY <1>1 DEF Starts
    <2>2. Underway(c)' <=> Underway(c)
      BY <2>1, UnderwayFacts
    <2>3. CASE p = c
      <3>1. Prog(c).code[pc[c]] \in {"hello", "type"}
        BY <2>1, <2>3, Current DEF Quiet
      <3>2. QED
        BY <1>b, <1>c, <2>1, <3>1
    <2>4. CASE p # c
      BY <1>a, <1>b, <1>c, <2>1, <2>2, <2>4, Current DEF Excused, Runs
    <2>5. QED
      BY <2>3, <2>4
  (* A call of another process that leaves the sockets alone. *)
  <1>2. ASSUME NEW p \in Procs, Walks(p), UNCHANGED <<lab, state, inbox, addr, lost>>,
               At(p, "type") \/ At(p, "test")
        PROVE  Answered(c)'
    <2>1. Underway(c)' <=> Underway(c)
      BY <1>2, UnderwayFacts
    <2>2. CASE p = c
      BY <1>2, <1>b, <1>d, <2>2 DEF At
    <2>3. CASE p = Server
      <3>1. Waits(c)' => Waits(c)
        BY <1>2, <1>a, <1>c, <2>3, Current DEF Walks, Runs
      <3>2. Excused' <=> Excused
        BY <1>2 DEF Excused
      <3>3. CASE At(p, "test")
        BY <1>b, <1>c, <2>1, <2>3, <3>1, <3>2, <3>3 DEF At
      <3>4. CASE At(p, "type")
        <4>1. ASSUME Waits(c), addr = c PROVE Owed(c)'
          <5>1. lab \in {"answer", "greet", "reply"}
            <6>1. lab \notin {"chat", "bye"} /\ lab # "steps"
              BY <1>c, <2>3, <3>4, <4>1, Current DEF At
            <6>2. lab \in {"answer", "greet", "steps", "reply", "chat", "bye"}
              BY DatagramLabsAssumption DEF TypeOK, Lab
            <6>3. QED
              BY <6>1, <6>2
          <5>2. Prog(Server).code[NextPc(Server)] \in {"type", "say"}
            BY <2>3, <3>4, <5>1, Current DEF At
          <5>3. QED
            BY <1>2, <1>c, <2>3, <3>4, <4>1, <5>2 DEF Walks, At, Runs
        <4>2. QED
          BY <1>b, <1>c, <2>1, <3>1, <3>2, <4>1
      <3>5. QED
        BY <1>2, <3>3, <3>4
    <2>4. CASE p # c /\ p # Server
      BY <1>2, <1>a, <1>b, <1>c, <2>1, <2>4, Current DEF Walks, Excused, Runs
    <2>5. QED
      BY <2>2, <2>3, <2>4
  <1>3. ASSUME NEW p \in Procs, Types(p) \/ Passes(p) PROVE Answered(c)'
    BY <1>2, <1>3 DEF Types, Passes
  <1>4. ASSUME NEW p \in Procs, Gets(p) PROVE Answered(c)'
    <2>1. /\ Walks(p) /\ UNCHANGED <<lab, state, lost>> /\ Runs(p)
          /\ Prog(p).code[pc[p]] \in {"recv", "from"}
          /\ \A r \in Procs : r # p => inbox'[r] = inbox[r]
          /\ addr' = IF Prog(p).code[pc[p]] = "from" THEN inbox[p][1].from ELSE addr
      BY <1>4 DEF Gets, Shrinks, At
    <2>2. CASE p = c
      BY <1>b, <1>d, <2>1, <2>2
    <2>3. CASE p # c /\ p # Server
      <3>1. addr' = addr
        BY <2>1, <2>3, Current DEF Procs
      <3>2. Underway(c) => Underway(c)'
        BY <1>4, <2>3, UnderwayFacts
      <3>3. QED
        BY <1>a, <1>b, <1>c, <2>1, <2>3, <3>1, <3>2, Current DEF Walks, Excused, Runs
    <2>4. CASE p = Server
      <3> SUFFICES ASSUME Waits(c)', ~Owed(c)', ~Underway(c)', ~Excused' PROVE FALSE
        BY <1>b
      <3>1. Waits(c) /\ ~Owed(c)
        BY <1>a, <1>c, <2>1, <2>4, Current DEF Walks, Runs
      <3>2. c \notin lost /\ state[Server] # "dead" /\ (lab \in {"greet", "steps"} => addr' = c)
        BY <2>1 DEF Excused
      <3>3. Prog(Server).code[NextPc(Server)] \in {"type", "say"} => addr' # c
        BY <1>c, <2>1, <2>4 DEF Walks, Runs
      <3>4. CASE Prog(Server).code[pc[Server]] = "from"
        <4>1. 1 \in 1..Len(inbox[Server]) /\ addr' = inbox[Server][1].from
          BY <1>4, <2>1, <2>4, <3>4, TheFirst DEF Gets
        <4>2. addr' = c => Underway(c)
          BY <4>1, UnderwayFacts
        <4>3. addr' = c
          <5>1. CASE Underway(c)
            BY <1>4, <2>4, <4>1, <5>1, UnderwayFacts
          <5>2. CASE ~Underway(c)
            BY <1>b, <3>1, <3>2, <5>2 DEF Excused
          <5>3. QED
            BY <5>1, <5>2
        <4>4. lab \in {"answer", "greet", "reply", "steps"}
          <5>1. lab \notin {"chat", "bye"}
            BY <1>c, <3>1, Current
          <5>2. lab \in {"answer", "greet", "steps", "reply", "chat", "bye"}
            BY DatagramLabsAssumption DEF TypeOK, Lab
          <5>3. QED
            BY <5>1, <5>2
        <4>5. CASE lab = "steps"
          <5>1. pc[Server] = 1
            BY <3>4, <4>5, StepsCalls
          <5>2. Prog(Server).code[NextPc(Server)] = "say"
            BY <4>5, <5>1, StepsCalls
          <5>3. QED
            BY <3>3, <4>3, <5>2
        <4>6. CASE lab # "steps"
          BY <3>3, <3>4, <4>3, <4>4, <4>6, Current
        <4>7. QED
          BY <4>5, <4>6
      <3>5. CASE Prog(Server).code[pc[Server]] = "recv"
        <4>1. lab = "steps" /\ addr' = addr
          BY <2>1, <2>4, <3>5, Current
        <4>2. addr = c /\ addr' = c
          BY <3>2, <4>1
        <4>3. pc[Server] \in {3, 5, 7, 9}
          BY <3>5, <4>1, StepsCalls
        <4>4. CASE pc[Server] \in {3, 5, 7}
          BY <3>3, <4>1, <4>2, <4>4, StepsCalls
        <4>5. CASE pc[Server] = 9
          <5>1. Half(pc[c]) + Len(inbox[c]) = Half(9)
            BY <1>c, <3>1, <3>2, <4>1, <4>2, <4>5 DEF InRounds, Round, Given
          <5>2. Len(inbox[c]) = 0
            BY <1>a, <1>c, <3>1, Boxes
          <5>3. pc[c] \in {2, 4, 6, 8}
            BY <1>c, <3>1, <4>1, StepsCalls
          <5>4. Half(pc[c]) \in {0, 1, 2, 3}
            BY <5>3, Halves
          <5>5. Half(pc[c]) + 0 = 4
            BY <5>1, <5>2, Halves
          <5>6. QED
            BY <5>4, <5>5
        <4>6. QED
          BY <4>3, <4>4, <4>5
      <3>6. QED
        BY <2>1, <2>4, <3>4, <3>5
    <2>5. QED
      BY <2>2, <2>3, <2>4
  <1>5. ASSUME NEW p \in Procs, NEW q \in Procs, NEW m \in Datagrams, Puts(p, q, m) PROVE Answered(c)'
    <2>1. /\ Writes(p, q, m) /\ Walks(p) /\ UNCHANGED <<lab, state, addr, lost>>
          /\ \A r \in Procs : r # q => inbox'[r] = inbox[r]
      BY <1>5 DEF Puts, Grows
    <2>2. Underway(c) => Underway(c)'
      BY <1>5, UnderwayFacts
    <2>3. Excused' <=> Excused
      BY <2>1 DEF Excused
    <2>4. CASE p = c
      <3>1. Underway(c)'
        BY <1>5, <1>a, <2>1, <2>4, UnderwayFacts DEF Writes
      <3>2. QED
        BY <1>b, <3>1
    <2>5. CASE p # c /\ p # Server
      <3>1. q = Server
        BY <2>1, <2>5 DEF Writes
      <3>2. QED
        BY <1>a, <1>b, <1>c, <2>1, <2>2, <2>3, <2>5, <3>1, Current DEF Walks, Runs
    <2>6. CASE p = Server
      <3>1. q = addr
        BY <1>a, <2>1, <2>6, DatagramLabsAssumption DEF Writes
      <3>2. CASE addr = c
        <4>1. inbox'[c] # <<>>
          <5>1. PICK k \in Nat : k = Len(inbox[c])
            BY <1>a, Boxes
          <5>2. inbox' \in [Procs -> Seq(Datagrams)] /\ Len(inbox'[c]) = k + 1
            BY <1>5, <3>1, <3>2, <5>1 DEF Puts, Grows
          <5>3. Len(inbox'[c]) # 0
            BY <5>2
          <5>4. QED
            BY <1>a, <5>2, <5>3, BoxesNext
        <4>2. QED
          BY <1>b, <1>c, <2>1, <4>1
      <3>3. CASE addr # c
        BY <1>a, <1>b, <1>c, <2>1, <2>2, <2>3, <2>6, <3>1, <3>3, Current DEF Walks, Runs
      <3>4. QED
        BY <3>2, <3>3
    <2>7. QED
      BY <2>4, <2>5, <2>6
  <1>6. ASSUME NEW p \in Procs, NEW q \in Procs, NEW m \in Datagrams, Loses(p, q, m) PROVE Answered(c)'
    <2>1. /\ Writes(p, q, m) /\ Walks(p) /\ UNCHANGED <<lab, state, addr, inbox>>
          /\ lost' = lost \cup ({p, q} \cap Clients)
      BY <1>6 DEF Loses
    <2>2. Underway(c)' <=> Underway(c)
      BY <2>1, UnderwayFacts
    <2>3. c \in lost' => Excused'
      BY DEF Excused
    <2>4. CASE p = c \/ q = c
      BY <1>b, <2>1, <2>3, <2>4
    <2>5. CASE p # c /\ q # c
      <3>1. Excused => Excused'
        BY <2>1 DEF Excused
      <3>2. CASE p = Server
        <4>1. addr # c
          BY <1>a, <2>1, <2>5, <3>2, DatagramLabsAssumption DEF Writes
        <4>2. QED
          BY <1>a, <1>b, <1>c, <2>1, <2>2, <2>5, <3>1, <3>2, <4>1, Current DEF Walks, Runs
      <3>3. CASE p # Server
        BY <1>a, <1>b, <1>c, <2>1, <2>2, <2>5, <3>1, <3>3, Current DEF Walks, Runs
      <3>4. QED
        BY <3>2, <3>3
    <2>6. QED
      BY <2>4, <2>5
  <1>7. ASSUME NEW p \in Procs, Ends(p) PROVE Answered(c)'
    <2>1. /\ Runs(p) /\ state'[p] \in {"left", "dead"} /\ lost \subseteq lost'
          /\ state'[p] = "left" => Prog(p).code[pc[p]] \in {"exit", "test"}
          /\ \A r \in Procs : r # p => state'[r] = state[r]
          /\ \A r \in Procs : r # p => inbox'[r] = inbox[r]
          /\ UNCHANGED <<lab, pc, addr>>
      BY <1>7 DEF Ends, At
    <2>2. Underway(c) => Underway(c)' \/ (p = Server /\ c \in lost')
      BY <1>7, UnderwayFacts
    <2>3. CASE p = c
      BY <1>b, <1>c, <2>1, <2>3
    <2>4. CASE p = Server
      <3>1. state'[Server] = "dead" \/ c \in lost' => Excused'
        BY DEF Excused
      <3>2. Excused => Excused'
        BY <2>1, <2>4 DEF Excused, Runs
      <3>3. Waits(c)' => Waits(c)
        BY <1>a, <1>c, <2>1, <2>4, Current DEF Runs
      <3>4. state'[Server] = "left" => ~Owed(c)
        BY <1>c, <2>1, <2>4
      <3>5. QED
        BY <1>b, <2>1, <2>2, <2>4, <3>1, <3>2, <3>3, <3>4
    <2>5. CASE p # c /\ p # Server
      <3>1. Excused => Excused'
        BY <1>a, <2>1, <2>5 DEF Excused
      <3>2. QED
        BY <1>a, <1>b, <1>c, <2>1, <2>2, <2>5, <3>1, Current DEF Runs
    <2>6. QED
      BY <2>3, <2>4, <2>5
  <1>8. QED
    BY <1>0, <1>1, <1>3, <1>4, <1>5, <1>6, <1>7, StepKinds

LEMMA HalfNext ==
    /\ \A n \in 1..10 : Half(n) \in 0..4
    /\ \A n \in {1, 3, 5, 7, 9} : Half(n + 1) = Half(n)
    /\ \A n \in {2, 4, 6, 8} : Half(n + 1) = Half(n) + 1
  <1>1. \A n \in 1..10 : Half(n) \in 0..4
    BY DEF Half
  <1>2. ASSUME NEW n \in {1, 3, 5, 7, 9} PROVE Half(n + 1) = Half(n)
    BY DEF Half
  <1>3. ASSUME NEW n \in {2, 4, 6, 8} PROVE Half(n + 1) = Half(n) + 1
    BY DEF Half
  <1>4. QED
    BY <1>1, <1>2, <1>3

(* A step of p3 for one client: its own hello and answer, the answer the   *)
(* server gives to it, and what others do.                                 *)
LEMMA StepInRounds ==
    ASSUME TypeOK, InCode, Quiet, FromClients, InRounds, [Next]_vars
    PROVE  InRounds'
  <1> SUFFICES ASSUME lab = "steps", lab' = "steps", NEW c \in Clients PROVE Round(c)'
    <2>1. lab' = lab
      BY StepKinds DEF vars, Starts, Types, Gets, Passes, Ends, Puts, Loses
    <2>2. QED
      BY <2>1 DEF InRounds
  <1>a. Server \in Procs /\ c \in Procs /\ c # Server
    BY Tables
  <1>b. Round(c)
    BY DEF InRounds
  <1>c. /\ Half(pc[c]) \in 0..4 /\ Given(c) \in 0..4 /\ Half(pc[Server]) \in 0..4
        /\ pc[c] \in 1..10 /\ pc[Server] \in 1..10
    BY StepsCalls, HalfNext DEF Given
  <1>d. PICK k \in Nat : k = Len(inbox[c])
    BY <1>a, Boxes
  <1>0. ASSUME UNCHANGED <<pc, inbox, addr>>, lost \subseteq lost', Runs(c)' => Runs(c),
               state'[c] = "left" => state[c] = "left", Underway(c) => Underway(c)'
        PROVE  Round(c)'
    BY <1>0, <1>b DEF Round, Given
  <1>1. ASSUME NEW p \in Procs, Starts(p) PROVE Round(c)'
    <2>1. /\ state[p] = "idle" /\ state'[p] = "run" /\ UNCHANGED <<pc, inbox, addr, lost>>
          /\ \A r \in Procs : r # p => state'[r] = state[r]
      BY <1>1 DEF Starts
    <2>2. Underway(c) => Underway(c)'
      BY <2>1, UnderwayFacts
    <2>3. CASE p # c
      BY <1>0, <1>a, <2>1, <2>2, <2>3 DEF Runs
    <2>4. CASE p = c
      <3>1. pc[c] = 1 /\ addr # c /\ inbox[c] = <<>>
        BY <1>a, <2>1, <2>4 DEF Quiet, Runs
      <3>2. Half(pc[c]) = 0 /\ Len(inbox[c]) = 0 /\ Given(c) = 0
        BY <1>a, <3>1, Halves, Boxes DEF Given
      <3>3. Half(pc'[c]) = 0 /\ Len(inbox'[c]) = 0 /\ Given(c)' = 0 /\ pc'[c] = 1
        BY <2>1, <3>1, <3>2 DEF Given
      <3>4. 0 + 0 <= 0 /\ 0 + 0 = 0
        OBVIOUS
      <3>5. QED
        BY <2>1, <2>4, <3>3, <3>4 DEF Round
    <2>5. QED
      BY <2>3, <2>4
  <1>2. ASSUME NEW p \in Procs, Types(p) \/ Passes(p) PROVE FALSE
    <2>1. Prog(p).code[pc[p]] \in {"type", "test"}
      BY <1>2 DEF Types, Passes, At
    <2>2. Prog(p).code[pc[p]] \in {"from", "say", "recv", "exit", "hello"}
      BY StepsCalls DEF Procs
    <2>3. QED
      BY <2>1, <2>2
  (* A call of another client. *)
  <1>3. ASSUME NEW p \in Clients, p # c, Walks(p), inbox'[c] = inbox[c], addr' = addr, state' = state,
               lost \subseteq lost', Underway(c) => Underway(c)'
        PROVE  Round(c)'
    <2>1. pc'[c] = pc[c] /\ pc'[Server] = pc[Server]
      BY <1>3, <1>a, DatagramLabsAssumption DEF Walks
    <2>2. Given(c)' = Given(c)
      BY <1>3, <2>1 DEF Given
    <2>3. QED
      BY <1>3, <1>b, <2>1, <2>2 DEF Round, Runs
  <1>4. ASSUME NEW p \in Procs, Gets(p) PROVE Round(c)'
    <2>1. /\ Walks(p) /\ UNCHANGED <<state, lost>> /\ Runs(p)
          /\ Prog(p).code[pc[p]] \in {"recv", "from"}
          /\ \A r \in Procs : r # p => inbox'[r] = inbox[r]
          /\ addr' = IF Prog(p).code[pc[p]] = "from" THEN inbox[p][1].from ELSE addr
      BY <1>4 DEF Gets, Shrinks, At
    <2>2. CASE p \in Clients /\ p # c
      <3>1. addr' = addr
        BY <2>1, <2>2, Current
      <3>2. Underway(c) => Underway(c)'
        BY <1>4, <1>a, <2>2, DatagramLabsAssumption, UnderwayFacts
      <3>3. QED
        BY <1>3, <1>a, <2>1, <2>2, <3>1, <3>2
    <2>3. CASE p = c
      <3>1. pc[c] \in {2, 4, 6, 8} /\ pc'[c] = pc[c] + 1 /\ pc'[Server] = pc[Server]
        BY <1>a, <2>1, <2>3, StepsCalls DEF Walks
      <3>2. Half(pc'[c]) = Half(pc[c]) + 1 /\ pc'[c] # 10
        BY <3>1, HalfNext
      <3>3. addr' = addr /\ Given(c)' = Given(c)
        BY <2>1, <2>3, <3>1, Current DEF Given
      <3>4. k # 0 /\ Len(inbox'[c]) = k - 1
        BY <1>4, <1>d, <2>3 DEF Gets, Shrinks
      <3>5. Half(pc'[c]) + Len(inbox'[c]) = Half(pc[c]) + Len(inbox[c])
        BY <1>c, <1>d, <3>2, <3>4
      <3>6. state[c] # "left"
        BY <2>1, <2>3 DEF Runs
      <3>7. QED
        BY <1>b, <2>1, <2>3, <3>2, <3>3, <3>5, <3>6 DEF Round, Runs
    <2>4. CASE p = Server
      <3>1. pc[Server] \in {1, 3, 5, 7, 9} /\ pc'[Server] = pc[Server] + 1 /\ pc'[c] = pc[c]
        BY <1>a, <2>1, <2>4, StepsCalls DEF Walks
      <3>2. Half(pc'[Server]) = Half(pc[Server]) /\ pc'[Server] # 9
        BY <3>1, HalfNext
      <3>3. Given(c)' = Given(c)
        <4>1. CASE Prog(Server).code[pc[Server]] = "recv"
          BY <2>1, <2>4, <3>2, <4>1 DEF Given
        <4>2. CASE Prog(Server).code[pc[Server]] = "from"
          <5>1. pc[Server] = 1 /\ addr = Server
            BY <4>2, StepsCalls DEF FromClients
          <5>2. Given(c) = 0 /\ Half(pc'[Server]) = 0
            BY <1>a, <3>2, <5>1, Halves DEF Given
          <5>3. QED
            BY <5>2 DEF Given
        <4>3. QED
          BY <2>1, <2>4, <4>1, <4>2
      <3>4. QED
        BY <1>a, <1>b, <2>1, <2>4, <3>1, <3>2, <3>3 DEF Round, Runs
    <2>5. QED
      BY <2>2, <2>3, <2>4 DEF Procs
  (* A datagram is sent: to the server by a client, or by the server. *)
  <1>5. ASSUME NEW p \in Procs, NEW q \in Procs, NEW m \in Datagrams, Puts(p, q, m) \/ Loses(p, q, m)
        PROVE  Round(c)'
    <2>1. /\ Writes(p, q, m) /\ Walks(p) /\ UNCHANGED <<state, addr>> /\ Runs(p)
          /\ \A r \in Procs : r # q => inbox'[r] = inbox[r]
          /\ lost \subseteq lost' /\ (Puts(p, q, m) \/ p \notin Clients \/ p \in lost')
          /\ inbox'[q] = inbox[q] \/ Puts(p, q, m)
      BY <1>5 DEF Puts, Loses, Grows, Writes, At
    <2>2. Underway(c) => Underway(c)'
      BY <1>5, UnderwayFacts DEF Loses
    <2>3. CASE p \in Clients /\ p # c
      <3>1. q = Server
        BY <2>1, <2>3, DatagramLabsAssumption DEF Writes
      <3>2. QED
        BY <1>3, <1>a, <2>1, <2>2, <2>3, <3>1
    <2>4. CASE p = c
      <3>1. q = Server /\ Prog(c).code[pc[c]] \in {"hello", "send"}
        BY <1>a, <2>1, <2>4 DEF Writes, At
      <3>2. pc[c] \in {1, 3, 5, 7, 9} /\ pc'[c] = pc[c] + 1 /\ pc'[Server] = pc[Server]
        BY <1>a, <2>1, <2>4, <3>1, StepsCalls DEF Walks
      <3>3. Half(pc'[c]) = Half(pc[c]) /\ Given(c)' = Given(c) /\ inbox'[c] = inbox[c]
        BY <1>a, <2>1, <3>1, <3>2, HalfNext DEF Given
      <3>4. c \in lost' \/ Underway(c)'
        BY <1>a, <2>1, <2>4, <3>1, UnderwayFacts
      <3>5. state[c] # "left"
        BY <2>1, <2>4 DEF Runs
      <3>6. QED
        BY <1>b, <2>1, <3>3, <3>4, <3>5 DEF Round, Runs
    <2>5. CASE p = Server
      <3>1. q = addr /\ Prog(Server).code[pc[Server]] = "say"
        BY <2>1, <2>5, DatagramLabsAssumption DEF Writes, At
      <3>2. pc[Server] \in {2, 4, 6, 8} /\ pc'[Server] = pc[Server] + 1 /\ pc'[c] = pc[c]
        BY <1>a, <2>1, <2>5, <3>1, StepsCalls DEF Walks
      <3>3. Half(pc'[Server]) = Half(pc[Server]) + 1
        BY <3>2, HalfNext
      <3>4. CASE addr # c
        <4>1. inbox'[c] = inbox[c] /\ addr' # c /\ Given(c) = 0 /\ Given(c)' = 0
          BY <1>a, <2>1, <3>1, <3>4 DEF Given
        <4>2. QED
          BY <1>b, <2>1, <3>2, <4>1 DEF Round, Runs
      <3>5. CASE addr = c
        <4>1. Given(c) = Half(pc[Server]) /\ Given(c)' = Given(c) + 1 /\ addr' = c
          BY <2>1, <3>3, <3>5 DEF Given
        <4>2. pc'[Server] = 9 => pc[c] # 10
          <5> SUFFICES ASSUME pc'[Server] = 9, pc[c] = 10 PROVE FALSE
            OBVIOUS
          <5>1. pc[Server] = 8
            BY <3>2
          <5>2. Half(pc[c]) = 4 /\ Given(c) = 3
            BY <4>1, <5>1, Halves
          <5>3. 4 + k <= 3
            BY <1>b, <1>d, <5>2 DEF Round
          <5>4. QED
            BY <5>3
        <4>3. CASE Puts(p, q, m)
          <5>1. Len(inbox'[c]) = k + 1 /\ lost' = lost
            BY <1>d, <3>1, <3>5, <4>3 DEF Puts, Grows
          <5>2. /\ Half(pc[c]) + k <= Given(c)
                /\ Runs(c) /\ c \notin lost => Half(pc[c]) + k = Given(c)
            BY <1>b, <1>d DEF Round
          <5>3. /\ Half(pc[c]) + (k + 1) <= Given(c) + 1
                /\ Runs(c) /\ c \notin lost => Half(pc[c]) + (k + 1) = Given(c) + 1
            BY <1>c, <5>2
          <5>4. QED
            BY <1>b, <2>1, <3>2, <4>1, <4>2, <5>1, <5>3 DEF Round, Runs
        <4>4. CASE Loses(p, q, m)
          <5>1. c \in lost' /\ inbox'[c] = inbox[c]
            BY <3>1, <3>5, <4>4 DEF Loses
          <5>2. Half(pc[c]) + k <= Given(c)
            BY <1>b, <1>d DEF Round
          <5>3. Half(pc[c]) + k <= Given(c) + 1
            BY <1>c, <5>2
          <5>4. QED
            BY <1>b, <1>d, <2>1, <3>2, <4>1, <4>2, <5>1, <5>3 DEF Round, Runs
        <4>5. QED
          BY <1>5, <4>3, <4>4
      <3>6. QED
        BY <3>4, <3>5
    <2>6. QED
      BY <2>3, <2>4, <2>5 DEF Procs
  <1>6. ASSUME NEW p \in Procs, Ends(p) PROVE Round(c)'
    <2>1. /\ Runs(p) /\ state'[p] \in {"left", "dead"} /\ lost \subseteq lost'
          /\ state'[p] = "left" => Prog(p).code[pc[p]] \in {"exit", "test"}
          /\ \A r \in Procs : r # p => state'[r] = state[r]
          /\ inbox'[p] = <<>> /\ \A r \in Procs : r # p => inbox'[r] = inbox[r]
          /\ UNCHANGED <<pc, addr>>
      BY <1>6 DEF Ends, At
    <2>2. Underway(c) => Underway(c)' \/ c \in lost'
      BY <1>6, UnderwayFacts
    <2>3. Given(c)' = Given(c)
      BY <2>1 DEF Given
    <2>4. CASE p # c
      BY <1>a, <1>b, <2>1, <2>2, <2>3, <2>4 DEF Round, Runs
    <2>5. CASE p = c
      <3>1. Len(inbox'[c]) = 0 /\ ~Runs(c)'
        BY <2>1, <2>5, EmptySeq DEF Runs
      <3>2. state'[c] = "left" => pc[c] = 10
        BY <2>1, <2>5, StepsCalls
      <3>3. Half(pc[c]) + 0 <= Given(c)
        <4>1. Half(pc[c]) + k <= Given(c)
          BY <1>b, <1>d DEF Round
        <4>2. QED
          BY <1>c, <4>1
      <3>4. QED
        BY <1>b, <2>1, <2>2, <2>3, <2>5, <3>1, <3>2, <3>3 DEF Round
    <2>6. QED
      BY <2>4, <2>5
  <1>7. CASE UNCHANGED vars
    BY <1>7, <1>0, UnderwayFacts DEF vars, Runs
  <1>8. QED
    BY <1>1, <1>2, <1>4, <1>5, <1>6, <1>7, StepKinds

(* The calls of Program1. *)
LEMMA ByeCalls ==
    ASSUME TypeOK, InCode, lab = "bye"
    PROVE  /\ pc[Server] \in {1, 2} /\ NextPc(Server) = IF pc[Server] = 1 THEN 2 ELSE 1
           /\ Prog(Server).code[1] = "from" /\ Prog(Server).code[2] = "test"
           /\ \A c \in Clients :
                 /\ pc[c] \in {1, 2, 3} /\ NextPc(c) = IF pc[c] = 3 THEN 1 ELSE pc[c] + 1
                 /\ Prog(c).code[1] = "type" /\ Prog(c).code[2] = "send" /\ Prog(c).code[3] = "test"
  <1>1. Prog(Server).code = <<"from", "test">>
    BY DEF Prog, Lab, Exercise, ByeServer, Program
  <1>2. pc[Server] \in 1..2 /\ NextPc(Server) = IF pc[Server] = 2 THEN 1 ELSE pc[Server] + 1
    BY <1>1, Calls, Tables
  <1>3. ASSUME NEW c \in Clients
        PROVE  /\ pc[c] \in {1, 2, 3} /\ NextPc(c) = IF pc[c] = 3 THEN 1 ELSE pc[c] + 1
               /\ Prog(c).code[1] = "type" /\ Prog(c).code[2] = "send" /\ Prog(c).code[3] = "test"
    <2>1. c \in Procs /\ Prog(c).code = <<"type", "send", "test">>
      BY Tables, ByePrograms
    <2>2. pc[c] \in 1..3 /\ NextPc(c) = IF pc[c] = 3 THEN 1 ELSE pc[c] + 1
      BY <2>1, Calls
    <2>3. QED
      BY <2>1, <2>2
  <1>4. QED
    BY <1>1, <1>2, <1>3

(* A bye stays in the socket of the server until the server takes it, and  *)
(* then the server is to look at it with no step of its own in between.    *)
LEMMA StepByeKept ==
    ASSUME TypeOK, InCode, Quiet, ByeKept, [Next]_vars
    PROVE  ByeKept'
  <1> DEFINE InBox(c, b) == \E n \in 1..Len(b) : b[n].from = c /\ b[n].text = "word"
             Heard == At(Server, "test") /\ got[Server] = "word"
             Kept(c) == /\ inbox[c] = <<>> /\ got[c] = ""
                        /\ ByeSaid(c) /\ state[Server] \in {"idle", "run"} => ByeHeld(c)
  <1> SUFFICES ASSUME lab = "bye", lab' = "bye", NEW c \in Clients PROVE Kept(c)'
    <2>1. lab' = lab
      BY StepKinds DEF vars, Starts, Types, Gets, Passes, Ends, Puts, Loses
    <2>2. QED
      BY <2>1 DEF ByeKept
  <1>a. Server \in Procs /\ c \in Procs /\ c # Server
    BY Tables
  <1>b. Kept(c)
    BY DEF ByeKept
  <1>c. /\ ByeHeld(c) <=> c \in lost \/ InBox(c, inbox[Server]) \/ Heard
        /\ ByeHeld(c)' <=> c \in lost' \/ InBox(c, inbox'[Server]) \/ Heard'
    BY DEF ByeHeld
  <1>d. /\ Heard <=> Runs(Server) /\ pc[Server] = 2 /\ got[Server] = "word"
        /\ Heard' <=> Runs(Server)' /\ pc'[Server] = 2 /\ got'[Server] = "word"
    <2>1. /\ Prog(Server).code[pc[Server]] = "test" <=> pc[Server] = 2
      BY ByeCalls
    <2>2. /\ Prog(Server)' = Prog(Server) /\ pc'[Server] \in {1, 2}
      <3>1. pc'[Server] \in 1..Len(Prog(Server).code)'
        BY <1>a, StepInCode DEF InCode, Prog
      <3>2. Prog(Server)' = Prog(Server) /\ Prog(Server).code = <<"from", "test">>
        BY DEF Prog, Lab, Exercise, ByeServer, Program
      <3>3. Len(<<"from", "test">>) = 2
        OBVIOUS
      <3>4. QED
        BY <3>1, <3>2, <3>3
    <2>3. /\ Prog(Server).code[pc'[Server]] = "test" <=> pc'[Server] = 2
      BY <2>2, ByeCalls
    <2>4. QED
      BY <2>1, <2>2, <2>3 DEF At
  <1> HIDE DEF InBox, Heard
  <1>0. ASSUME UNCHANGED <<state, pc, line, got, inbox, lost>> PROVE Kept(c)'
    BY <1>0, <1>b, <1>c, <1>d DEF ByeSaid, Runs
  <1>1. ASSUME NEW p \in Procs, Starts(p) PROVE Kept(c)'
    <2>1. /\ state[p] = "idle" /\ state'[p] = "run" /\ UNCHANGED <<pc, line, got, inbox, lost>>
          /\ \A r \in Procs : r # p => state'[r] = state[r]
      BY <1>1 DEF Starts
    <2>2. CASE p = c
      <3>1. pc[c] = 1
        BY <2>1, <2>2 DEF Quiet
      <3>2. ~ByeSaid(c)'
        BY <2>1, <2>2, <3>1 DEF ByeSaid
      <3>3. QED
        BY <1>b, <2>1, <3>2
    <2>3. CASE p # c
      <3>1. ByeSaid(c)' <=> ByeSaid(c)
        BY <1>a, <2>1, <2>3 DEF ByeSaid
      <3>2. Heard => Heard'
        BY <1>a, <1>d, <2>1 DEF Runs
      <3>3. state'[Server] \in {"idle", "run"} => state[Server] \in {"idle", "run"}
        BY <1>a, <2>1
      <3>4. QED
        BY <1>b, <1>c, <2>1, <3>1, <3>2, <3>3
    <2>4. QED
      BY <2>2, <2>3
  (* A client types or looks at what it typed, the server looks.           *)
  <1>2. ASSUME NEW p \in Procs, Types(p) \/ Passes(p) PROVE Kept(c)'
    <2>1. /\ Walks(p) /\ UNCHANGED <<state, got, inbox, lost>> /\ Runs(p)
          /\ \A r \in Procs : r # p => line'[r] = line[r]
          /\ Prog(p).code[pc[p]] \in {"type", "test"}
      BY <1>2 DEF Types, Passes, At
    <2>2. CASE p = c
      <3>1. pc[c] \in {1, 3} /\ pc'[c] # 3 /\ pc'[Server] = pc[Server]
        BY <1>a, <2>1, <2>2, ByeCalls DEF Walks
      <3>2. ~ByeSaid(c)'
        BY <2>1, <2>2, <3>1 DEF ByeSaid, Runs
      <3>3. QED
        BY <1>b, <2>1, <3>2
    <2>3. CASE p # c
      <3>1. ByeSaid(c)' <=> ByeSaid(c)
        BY <1>a, <2>1, <2>3 DEF ByeSaid, Walks
      <3>2. Heard => Heard'
        <4>1. CASE p = Server
          <5>1. Prog(Server).code[pc[Server]] = "test" => got[Server] # "word"
            BY <1>2, <4>1 DEF Types, Passes, At
          <5>2. QED
            BY <1>d, <5>1, ByeCalls
        <4>2. CASE p # Server
          BY <1>a, <1>d, <2>1, <4>2 DEF Walks, Runs
        <4>3. QED
          BY <4>1, <4>2
      <3>3. QED
        BY <1>b, <1>c, <2>1, <3>1, <3>2
    <2>4. QED
      BY <2>2, <2>3
  <1>3. ASSUME NEW p \in Procs, Gets(p) PROVE Kept(c)'
    <2>1. /\ Walks(p) /\ Shrinks(p) /\ UNCHANGED <<state, line, lost>> /\ Runs(p)
          /\ Prog(p).code[pc[p]] \in {"recv", "from"}
          /\ got'[p] = Received(inbox[p][1].text)
          /\ \A r \in Procs : r # p => got'[r] = got[r]
      BY <1>3 DEF Gets, At
    <2>2. p = Server
      BY <2>1, Current DEF Procs
    <2>3. pc[Server] = 1 /\ pc'[Server] = 2 /\ pc'[c] = pc[c]
      BY <1>a, <2>1, <2>2, ByeCalls DEF Walks
    <2>4. got'[Server] = inbox[Server][1].text
      BY <2>1, <2>2 DEF Received
    <2>5. inbox'[c] = <<>> /\ got'[c] = "" /\ (ByeSaid(c)' <=> ByeSaid(c))
      BY <1>a, <1>b, <2>1, <2>2, <2>3 DEF Shrinks, ByeSaid
    <2>6. InBox(c, inbox[Server]) => InBox(c, inbox'[Server]) \/ Heard'
      <3>1. PICK k \in Nat \ {0} : k = Len(inbox[Server])
        BY <2>1, <2>2 DEF Shrinks
      <3>2. /\ Len(inbox'[Server]) = k - 1
            /\ \A i \in 1..(k - 1) : inbox'[Server][i] = inbox[Server][i + 1]
        BY <2>1, <2>2, <3>1 DEF Shrinks
      <3>3. ASSUME NEW n \in 1..k, inbox[Server][n].from = c, inbox[Server][n].text = "word"
            PROVE  InBox(c, inbox'[Server]) \/ Heard'
        <4>1. CASE n = 1
          BY <1>d, <2>1, <2>2, <2>3, <2>4, <3>3, <4>1 DEF Runs
        <4>2. CASE n # 1
          <5>1. n - 1 \in 1..(k - 1) /\ (n - 1) + 1 = n
            BY <4>2
          <5>2. inbox'[Server][n - 1] = inbox[Server][n]
            BY <3>2, <5>1
          <5>3. QED
            BY <3>2, <3>3, <5>1, <5>2 DEF InBox
        <4>3. QED
          BY <4>1, <4>2
      <3>4. QED
        BY <3>1, <3>3 DEF InBox
    <2>7. ~Heard
      BY <1>d, <2>3
    <2>8. QED
      BY <1>b, <1>c, <2>1, <2>5, <2>6, <2>7
  <1>4. ASSUME NEW p \in Procs, NEW q \in Procs, NEW m \in Datagrams, Puts(p, q, m) \/ Loses(p, q, m)
        PROVE  Kept(c)'
    <2>1. /\ Writes(p, q, m) /\ Walks(p) /\ UNCHANGED <<state, line, got>> /\ Runs(p)
          /\ \A r \in Procs : r # q => inbox'[r] = inbox[r]
          /\ lost \subseteq lost'
      BY <1>4 DEF Puts, Loses, Grows, Writes, At
    <2>2. p \in Clients /\ q = Server /\ Prog(p).code[pc[p]] = "send" /\ m.text = line[p] /\ m.from = p
      BY <2>1, ByeCalls DEF Writes, At
    <2>3. pc[p] = 2 /\ pc'[p] = 3 /\ pc'[Server] = pc[Server] /\ p # Server
      BY <1>a, <2>1, <2>2, ByeCalls, DatagramLabsAssumption DEF Walks
    <2>4. inbox'[c] = <<>> /\ got'[c] = "" /\ (Heard => Heard')
      BY <1>a, <1>b, <1>d, <2>1, <2>2, <2>3 DEF Runs
    <2>5. InBox(c, inbox[Server]) => InBox(c, inbox'[Server])
      <3>1. CASE Puts(p, q, m)
        <4>1. PICK k \in Nat : k = Len(inbox[Server])
          BY <1>a, Boxes
        <4>2. Len(inbox'[Server]) = k + 1 /\ \A i \in 1..k : inbox'[Server][i] = inbox[Server][i]
          BY <2>2, <3>1, <4>1 DEF Puts, Grows
        <4>3. \A n \in 1..k : n \in 1..(k + 1)
          OBVIOUS
        <4>4. QED
          BY <4>1, <4>2, <4>3 DEF InBox
      <3>2. CASE Loses(p, q, m)
        BY <3>2 DEF Loses
      <3>3. QED
        BY <1>4, <3>1, <3>2
    <2>6. CASE p # c
      <3>1. ByeSaid(c)' <=> ByeSaid(c)
        BY <1>a, <2>1, <2>6 DEF ByeSaid, Walks
      <3>2. QED
        BY <1>b, <1>c, <2>1, <2>4, <2>5, <3>1
    <2>7. CASE p = c
      <3>1. ByeSaid(c)' => line[c] = "word"
        BY <2>1, <2>3, <2>7 DEF ByeSaid, Runs
      <3>2. line[c] = "word" => c \in lost' \/ InBox(c, inbox'[Server])
        <4>1. CASE Puts(p, q, m)
          <5>1. PICK k \in Nat : k = Len(inbox[Server])
            BY <1>a, Boxes
          <5>2. Len(inbox'[Server]) = k + 1 /\ inbox'[Server][k + 1] = m
            BY <2>2, <4>1, <5>1 DEF Puts, Grows
          <5>3. k + 1 \in 1..(k + 1)
            OBVIOUS
          <5>4. QED
            BY <2>2, <2>7, <5>2, <5>3 DEF InBox
        <4>2. CASE Loses(p, q, m)
          BY <2>2, <2>7, <4>2 DEF Loses
        <4>3. QED
          BY <1>4, <4>1, <4>2
      <3>3. QED
        BY <1>c, <2>4, <3>1, <3>2
    <2>8. QED
      BY <2>6, <2>7
  <1>5. ASSUME NEW p \in Procs, Ends(p) PROVE Kept(c)'
    <2>1. /\ Runs(p) /\ state'[p] \in {"left", "dead"} /\ lost \subseteq lost'
          /\ state'[p] = "left" => /\ Prog(p).code[pc[p]] \in {"exit", "test"}
                                   /\ Prog(p).code[pc[p]] = "test" => "word" \in {line[p], got[p]}
          /\ \A r \in Procs : r # p => state'[r] = state[r]
          /\ inbox'[p] = <<>> /\ \A r \in Procs : r # p => inbox'[r] = inbox[r]
          /\ UNCHANGED <<pc, line, got>>
      BY <1>5 DEF Ends, At
    <2>2. inbox'[c] = <<>> /\ got'[c] = ""
      BY <1>a, <1>b, <2>1
    <2>3. CASE p = Server
      BY <2>1, <2>2, <2>3
    <2>4. CASE p # Server
      <3>1. inbox'[Server] = inbox[Server] /\ state'[Server] = state[Server] /\ (Heard => Heard')
        BY <1>a, <1>d, <2>1, <2>4 DEF Runs
      <3>2. ByeSaid(c)' => ByeSaid(c)
        <4>1. CASE p = c
          <5>1. state'[c] = "left" => pc[c] = 3 /\ line[c] = "word"
            BY <1>b, <2>1, <4>1, ByeCalls
          <5>2. QED
            BY <2>1, <4>1, <5>1 DEF ByeSaid
        <4>2. CASE p # c
          BY <1>a, <2>1, <4>2 DEF ByeSaid
        <4>3. QED
          BY <4>1, <4>2
      <3>3. QED
        BY <1>b, <1>c, <2>1, <2>2, <3>1, <3>2
    <2>5. QED
      BY <2>3, <2>4
  <1>6. QED
    BY <1>0, <1>1, <1>2, <1>3, <1>4, <1>5, StepKinds DEF vars

-----------------------------------------------------------------------------
LEMMA InitInv == Init => IInv
  <1> SUFFICES ASSUME Init PROVE IInv
    OBVIOUS
  <1>1. TypeOK
    <2>1. <<>> \in Seq(Datagrams) /\ Len(<<>>) = 0
      BY EmptySeq
    <2>b. Buf \in Nat
      BY DatagramLabsAssumption
    <2>2. ASSUME NEW p \in Procs PROVE Len(inbox[p]) <= Buf
      <3>1. Len(inbox[p]) = 0
        BY <2>1 DEF Init
      <3>2. QED
        BY <2>b, <3>1
    <2>3. Server \in Procs
      BY DEF Procs
    <2>c. /\ lab \in Labs /\ addr \in Procs /\ lost \subseteq Clients
          /\ state \in [Procs -> {"idle", "run", "left", "dead"}]
          /\ line \in [Procs -> Texts \cup {""}] /\ got \in [Procs -> Texts \cup {""}]
      BY <2>3 DEF Init
    <2>d. pc \in [Procs -> 1..10]
      <3> DEFINE Ten == 1..10
      <3>1. 1 \in Ten
        OBVIOUS
      <3> HIDE DEF Ten
      <3>2. pc \in [Procs -> Ten]
        BY <3>1 DEF Init
      <3>3. QED
        BY <3>2 DEF Ten
    <2>e. inbox \in [Procs -> Seq(Datagrams)]
      BY <2>1 DEF Init
    <2>4. QED
      BY <2>2, <2>c, <2>d, <2>e DEF TypeOK
  <1>2. \A p \in Procs : pc[p] = 1 /\ inbox[p] = <<>> /\ Len(inbox[p]) = 0 /\ ~Runs(p) /\ state[p] = "idle"
    BY EmptySeq DEF Init, Runs
  <1>a. Server \in Procs /\ addr = Server /\ \A c \in Clients : c \in Procs /\ c # Server
    BY <1>1, Tables DEF Init
  <1>3. InCode
    <2>1. ASSUME NEW p \in Procs
          PROVE  pc[p] \in 1..Len(Prog(p).code) /\ Prog(p).code[pc[p]] \notin {"send", "say"}
      <3>1. PICK k \in Nat \ {0} : k = Len(Prog(p).code)
        BY <1>1, Tables DEF Procs, ClientTable, ServerTable
      <3>2. 1 \in 1..k
        OBVIOUS
      <3>3. Prog(p).code[1] \in {"hello", "type", "from"}
        BY <1>1, Tables DEF Procs, ClientTable, ServerTable
      <3>4. QED
        BY <1>2, <3>1, <3>2, <3>3
    <2>2. QED
      BY <2>1 DEF InCode
  <1>4. \A c \in Clients : ~Underway(c)
    <2>1. 1..0 = {}
      OBVIOUS
    <2>2. QED
      BY <1>1, <1>2, <1>a, <2>1, UnderwayFacts
  <1>5. Quiet
    BY <1>2, <1>4, <1>a DEF Quiet
  <1>6. FromClients
    BY <1>2, <1>a DEF FromClients
  <1>7. \A c \in Clients : Answered(c)
    BY <1>2, <1>a DEF Answered, Waits, At
  <1>8. InRounds
    <2>1. 0 + 0 <= 0 /\ 0 + 0 = 0
      OBVIOUS
    <2>2. ASSUME NEW c \in Clients PROVE Round(c)
      <3>1. Half(pc[c]) = 0 /\ Len(inbox[c]) = 0 /\ Given(c) = 0
        BY <1>2, <1>a, Halves DEF Given
      <3>2. QED
        BY <1>2, <1>a, <2>1, <3>1 DEF Round
    <2>3. QED
      BY <2>2 DEF InRounds
  <1>9. ByeKept
    BY <1>2, <1>a DEF Init, ByeKept, ByeSaid
  <1>10. QED
    BY <1>1, <1>3, <1>5, <1>6, <1>7, <1>8, <1>9 DEF IInv

(* The invariant holds at the start and after every step. *)
THEOREM DatagramLabsInductive == Spec => []IInv
  <1>1. IInv /\ [Next]_vars => IInv'
    <2> SUFFICES ASSUME IInv, [Next]_vars PROVE IInv'
      OBVIOUS
    <2>1. TypeOK /\ InCode /\ Quiet /\ FromClients /\ InRounds /\ ByeKept
      BY DEF IInv
    <2>2. TypeOK' /\ InCode' /\ Quiet' /\ FromClients' /\ InRounds' /\ ByeKept'
      BY <2>1, StepTypeOK, StepInCode, StepQuiet, StepFromClients, StepInRounds, StepByeKept
    <2>3. ASSUME NEW c \in Clients PROVE Answered(c)'
      BY <2>1, <2>3, StepAnswered DEF IInv
    <2>4. QED
      BY <2>2, <2>3 DEF IInv
  <1>2. QED
    BY InitInv, <1>1, PTL DEF Spec

(* Every process is at a call of its program, and a socket never holds     *)
(* more than its size.                                                     *)
THEOREM DatagramLabsTypeOK == Spec => []TypeOK
  BY DatagramLabsInductive, PTL DEF IInv

(* A client waits in vain only for a datagram that was lost, for a server  *)
(* that was killed, or where p1 or p3 serves another client; and p3 waits  *)
(* for a client that has ended only where a datagram was lost: with every  *)
(* number of clients.                                                      *)
THEOREM DatagramLabsStuckOnlyByLoss == Spec => []StuckOnlyByLoss
  <1>1. IInv => StuckOnlyByLoss
    <2> SUFFICES ASSUME IInv PROVE StuckOnlyByLoss
      OBVIOUS
    <2>1. \A c \in Clients :
             Waits(c) /\ ~Owed(c) /\ ~Underway(c)
                 => c \in lost \/ state[Server] = "dead" \/ (lab \in {"greet", "steps"} /\ addr # c)
      BY DEF IInv, Answered
    <2>2. ASSUME lab = "steps", addr # Server, At(Server, "recv"), Waits(Server), state[addr] = "left"
          PROVE  addr \in lost
      <3>1. TypeOK /\ InCode /\ addr \in Clients /\ Server \in Procs
        BY <2>2, Tables DEF IInv, TypeOK, Procs
      <3>2. Round(addr) /\ pc[addr] = 10
        BY <2>2, <3>1 DEF IInv, InRounds, Round
      <3>3. pc[Server] \in {3, 5, 7, 9}
        BY <2>2, <3>1, StepsCalls DEF At
      <3>4. Half(pc[addr]) = 4 /\ Given(addr) = Half(pc[Server])
        BY <3>2, Halves DEF Given
      <3>5. PICK k \in Nat : k = Len(inbox[addr])
        BY <3>1, Boxes DEF Procs
      <3>6. 4 + k <= Half(pc[Server])
        BY <3>2, <3>4, <3>5 DEF Round
      <3>7. pc[Server] = 9
        <4> SUFFICES ASSUME pc[Server] \in {3, 5, 7} PROVE FALSE
          BY <3>3
        <4>1. Half(pc[Server]) \in {1, 2, 3}
          BY Halves
        <4>2. QED
          BY <3>6, <4>1
      <3>8. ~Underway(addr)
        <4>1. inbox[Server] = <<>>
          BY <2>2 DEF Waits
        <4>2. Len(inbox[Server]) = 0
          BY <3>1, <4>1, Boxes
        <4>3. 1..0 = {}
          OBVIOUS
        <4>4. QED
          BY <3>1, <4>2, <4>3, UnderwayFacts
      <3>9. QED
        BY <3>2, <3>7, <3>8 DEF Round
    <2>3. QED
      BY <2>1, <2>2 DEF StuckOnlyByLoss
  <1>2. QED
    BY DatagramLabsInductive, <1>1, PTL

(* Program1: while a client that has said bye is gone and the server goes  *)
(* on, its bye was lost, is in the server's socket or is being looked at.  *)
THEOREM DatagramLabsByeEndsServer == Spec => []ByeEndsServer
  <1>1. IInv => ByeEndsServer
    <2> SUFFICES ASSUME IInv, NEW c \in Clients, lab = "bye", state[c] = "left", Runs(Server)
                 PROVE  c \in lost \/ Underway(c) \/ (At(Server, "test") /\ got[Server] = "word")
      BY DEF ByeEndsServer
    <2>1. TypeOK /\ ByeHeld(c)
      BY DEF IInv, ByeKept, ByeSaid, Runs
    <2>2. QED
      BY <2>1, UnderwayFacts DEF ByeHeld
  <1>2. QED
    BY DatagramLabsInductive, <1>1, PTL

=============================================================================

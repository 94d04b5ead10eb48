-------------------------- MODULE StreamLabsProofs --------------------------
(* Machine-checked proofs about StreamLabs, for every set of clients, every *)
(* choice among the exercises and every size of the socket buffers.         *)
EXTENDS StreamLabs, SequenceTheorems, TLAPS

(* A program is at one of its calls, and writes what it has just typed.    *)
InCode ==
    \A c \in Conns, s \in Sides :
        /\ pc[c][s] \in 1..Len(Prog(s).code)
        /\ Prog(s).code[pc[c][s]] = "write" => line[c][s] \in Typed

(* Nothing has happened to a connection before it is accepted but that its *)
(* client may have written.                                                *)
Fresh ==
    \A c \in Conns :
        /\ state[c].client = "idle" =>
              /\ state[c].server = "idle" /\ c \notin spoken
              /\ pc[c].client = 1 /\ net[c].server = <<>>
        /\ state[c].server \in {"idle", "queued"} => pc[c].server = 1 /\ net[c].client = <<>>

(* Who waits for accept is in the backlog once. *)
Waiting ==
    /\ \A i \in 1..Len(backlog) : state[backlog[i]].server = "queued"
    /\ \A i, j \in 1..Len(backlog) : backlog[i] = backlog[j] => i = j

(* The closing word is on its way to the server, not as the name of the    *)
(* chat, or the server has read it and is to look at it.                   *)
Kept(c) ==
    \/ \E i \in 1..Len(net[c].server) :
          net[c].server[i] = "word" /\ (lab = "chat" /\ pc[c].server = 1 => i > 1)
    \/ At(c, "server", "test") /\ line[c].server = "word"
WordKept == \A c \in bye : lab \in Leaving /\ ~Gone(c, "server") => Kept(c)

(* The name of the chat is not passed over. *)
NameFirst ==
    \A c \in spoken : lab = "chat" /\ ~Gone(c, "server") /\ pc[c].server = 1
                          => net[c].server # <<>>

(* What is on the way to the client of date, by the call it is at, and     *)
(* how far the server is while it is there: k and l are the numbers of     *)
(* messages on the way to the client and to the server.                    *)
Expected(at, q) ==
    /\ at = 1 => Len(q) = 0 \/ (Len(q) = 1 /\ q[1] = "prompt")
    /\ at \in {2, 3} => Len(q) = 0
    /\ at \in {4, 5} => \/ Len(q) = 0
                        \/ Len(q) = 1 /\ q[1] = "answer"
                        \/ Len(q) = 2 /\ q[1] = "answer" /\ q[2] = "prompt"
Paired(at, srv, k, l) ==
    \/ at = 1 /\ k = 0 /\ l = 0 /\ srv = 1
    \/ at = 1 /\ k = 1 /\ l = 0 /\ srv = 2
    \/ at \in {2, 3} /\ k = 0 /\ l = 0 /\ srv = 2
    \/ at \in {4, 5} /\ k = 0 /\ l = 1 /\ srv = 2
    \/ at \in {4, 5} /\ k = 0 /\ l = 0 /\ srv \in {3, 4}
    \/ at \in {4, 5} /\ k = 1 /\ l = 0 /\ srv = 1
    \/ at \in {4, 5} /\ k = 2 /\ l = 0 /\ srv = 2
DateShape ==
    \A c \in Conns : lab = "date" /\ Runs(c, "client") =>
        /\ Expected(pc[c].client, net[c].client)
        /\ ~Gone(c, "server") =>
              Paired(pc[c].client, pc[c].server, Len(net[c].client), Len(net[c].server))

(* The date server of Q2 is past its answer when there is something to     *)
(* read for the client, or the client has read it.                         *)
TimeShape ==
    \A c \in Conns : lab = "time" =>
        /\ pc[c].client = 2 \/ net[c].client # <<>> => pc[c].server = 2
        /\ state[c].client = "left" => pc[c].client = 2

(* The inductive invariant. *)
IInv ==
    /\ TypeOK /\ InCode /\ Fresh /\ Waiting
    /\ WordKept /\ NameFirst /\ OneTurn /\ DateShape /\ TimeShape

-----------------------------------------------------------------------------
(* The tables: what holds of the calls of every program. *)
WellFormed(p) ==
    /\ Len(p.code) \in Nat \ {0} /\ Len(p.code) <= 5 /\ p.loop \in 1..Len(p.code) /\ p.catch \in {"loop", "end"}
    /\ p.code[p.loop] # "write"
    /\ \A n \in 1..Len(p.code) : p.code[n] = "write" => n > 1 /\ p.code[n - 1] = "type"

LEMMA Tables ==
    \A l \in DOMAIN Lab, s \in Sides : WellFormed(Lab[l][s])
  <1> USE DEF Program, WellFormed
  <1>1. WellFormed(ChatClient) /\ WellFormed(ChatHandler)
    BY DEF ChatClient, ChatHandler
  <1>2. WellFormed(LinesClient) /\ WellFormed(LinesServer)
    BY DEF LinesClient, LinesServer
  <1>3. WellFormed(TalkClient) /\ WellFormed(TalkServer)
    BY DEF TalkClient, TalkServer
  <1>4. WellFormed(DateClient) /\ WellFormed(DateHandler)
    BY DEF DateClient, DateHandler
  <1>5. WellFormed(HelloClient) /\ WellFormed(HelloServer)
    BY DEF HelloClient, HelloServer
  <1>6. WellFormed(TimeClient) /\ WellFormed(TimeServer)
    BY DEF TimeClient, TimeServer
  <1>7. WellFormed(AskClient) /\ WellFormed(AskServer)
    BY DEF AskClient, AskServer
  <1> HIDE DEF Program, WellFormed
  <1>8. ASSUME NEW l \in DOMAIN Lab, NEW s \in Sides
        PROVE  Lab[l][s] \in {ChatClient, ChatHandler, LinesClient, LinesServer, TalkClient,
                  TalkServer, DateClient, DateHandler, HelloClient, HelloServer, TimeClient,
                  TimeServer, AskClient, AskServer}
    <2>1. l \in {"chat", "date", "time", "lines", "talk", "hello", "ask"}
      BY DEF Lab
    <2>2. /\ Lab.chat.server = ChatHandler /\ Lab.chat.client = ChatClient
          /\ Lab.date.server = DateHandler /\ Lab.date.client = DateClient
          /\ Lab.time.server = TimeServer /\ Lab.time.client = TimeClient
          /\ Lab.lines.server = LinesServer /\ Lab.lines.client = LinesClient
          /\ Lab.talk.server = TalkServer /\ Lab.talk.client = TalkClient
          /\ Lab.hello.server = HelloServer /\ Lab.hello.client = HelloClient
          /\ Lab.ask.server = AskServer /\ Lab.ask.client = AskClient
      BY DEF Lab, Exercise
    <2>3. QED
      BY <2>1, <2>2 DEF Sides
  <1>9. QED
    BY <1>1, <1>2, <1>3, <1>4, <1>5, <1>6, <1>7, <1>8

LEMMA ProgFacts ==
    ASSUME TypeOK, NEW s \in Sides
    PROVE  WellFormed(Prog(s)) /\ Len(Prog(s).code) \in Nat /\ Prog(s).loop \in Nat
           /\ Other(s) \in Sides /\ Other(s) # s
  <1>1. lab \in DOMAIN Lab
    BY StreamLabsAssumption DEF TypeOK
  <1>2. WellFormed(Prog(s))
    BY <1>1, Tables DEF Prog
  <1>3. QED
    BY <1>2 DEF WellFormed, Sides, Other

-----------------------------------------------------------------------------
(* The steps there are, by their effects. *)
NextPc(c, s) == IF pc[c][s] = Len(Prog(s).code) THEN Prog(s).loop ELSE pc[c][s] + 1

Walked(c, s, n) ==
    pc' = [pc EXCEPT ![c][s] = n] /\ UNCHANGED <<lab, up, backlog, state, ar>>

(* A message enters, or leaves, the stream to one side. *)
Enters(c, s, m) == net' = [net EXCEPT ![c][s] = Append(@, m)]
Leaves(c, s) == net' = [net EXCEPT ![c][s] = Tail(@)]

HasTyped(c, s) ==
    /\ At(c, s, "type") /\ Walked(c, s, NextPc(c, s))
    /\ \E l \in Typed : line' = [line EXCEPT ![c][s] = l]
    /\ UNCHANGED <<net, history>>

(* The message of the write that a side is at. *)
Writes(c, s, m) ==
    \/ At(c, s, "write") /\ m = line[c][s] /\ m # "long"
    \/ m \in {"prompt", "answer", "ask"} /\ At(c, s, m)

HasPut(c, s) ==
    \E m \in Messages :
        /\ Writes(c, s, m) /\ Walked(c, s, NextPc(c, s))
        /\ ~Gone(c, Other(s)) /\ Len(net[c][Other(s)]) < Buf
        /\ Enters(c, Other(s), m)
        /\ spoken' = IF s = "client" THEN spoken \cup {c} ELSE spoken
        /\ bye' = IF s = "client" /\ m = "word" /\ (lab = "chat" => c \in spoken)
                  THEN bye \cup {c} ELSE bye
        /\ UNCHANGED <<line, refused>>

HasLost(c, s) ==
    /\ \E m : Writes(c, s, m)
    /\ Gone(c, Other(s))
    /\ Walked(c, s, NextPc(c, s)) \/ (Prog(s).catch = "loop" /\ Walked(c, s, Prog(s).loop))
    /\ UNCHANGED <<net, line, history>>

WasRefused(c, s) ==
    /\ At(c, s, "write") /\ line[c][s] = "long" /\ Prog(s).catch = "loop"
    /\ Walked(c, s, Prog(s).loop)
    /\ refused' = IF s = "server" THEN refused \cup {c} ELSE refused
    /\ UNCHANGED <<net, line, spoken, bye>>

HasGot(c, s) ==
    /\ At(c, s, "read") \/ At(c, s, "skip")
    /\ net[c][s] # <<>> /\ Walked(c, s, NextPc(c, s))
    /\ Leaves(c, s)
    /\ line' = [line EXCEPT ![c][s] = IF At(c, s, "read") THEN Head(net[c][s]) ELSE @]
    /\ UNCHANGED history

WasOver(c, s) ==
    /\ At(c, s, "read") \/ At(c, s, "skip")
    /\ net[c][s] = <<>> /\ Gone(c, Other(s)) /\ Prog(s).catch = "loop"
    /\ Walked(c, s, Prog(s).loop)
    /\ UNCHANGED <<net, line, history>>

HasPassed(c, s) ==
    /\ At(c, s, "test") /\ line[c][s] # "word" /\ Walked(c, s, NextPc(c, s))
    /\ UNCHANGED <<net, line, history>>

(* Some sides end: no others change, and the backlog stays or is emptied.  *)
HasEnded ==
    /\ \A c \in Conns, s \in Sides :
          state'[c][s] = state[c][s] \/ (state[c][s] \in {"run", "queued"} /\ Gone(c, s)')
    /\ state' \in [Conns -> [Sides -> {"idle", "queued", "run", "left", "dead"}]]
    /\ \/ backlog' = <<>>
       \/ /\ backlog' = backlog
          /\ \A c \in Conns : state[c].server = "queued" => state'[c].server = "queued"
    /\ up' \in {"new", "up", "gone", "killed"}
    /\ refused \subseteq refused' /\ refused' \subseteq Conns
    /\ UNCHANGED <<lab, pc, line, net, ar, spoken, bye>>

HasConnected(c) ==
    /\ state[c].client = "idle"
    /\ state' = [state EXCEPT ![c] = [client |-> "run", server |-> "queued"]]
    /\ backlog' = Append(backlog, c)
    /\ UNCHANGED <<lab, up, pc, line, net, ar, history>>

WasUnserved(c) ==
    /\ state[c].client = "idle"
    /\ state' = [state EXCEPT ![c].client = "dead"]
    /\ UNCHANGED <<lab, up, backlog, pc, line, net, ar, history>>

Walks(c, s) ==
    \/ HasTyped(c, s) \/ HasPut(c, s) \/ HasLost(c, s) \/ WasRefused(c, s)
    \/ HasGot(c, s) \/ WasOver(c, s) \/ HasPassed(c, s)

LEMMA EndFacts ==
    ASSUME TypeOK, NEW c \in Conns, NEW s \in Sides, NEW how \in {"left", "dead"},
           Runs(c, s), End(c, s, how), refused \subseteq refused', refused' \subseteq Conns,
           UNCHANGED <<lab, line, net, ar, spoken, bye>>
    PROVE  HasEnded
  <1> DEFINE ended == [state EXCEPT ![c][s] = how]
  <1>1. state \in [Conns -> [Sides -> {"idle", "queued", "run", "left", "dead"}]]
    BY DEF TypeOK
  <1>2. /\ ended \in [Conns -> [Sides -> {"idle", "queued", "run", "left", "dead"}]]
        /\ ended[c][s] = how /\ state[c][s] = "run"
        /\ \A d \in Conns, t \in Sides : (d # c \/ t # s) => ended[d][t] = state[d][t]
    BY <1>1 DEF Runs, Sides
  <1>3. CASE state' = ended /\ UNCHANGED <<up, backlog>>
    <2>1. \A d \in Conns, t \in Sides :
             state'[d][t] = state[d][t] \/ (state[d][t] \in {"run", "queued"} /\ Gone(d, t)')
      BY <1>2, <1>3 DEF Gone
    <2>2. \A d \in Conns : state[d].server = "queued" => state'[d].server = "queued"
      BY <1>1, <1>2, <1>3 DEF Sides
    <2>3. QED
      BY <1>2, <1>3, <2>1, <2>2 DEF HasEnded, End, TypeOK
  <1>4. CASE Down(ended, "gone")
    <2>1. state' = [d \in Conns |-> IF ended[d].server \in {"run", "queued"}
                                    THEN [ended[d] EXCEPT !.server = "dead"] ELSE ended[d]]
      BY <1>4 DEF Down
    <2>2. \A d \in Conns, t \in Sides :
             \/ state'[d][t] = ended[d][t]
             \/ ended[d][t] \in {"run", "queued"} /\ state'[d][t] = "dead"
      BY <1>2, <2>1 DEF Sides
    <2>3. state' \in [Conns -> [Sides -> {"idle", "queued", "run", "left", "dead"}]]
      BY <1>2, <2>1 DEF Sides
    <2>4. \A d \in Conns, t \in Sides :
             state'[d][t] = state[d][t] \/ (state[d][t] \in {"run", "queued"} /\ Gone(d, t)')
      BY <1>2, <2>2 DEF Gone
    <2>5. QED
      BY <1>4, <2>3, <2>4 DEF HasEnded, End, Down
  <1>5. QED
    BY <1>3, <1>4 DEF End

(* What a walk of a side does besides. *)
LEMMA CatchFacts ==
    ASSUME TypeOK, NEW c \in Conns, NEW s \in Sides, Runs(c, s), Catch(c, s),
           refused \subseteq refused', refused' \subseteq Conns,
           UNCHANGED <<lab, line, net, ar, spoken, bye>>
    PROVE  HasEnded \/ (Prog(s).catch = "loop" /\ Walked(c, s, Prog(s).loop))
  <1>1. CASE Prog(s).catch = "loop"
    BY <1>1 DEF Catch, Goto, Walked
  <1>2. CASE Prog(s).catch # "loop"
    BY <1>2, EndFacts DEF Catch
  <1>3. QED
    BY <1>1, <1>2

LEMMA StepKinds ==
    ASSUME TypeOK, InCode, [Next]_vars
    PROVE  \/ UNCHANGED vars \/ Start \/ Accept \/ HasEnded
           \/ \E c \in Conns : HasConnected(c) \/ WasUnserved(c)
           \/ \E c \in Conns, s \in Sides : Walks(c, s)
  <1>0. refused \subseteq Conns
    BY DEF TypeOK
  <1>1. ASSUME NEW c \in Conns, Connect(c) PROVE HasConnected(c) \/ WasUnserved(c)
    BY <1>1 DEF Connect, HasConnected, WasUnserved
  <1>2. ASSUME NEW c \in Conns, KillClient(c) PROVE HasEnded
    <2>1. \A d \in Conns, t \in Sides :
             state'[d][t] = state[d][t] \/ (state[d][t] \in {"run", "queued"} /\ Gone(d, t)')
      BY <1>2 DEF KillClient, TypeOK, Runs, Gone, Sides
    <2>2. state' \in [Conns -> [Sides -> {"idle", "queued", "run", "left", "dead"}]]
      BY <1>2 DEF KillClient, TypeOK, Sides
    <2>3. \A d \in Conns : state'[d].server = state[d].server
      BY <1>2 DEF KillClient, TypeOK, Sides
    <2>4. QED
      BY <1>0, <1>2, <2>1, <2>2, <2>3 DEF KillClient, HasEnded, history, TypeOK
  <1>3. ASSUME KillServer PROVE HasEnded
    <2>1. state' = [d \in Conns |-> IF state[d].server \in {"run", "queued"}
                                    THEN [state[d] EXCEPT !.server = "dead"] ELSE state[d]]
      BY <1>3 DEF KillServer, Down
    <2>2. \A d \in Conns, t \in Sides :
             state'[d][t] = state[d][t] \/ (state[d][t] \in {"run", "queued"} /\ Gone(d, t)')
      BY <2>1 DEF TypeOK, Gone, Sides
    <2>3. state' \in [Conns -> [Sides -> {"idle", "queued", "run", "left", "dead"}]]
      BY <2>1 DEF TypeOK, Sides
    <2>4. QED
      BY <1>0, <1>3, <2>2, <2>3 DEF KillServer, Down, HasEnded, history
  <1>4. ASSUME NEW c \in Conns, NEW s \in Sides, Type(c, s) PROVE HasEnded \/ Walks(c, s)
    <2>1. CASE End(c, s, "dead") /\ UNCHANGED line
      BY <1>0, <1>4, <2>1, EndFacts DEF Type, At, history
    <2>2. CASE (\E l \in Typed : line' = [line EXCEPT ![c][s] = l]) /\ Advance(c, s)
      BY <1>4, <2>2 DEF Type, Advance, Goto, HasTyped, Walked, NextPc, Walks
    <2>3. QED
      BY <1>4, <2>1, <2>2 DEF Type
  <1>5. ASSUME NEW c \in Conns, NEW s \in Sides, NEW m, Writes(c, s, m), Send(c, s, m),
               m \in Messages, UNCHANGED <<lab, line, ar, refused>>
        PROVE  HasEnded \/ HasPut(c, s) \/ HasLost(c, s)
    <2>0. Runs(c, s)
      BY <1>5 DEF Writes, At
    <2>1. CASE Gone(c, Other(s))
      <3>1. UNCHANGED <<net, spoken, bye>> /\ (Advance(c, s) \/ Catch(c, s))
        BY <1>5, <2>1 DEF Send
      <3>2. CASE Advance(c, s)
        BY <1>5, <2>1, <3>1, <3>2 DEF Advance, Goto, HasLost, Walked, NextPc, history
      <3>3. CASE Catch(c, s)
        BY <1>0, <1>5, <2>0, <2>1, <3>1, <3>3, CatchFacts DEF HasLost, history
      <3>4. QED
        BY <3>1, <3>2, <3>3
    <2>2. CASE ~Gone(c, Other(s))
      BY <1>5, <2>2 DEF Send, Advance, Goto, HasPut, Enters, Walked, NextPc
    <2>3. QED
      BY <2>1, <2>2
  <1>6. ASSUME NEW c \in Conns, NEW s \in Sides, Write(c, s) PROVE HasEnded \/ Walks(c, s)
    <2>0. At(c, s, "write") /\ Runs(c, s) /\ line[c][s] \in Typed
      BY <1>6 DEF Write, At, InCode
    <2>1. CASE line[c][s] = "long"
      <3>1. /\ Catch(c, s) /\ refused \subseteq refused' /\ refused' \subseteq Conns
            /\ UNCHANGED <<lab, line, net, ar, spoken, bye>>
        BY <1>0, <1>6, <2>1 DEF Write
      <3>2. CASE Prog(s).catch = "loop" /\ Walked(c, s, Prog(s).loop)
        BY <1>6, <2>0, <2>1, <3>2 DEF Write, WasRefused, Walks
      <3>3. QED
        BY <2>0, <3>1, <3>2, CatchFacts
    <2>2. CASE line[c][s] # "long"
      <3>1. /\ Send(c, s, line[c][s]) /\ UNCHANGED <<lab, line, ar, refused>>
            /\ line[c][s] \in Messages /\ Writes(c, s, line[c][s])
        BY <1>6, <2>0, <2>2 DEF Write, Writes, Typed, Messages
      <3>2. QED
        BY <1>5, <3>1 DEF Walks
    <2>3. QED
      BY <2>1, <2>2
  <1>7. ASSUME NEW c \in Conns, NEW s \in Sides, Say(c, s) PROVE HasEnded \/ Walks(c, s)
    <2>1. PICK m \in {"prompt", "answer", "ask"} : At(c, s, m) /\ Send(c, s, m)
      BY <1>7 DEF Say
    <2>2. Writes(c, s, m) /\ m \in Messages /\ UNCHANGED <<lab, line, ar, refused>>
      BY <1>7, <2>1 DEF Say, Writes, Messages
    <2>3. QED
      BY <1>5, <2>1, <2>2 DEF Walks
  <1>8. ASSUME NEW c \in Conns, NEW s \in Sides, Read(c, s) PROVE HasEnded \/ Walks(c, s)
    <2>1. CASE net[c][s] # <<>>
      BY <1>8, <2>1 DEF Read, Advance, Goto, HasGot, Leaves, Walked, NextPc, Walks
    <2>2. CASE net[c][s] = <<>>
      <3>1. Gone(c, Other(s)) /\ Catch(c, s) /\ UNCHANGED <<net, line, lab, ar, history>> /\ Runs(c, s)
        BY <1>8, <2>2 DEF Read, At
      <3>2. CASE Prog(s).catch = "loop" /\ Walked(c, s, Prog(s).loop)
        BY <1>8, <2>2, <3>1, <3>2 DEF Read, WasOver, Walks
      <3>3. QED
        BY <1>0, <3>1, <3>2, CatchFacts DEF history
    <2>3. QED
      BY <2>1, <2>2
  <1>9. ASSUME NEW c \in Conns, NEW s \in Sides, Test(c, s) PROVE HasEnded \/ Walks(c, s)
    <2>1. CASE line[c][s] = "word"
      BY <1>0, <1>9, <2>1, EndFacts DEF Test, At, history
    <2>2. CASE line[c][s] # "word"
      BY <1>9, <2>2 DEF Test, Advance, Goto, HasPassed, Walked, NextPc, Walks
    <2>3. QED
      BY <2>1, <2>2
  <1>10. ASSUME NEW c \in Conns, NEW s \in Sides, Exit(c, s) PROVE HasEnded
    BY <1>0, <1>10, EndFacts DEF Exit, At, history
  <1>11. QED
    BY <1>1, <1>2, <1>3, <1>4, <1>6, <1>7, <1>8, <1>9, <1>10 DEF Next, Work

(* Where a walk leads. *)
LEMMA WalkFacts ==
    ASSUME TypeOK, InCode, NEW c \in Conns, NEW s \in Sides, NEW n, Walked(c, s, n),
           n = NextPc(c, s) \/ n = Prog(s).loop
    PROVE  /\ n \in 1..Len(Prog(s).code) /\ n \in 1..5
           /\ pc'[c][s] = n /\ pc' \in [Conns -> [Sides -> 1..5]]
           /\ \A d \in Conns, t \in Sides : (d # c \/ t # s) => pc'[d][t] = pc[d][t]
           /\ Prog(s).code[n] = "write" => Prog(s).code[pc[c][s]] = "type" /\ n = NextPc(c, s)
  <1>1. /\ WellFormed(Prog(s)) /\ pc[c][s] \in 1..Len(Prog(s).code)
        /\ Len(Prog(s).code) \in Nat /\ Prog(s).loop \in Nat
    BY ProgFacts DEF InCode
  <1>2. n \in 1..Len(Prog(s).code) /\ n \in 1..5
    <2>1. Len(Prog(s).code) \in Nat \ {0} /\ Len(Prog(s).code) <= 5 /\ Prog(s).loop \in 1..Len(Prog(s).code)
      BY <1>1 DEF WellFormed
    <2>2. NextPc(c, s) \in 1..Len(Prog(s).code)
      BY <1>1, <2>1 DEF NextPc
    <2>3. n \in 1..Len(Prog(s).code)
      BY <2>1, <2>2
    <2>4. QED
      BY <1>1, <2>1, <2>3
  <1>3. Prog(s).code[n] = "write" => Prog(s).code[pc[c][s]] = "type" /\ n = NextPc(c, s)
    <2>1. ASSUME Prog(s).code[n] = "write"
          PROVE  n = pc[c][s] + 1 /\ Prog(s).code[n - 1] = "type" /\ n = NextPc(c, s)
      BY <1>1, <1>2, <2>1 DEF WellFormed, NextPc
    <2>2. QED
      BY <1>1, <2>1
  <1>4. pc'[c][s] = n /\ pc' \in [Conns -> [Sides -> 1..5]]
        /\ \A d \in Conns, t \in Sides : (d # c \/ t # s) => pc'[d][t] = pc[d][t]
    BY <1>2 DEF Walked, TypeOK
  <1>5. QED
    BY <1>2, <1>3, <1>4

(* The next call of each kind of walk. *)
LEMMA WalksWhere ==
    ASSUME NEW c \in Conns, NEW s \in Sides, Walks(c, s)
    PROVE  /\ Runs(c, s) /\ UNCHANGED <<lab, up, backlog, state, ar>>
           /\ \E n \in {NextPc(c, s), Prog(s).loop} : Walked(c, s, n)
           /\ Prog(s).code[pc[c][s]] = "type" => HasTyped(c, s)
  BY DEF Walks, HasTyped, HasPut, HasLost, WasRefused, HasGot, WasOver, HasPassed, Walked, At, Writes

(* What a message in the stream does to it. *)
LEMMA PutFacts ==
    ASSUME TypeOK, NEW c \in Conns, NEW s \in Sides, NEW m \in Messages,
           Enters(c, s, m)
    PROVE  /\ net' \in [Conns -> [Sides -> Seq(Messages)]]
           /\ Len(net[c][s]) \in Nat /\ Len(net'[c][s]) = Len(net[c][s]) + 1
           /\ \A i \in 1..Len(net[c][s]) : net'[c][s][i] = net[c][s][i]
           /\ net'[c][s][Len(net[c][s]) + 1] = m /\ net'[c][s] # <<>>
           /\ \A d \in Conns, t \in Sides : (d # c \/ t # s) => net'[d][t] = net[d][t]
  <1>0. net[c][s] \in Seq(Messages)
    BY DEF TypeOK
  <1>1. net[c][s] \in Seq(Messages) /\ Len(net[c][s]) \in Nat
    BY <1>0, LenProperties
  <1>2. net'[c][s] = Append(net[c][s], m)
    BY DEF TypeOK, Enters
  <1>3. \A q \in Seq(Messages) : Append(q, m) \in Seq(Messages)
    BY AppendProperties
  <1>4. net' \in [Conns -> [Sides -> Seq(Messages)]]
        /\ \A d \in Conns, t \in Sides : (d # c \/ t # s) => net'[d][t] = net[d][t]
    <2>1. net \in [Conns -> [Sides -> Seq(Messages)]]
      BY DEF TypeOK
    <2>2. net' = [net EXCEPT ![c][s] = Append(net[c][s], m)]
      BY DEF Enters
    <2>3. Append(net[c][s], m) \in Seq(Messages)
      BY <1>0, <1>3
    <2>4. net' \in [Conns -> [Sides -> Seq(Messages)]]
      BY <2>1, <2>2, <2>3
    <2>5. \A d \in Conns, t \in Sides : (d # c \/ t # s) => net'[d][t] = net[d][t]
      BY <2>1, <2>2
    <2>6. QED
      BY <2>4, <2>5
  <1>5. /\ net'[c][s] # <<>> /\ Len(net'[c][s]) = Len(net[c][s]) + 1
        /\ net'[c][s][Len(net[c][s]) + 1] = m
        /\ \A i \in 1..Len(net[c][s]) : net'[c][s][i] = net[c][s][i]
    BY <1>1, <1>2, AppendProperties
  <1>6. QED
    BY <1>1, <1>4, <1>5

LEMMA GetFacts ==
    ASSUME TypeOK, NEW c \in Conns, NEW s \in Sides, net[c][s] # <<>>, Leaves(c, s)
    PROVE  /\ net' \in [Conns -> [Sides -> Seq(Messages)]]
           /\ Head(net[c][s]) = net[c][s][1] /\ net[c][s][1] \in Messages
           /\ Len(net[c][s]) \in Nat \ {0} /\ Len(net'[c][s]) = Len(net[c][s]) - 1
           /\ \A i \in 1..Len(net'[c][s]) : net'[c][s][i] = net[c][s][i + 1]
           /\ Len(net[c][s]) = 1 <=> net'[c][s] = <<>>
           /\ \A d \in Conns, t \in Sides : (d # c \/ t # s) => net'[d][t] = net[d][t]
  <1>0. net[c][s] \in Seq(Messages)
    BY DEF TypeOK
  <1>1. net[c][s] \in Seq(Messages) /\ Len(net[c][s]) \in Nat \ {0}
    BY <1>0, EmptySeq
  <1>2. Head(net[c][s]) = net[c][s][1] /\ net[c][s][1] \in Messages
    BY <1>1, ElementOfSeq
  <1>3. net'[c][s] = Tail(net[c][s])
    BY DEF TypeOK, Leaves
  <1>4. /\ Tail(net[c][s]) \in Seq(Messages) /\ Len(Tail(net[c][s])) = Len(net[c][s]) - 1
        /\ \A i \in 1..Len(Tail(net[c][s])) : Tail(net[c][s])[i] = net[c][s][i + 1]
    BY <1>1, HeadTailProperties
  <1>5. net' = [net EXCEPT ![c] = [net[c] EXCEPT ![s] = Tail(net[c][s])]]
    BY DEF TypeOK, Leaves
  <1>6. net' \in [Conns -> [Sides -> Seq(Messages)]]
        /\ \A d \in Conns, t \in Sides : (d # c \/ t # s) => net'[d][t] = net[d][t]
    <2>1. net \in [Conns -> [Sides -> Seq(Messages)]]
      BY DEF TypeOK
    <2>2. QED
      BY <1>3, <1>4, <1>5, <2>1
  <1>7. Len(net[c][s]) = 1 <=> net'[c][s] = <<>>
    <2>1. Tail(net[c][s]) = <<>> <=> Len(Tail(net[c][s])) = 0
      BY <1>4, EmptySeq
    <2>2. Len(Tail(net[c][s])) = 0 <=> Len(net[c][s]) = 1
      BY <1>1, <1>4
    <2>3. QED
      BY <1>3, <2>1, <2>2
  <1>8. QED
    BY <1>1, <1>2, <1>3, <1>4, <1>6, <1>7

-----------------------------------------------------------------------------
(* Types *)
LEMMA StepTypeOK ==
    ASSUME TypeOK, InCode, Waiting, [Next]_vars
    PROVE  TypeOK'
  <1>0. CASE UNCHANGED vars
    BY <1>0 DEF vars, history, TypeOK
  <1>1. CASE Start
    BY <1>1 DEF Start, history, TypeOK
  <1>2. CASE Accept
    <2>1. backlog \in Seq(Conns) /\ backlog # <<>> /\ ar \in Seq(Conns)
      BY <1>2 DEF Accept, TypeOK
    <2>2. Head(backlog) \in Conns /\ Tail(backlog) \in Seq(Conns)
      BY <2>1, HeadTailProperties
    <2>3. ar' \in Seq(Conns)
      BY <1>2, <2>1, <2>2, AppendProperties DEF Accept
    <2>4. state' \in [Conns -> [Sides -> {"idle", "queued", "run", "left", "dead"}]]
      BY <1>2, <2>2 DEF Accept, TypeOK, Sides
    <2>5. backlog' \in Seq(Conns) /\ UNCHANGED <<lab, up, pc, line, net, history>>
      BY <1>2, <2>2 DEF Accept
    <2>6. QED
      BY <2>3, <2>4, <2>5 DEF TypeOK, history
  <1>3. CASE HasEnded
    <2>1. backlog' \in Seq(Conns)
      <3>1. <<>> \in Seq(Conns) /\ backlog \in Seq(Conns)
        BY EmptySeq DEF TypeOK
      <3>2. QED
        BY <1>3, <3>1 DEF HasEnded
    <2>2. QED
      BY <1>3, <2>1 DEF HasEnded, TypeOK
  <1>4. ASSUME NEW c \in Conns, HasConnected(c) PROVE TypeOK'
    <2>1. backlog' \in Seq(Conns)
      BY <1>4, AppendProperties DEF HasConnected, TypeOK
    <2>2. [client |-> "run", server |-> "queued"]
             \in [Sides -> {"idle", "queued", "run", "left", "dead"}]
      BY DEF Sides
    <2>3. state' \in [Conns -> [Sides -> {"idle", "queued", "run", "left", "dead"}]]
      BY <1>4, <2>2 DEF HasConnected, TypeOK
    <2>4. QED
      BY <1>4, <2>1, <2>3 DEF HasConnected, TypeOK, history
  <1>5. ASSUME NEW c \in Conns, WasUnserved(c) PROVE TypeOK'
    <2>1. state' \in [Conns -> [Sides -> {"idle", "queued", "run", "left", "dead"}]]
      BY <1>5 DEF WasUnserved, TypeOK, Sides
    <2>2. QED
      BY <1>5, <2>1 DEF WasUnserved, TypeOK, history
  <1>6. ASSUME NEW c \in Conns, NEW s \in Sides, Walks(c, s) PROVE TypeOK'
    <2>1. UNCHANGED <<lab, up, backlog, state, ar>> /\ pc' \in [Conns -> [Sides -> 1..5]]
      BY <1>6, WalksWhere, WalkFacts
    <2>2. ASSUME UNCHANGED history PROVE /\ spoken' \subseteq Conns /\ bye' \subseteq spoken'
                                         /\ refused' \subseteq Conns
      BY <2>2 DEF TypeOK, history
    <2>3. ASSUME net' = net PROVE /\ net' \in [Conns -> [Sides -> Seq(Messages)]]
                                  /\ \A d \in Conns, t \in Sides : Len(net'[d][t]) <= Buf
      BY <2>3 DEF TypeOK
    <2>4. ASSUME line' = line PROVE line' \in [Conns -> [Sides -> Typed \cup Messages \cup {""}]]
      BY <2>4 DEF TypeOK
    <2>a. line \in [Conns -> [Sides -> Typed \cup Messages \cup {""}]]
      BY DEF TypeOK
    <2>b. Buf \in Nat /\ \A d \in Conns, t \in Sides : Len(net[d][t]) <= Buf
      BY StreamLabsAssumption DEF TypeOK
    <2>5. CASE HasTyped(c, s)
      <3>1. line' \in [Conns -> [Sides -> Typed \cup Messages \cup {""}]]
        <4>1. PICK l \in Typed : line' = [line EXCEPT ![c][s] = l]
          BY <2>5 DEF HasTyped
        <4>2. l \in Typed \cup Messages \cup {""}
          OBVIOUS
        <4>3. QED
          BY <2>a, <4>1, <4>2
      <3>2. UNCHANGED <<net, history>>
        BY <2>5 DEF HasTyped
      <3>3. QED
        BY <2>1, <2>2, <2>3, <3>1, <3>2 DEF TypeOK
    <2>6. CASE HasPut(c, s)
      <3>1. PICK m \in Messages :
               /\ Len(net[c][Other(s)]) < Buf
               /\ Enters(c, Other(s), m)
               /\ spoken' = IF s = "client" THEN spoken \cup {c} ELSE spoken
               /\ bye' = IF s = "client" /\ m = "word" /\ (lab = "chat" => c \in spoken)
                         THEN bye \cup {c} ELSE bye
               /\ UNCHANGED <<line, refused>>
        BY <2>6 DEF HasPut
      <3>2. Other(s) \in Sides
        BY ProgFacts
      <3>3. /\ net' \in [Conns -> [Sides -> Seq(Messages)]] /\ Len(net[c][Other(s)]) \in Nat
            /\ Len(net'[c][Other(s)]) = Len(net[c][Other(s)]) + 1
            /\ \A d \in Conns, t \in Sides : (d # c \/ t # Other(s)) => net'[d][t] = net[d][t]
        BY <3>1, <3>2, PutFacts
      <3>a. Len(net[c][Other(s)]) < Buf
        BY <3>1
      <3>4. \A d \in Conns, t \in Sides : Len(net'[d][t]) <= Buf
        <4> SUFFICES ASSUME NEW d \in Conns, NEW t \in Sides PROVE Len(net'[d][t]) <= Buf
          OBVIOUS
        <4>1. CASE d = c /\ t = Other(s)
          BY <2>b, <3>a, <3>3, <4>1
        <4>2. CASE d # c \/ t # Other(s)
          BY <2>b, <3>3, <4>2
        <4>3. QED
          BY <4>1, <4>2
      <3>5. spoken' \subseteq Conns /\ bye' \subseteq spoken' /\ refused' \subseteq Conns
        BY <3>1 DEF TypeOK
      <3>6. QED
        BY <2>1, <2>4, <3>1, <3>3, <3>4, <3>5 DEF TypeOK
    <2>7. CASE HasGot(c, s)
      <3>1. /\ net[c][s] # <<>> /\ Leaves(c, s)
            /\ line' = [line EXCEPT ![c][s] = IF At(c, s, "read") THEN Head(net[c][s]) ELSE @]
            /\ UNCHANGED history
        BY <2>7 DEF HasGot
      <3>2. /\ net' \in [Conns -> [Sides -> Seq(Messages)]] /\ Head(net[c][s]) \in Messages
            /\ Len(net[c][s]) \in Nat \ {0} /\ Len(net'[c][s]) = Len(net[c][s]) - 1
            /\ \A d \in Conns, t \in Sides : (d # c \/ t # s) => net'[d][t] = net[d][t]
        BY <3>1, GetFacts
      <3>3. \A d \in Conns, t \in Sides : Len(net'[d][t]) <= Buf
        <4> SUFFICES ASSUME NEW d \in Conns, NEW t \in Sides PROVE Len(net'[d][t]) <= Buf
          OBVIOUS
        <4>0. Len(net[c][s]) <= Buf
          BY <2>b
        <4>1. CASE d = c /\ t = s
          BY <2>b, <3>2, <4>0, <4>1
        <4>2. CASE d # c \/ t # s
          BY <2>b, <3>2, <4>2
        <4>3. QED
          BY <4>1, <4>2
      <3>4. line' \in [Conns -> [Sides -> Typed \cup Messages \cup {""}]]
        <4>1. line' = [line EXCEPT ![c][s] = IF At(c, s, "read") THEN Head(net[c][s]) ELSE @]
          BY <3>1
        <4>2. Head(net[c][s]) \in Typed \cup Messages \cup {""}
          BY <3>2
        <4>3. QED
          BY <2>a, <4>1, <4>2
      <3>5. QED
        BY <2>1, <2>2, <3>1, <3>2, <3>3, <3>4 DEF TypeOK
    <2>8. CASE WasRefused(c, s)
      <3>1. /\ refused' = IF s = "server" THEN refused \cup {c} ELSE refused
            /\ UNCHANGED <<net, line, spoken, bye>>
        BY <2>8 DEF WasRefused
      <3>2. QED
        BY <2>1, <2>3, <2>4, <3>1 DEF TypeOK
    <2>9. CASE HasLost(c, s) \/ WasOver(c, s) \/ HasPassed(c, s)
      <3>1. UNCHANGED <<net, line, history>>
        BY <2>9 DEF HasLost, WasOver, HasPassed
      <3>2. QED
        BY <2>1, <2>2, <2>3, <2>4, <3>1 DEF TypeOK
    <2>10. QED
      BY <1>6, <2>5, <2>6, <2>7, <2>8, <2>9 DEF Walks
  <1>7. QED
    BY <1>0, <1>1, <1>2, <1>3, <1>4, <1>5, <1>6, StepKinds

-----------------------------------------------------------------------------
(* What a walk of one side leaves alone. *)
LEMMA Elsewhere ==
    ASSUME TypeOK, InCode, NEW c \in Conns, NEW s \in Sides, Walks(c, s)
    PROVE  /\ Runs(c, s) /\ UNCHANGED <<lab, up, backlog, state, ar>>
           /\ \A d \in Conns, t \in Sides : (d # c \/ t # s) =>
                 pc'[d][t] = pc[d][t] /\ line'[d][t] = line[d][t]
           /\ \A d \in Conns, t \in Sides : d # c => net'[d][t] = net[d][t]
           /\ net[c][s] = <<>> => net'[c][s] = net[c][s]
           /\ bye \subseteq bye' /\ bye' \subseteq bye \cup {c}
           /\ spoken \subseteq spoken' /\ spoken' \subseteq spoken \cup {c}
           /\ s # "client" => bye' = bye /\ spoken' = spoken
  <1>1. Runs(c, s) /\ UNCHANGED <<lab, up, backlog, state, ar>>
        /\ \A d \in Conns, t \in Sides : (d # c \/ t # s) => pc'[d][t] = pc[d][t]
    <2>1. PICK n \in {NextPc(c, s), Prog(s).loop} : Walked(c, s, n)
      BY WalksWhere
    <2>2. \A d \in Conns, t \in Sides : (d # c \/ t # s) => pc'[d][t] = pc[d][t]
      BY <2>1, WalkFacts
    <2>3. QED
      BY <2>2, WalksWhere
  <1>2. Other(s) \in Sides /\ Other(s) # s
    BY ProgFacts
  <1>a. line \in [Conns -> [Sides -> Typed \cup Messages \cup {""}]]
    BY DEF TypeOK
  <1>3. \A d \in Conns, t \in Sides : (d # c \/ t # s) => line'[d][t] = line[d][t]
    <2>1. CASE line' = line
      BY <2>1
    <2>2. ASSUME NEW l, line' = [line EXCEPT ![c][s] = l]
          PROVE  \A d \in Conns, t \in Sides : (d # c \/ t # s) => line'[d][t] = line[d][t]
      BY <1>a, <2>2
    <2>3. CASE HasGot(c, s)
      <3> DEFINE l == IF At(c, s, "read") THEN Head(net[c][s]) ELSE line[c][s]
      <3>1. line' = [line EXCEPT ![c][s] = l]
        BY <1>a, <2>3 DEF HasGot
      <3> HIDE DEF l
      <3>2. QED
        BY <2>2, <3>1
    <2>4. CASE HasTyped(c, s)
      BY <2>2, <2>4 DEF HasTyped
    <2>5. QED
      BY <2>1, <2>3, <2>4 DEF Walks, HasPut, HasLost, WasRefused, WasOver, HasPassed
  <1>4. /\ \A d \in Conns, t \in Sides : d # c => net'[d][t] = net[d][t]
        /\ net[c][s] = <<>> => net'[c][s] = net[c][s]
    <2>1. CASE net' = net
      BY <2>1
    <2>2. CASE HasPut(c, s)
      <3>1. PICK m \in Messages : Enters(c, Other(s), m)
        BY <2>2 DEF HasPut
      <3>2. QED
        BY <1>2, <3>1, PutFacts
    <2>3. CASE HasGot(c, s)
      <3>1. Leaves(c, s) /\ net[c][s] # <<>>
        BY <2>3 DEF HasGot
      <3>2. QED
        BY <3>1, GetFacts
    <2>4. QED
      BY <2>1, <2>2, <2>3 DEF Walks, HasTyped, HasLost, WasRefused, WasOver, HasPassed
  <1>5. /\ bye \subseteq bye' /\ bye' \subseteq bye \cup {c}
        /\ spoken \subseteq spoken' /\ spoken' \subseteq spoken \cup {c}
        /\ s # "client" => bye' = bye /\ spoken' = spoken
    BY DEF Walks, HasTyped, HasPut, HasLost, WasRefused, HasGot, WasOver, HasPassed, history
  <1>6. QED
    BY <1>1, <1>3, <1>4, <1>5

(* The programs are at their calls. *)
LEMMA StepInCode ==
    ASSUME TypeOK, InCode, [Next]_vars
    PROVE  InCode'
  <1>0. ASSUME UNCHANGED <<lab, pc, line>> PROVE InCode'
    BY <1>0 DEF InCode, Prog
  <1>1. ASSUME NEW c \in Conns, NEW s \in Sides, Walks(c, s) PROVE InCode'
    <2>1. PICK n \in {NextPc(c, s), Prog(s).loop} : Walked(c, s, n)
      BY <1>1, WalksWhere
    <2>2. /\ n \in 1..Len(Prog(s).code) /\ pc'[c][s] = n
          /\ Prog(s).code[n] = "write" => Prog(s).code[pc[c][s]] = "type"
      BY <2>1, WalkFacts
    <2>3. ASSUME Prog(s).code[n] = "write" PROVE line'[c][s] \in Typed
      <3>1. HasTyped(c, s)
        BY <1>1, <2>2, <2>3, WalksWhere
      <3>2. PICK l \in Typed : line' = [line EXCEPT ![c][s] = l]
        BY <3>1 DEF HasTyped
      <3>3. QED
        BY <3>2 DEF TypeOK
    <2>4. \A t \in Sides : Prog(t)' = Prog(t)
      BY <1>1, WalksWhere DEF Prog
    <2>5. QED
      BY <1>1, <2>2, <2>3, <2>4, Elsewhere DEF InCode
  <1>2. QED
    <2>1. CASE UNCHANGED vars \/ Start \/ Accept \/ HasEnded
      BY <1>0, <2>1 DEF vars, Start, Accept, HasEnded
    <2>2. ASSUME NEW c \in Conns, HasConnected(c) \/ WasUnserved(c) PROVE InCode'
      BY <1>0, <2>2 DEF HasConnected, WasUnserved
    <2>3. QED
      BY <1>1, <2>1, <2>2, StepKinds

(* Nothing happens to a connection before it is accepted. *)
LEMMA StepFresh ==
    ASSUME TypeOK, InCode, Fresh, Waiting, [Next]_vars
    PROVE  Fresh'
  <1> USE DEF Fresh
  <1>0. CASE UNCHANGED vars
    BY <1>0 DEF vars, history
  <1>1. CASE Start
    BY <1>1 DEF Start, history
  <1>2. CASE Accept
    <2>1. state' = [state EXCEPT ![Head(backlog)].server = "run"] /\ UNCHANGED <<pc, net, history>>
      BY <1>2 DEF Accept
    <2>2. backlog \in Seq(Conns) /\ backlog # <<>>
      BY <1>2 DEF Accept, TypeOK
    <2>3. Len(backlog) \in Nat \ {0} /\ Head(backlog) = backlog[1] /\ backlog[1] \in Conns
      BY <2>2, EmptySeq, ElementOfSeq
    <2>4. state[Head(backlog)].server = "queued"
      BY <2>3 DEF Waiting
    <2>5. \A d \in Conns : /\ state'[d].client = state[d].client
                           /\ d # Head(backlog) => state'[d].server = state[d].server
                           /\ d = Head(backlog) => state'[d].server = "run"
      <3>1. state \in [Conns -> [Sides -> {"idle", "queued", "run", "left", "dead"}]]
        BY DEF TypeOK
      <3>2. state' = [state EXCEPT ![Head(backlog)] = [state[Head(backlog)] EXCEPT !.server = "run"]]
        BY <2>1
      <3>3. \A d \in Conns : d # Head(backlog) => state'[d] = state[d]
        BY <3>1, <3>2
      <3>4. state'[Head(backlog)] = [state[Head(backlog)] EXCEPT !.server = "run"]
        BY <2>3, <3>1, <3>2
      <3>5. state'[Head(backlog)].server = "run"
            /\ state'[Head(backlog)].client = state[Head(backlog)].client
        BY <2>3, <3>1, <3>4 DEF Sides
      <3>6. QED
        BY <3>3, <3>5
    <2>6. QED
      BY <2>1, <2>4, <2>5 DEF history
  <1>3. CASE HasEnded
    <2>1. UNCHANGED <<pc, net, spoken>>
      BY <1>3 DEF HasEnded
    <2>2. \A d \in Conns : /\ state'[d].client = "idle" => state[d].client = "idle"
                           /\ state'[d].server \in {"idle", "queued"} => state'[d].server = state[d].server
                           /\ state[d].server = "idle" => state'[d].server = "idle"
      BY <1>3 DEF HasEnded, Sides, Gone
    <2>3. QED
      BY <2>1, <2>2
  <1>4. ASSUME NEW c \in Conns, HasConnected(c) PROVE Fresh'
    <2>1. \A d \in Conns : /\ d # c => state'[d] = state[d]
                           /\ d = c => state'[d].client = "run" /\ state'[d].server = "queued"
      BY <1>4 DEF HasConnected, TypeOK
    <2>2. UNCHANGED <<pc, net, spoken>> /\ state[c].client = "idle"
      BY <1>4 DEF HasConnected, history
    <2>3. QED
      BY <2>1, <2>2
  <1>5. ASSUME NEW c \in Conns, WasUnserved(c) PROVE Fresh'
    <2>1. \A d \in Conns : /\ d # c => state'[d] = state[d]
                           /\ state'[d].server = state[d].server
                           /\ state'[c].client = "dead"
      <3>1. state \in [Conns -> [Sides -> {"idle", "queued", "run", "left", "dead"}]]
        BY DEF TypeOK
      <3>2. state' = [state EXCEPT ![c].client = "dead"]
        BY <1>5 DEF WasUnserved
      <3>3. QED
        BY <3>1, <3>2 DEF Sides
    <2>2. UNCHANGED <<pc, net, spoken>>
      BY <1>5 DEF WasUnserved, history
    <2>3. QED
      BY <2>1, <2>2
  <1>6. ASSUME NEW c \in Conns, NEW s \in Sides, Walks(c, s) PROVE Fresh'
    <2>1. /\ state[c][s] = "run" /\ state' = state
          /\ \A d \in Conns, t \in Sides : (d # c \/ t # s) => pc'[d][t] = pc[d][t]
          /\ \A d \in Conns, t \in Sides : d # c => net'[d][t] = net[d][t]
          /\ net[c][s] = <<>> => net'[c][s] = net[c][s]
          /\ spoken' \subseteq spoken \cup {c}
      BY <1>6, Elsewhere DEF Runs
    <2>2. \A d \in Conns : state[d].client = "idle" => d # c
      BY <2>1 DEF Sides
    <2>3. \A d \in Conns : state[d].server \in {"idle", "queued"} => d # c \/ s = "client"
      BY <2>1 DEF Sides
    <2>4. "client" \in Sides /\ "server" \in Sides
      BY DEF Sides
    <2>5. QED
      BY <2>1, <2>2, <2>3, <2>4
  <1>7. QED
    BY <1>0, <1>1, <1>2, <1>3, <1>4, <1>5, <1>6, StepKinds

(* The backlog holds those that wait. *)
LEMMA StepWaiting ==
    ASSUME TypeOK, InCode, Fresh, Waiting, [Next]_vars
    PROVE  Waiting'
  <1>a. backlog \in Seq(Conns) /\ Len(backlog) \in Nat /\ \A i \in 1..Len(backlog) : backlog[i] \in Conns
    <2>1. backlog \in Seq(Conns)
      BY DEF TypeOK
    <2>2. QED
      BY <2>1, LenProperties, ElementOfSeq
  <1>0. CASE UNCHANGED <<backlog, state>>
    BY <1>0 DEF Waiting
  <1>2. CASE Accept
    <2>1. state' = [state EXCEPT ![Head(backlog)].server = "run"]
          /\ backlog' = Tail(backlog) /\ backlog # <<>>
      BY <1>2 DEF Accept
    <2>2. Len(backlog) \in Nat \ {0} /\ Head(backlog) = backlog[1]
      BY <1>a, <2>1, EmptySeq
    <2>3. /\ Len(backlog') = Len(backlog) - 1
          /\ \A i \in 1..Len(backlog') : backlog'[i] = backlog[i + 1]
      BY <1>a, <2>1, HeadTailProperties
    <2>4. \A d \in Conns : d # backlog[1] => state'[d] = state[d]
      BY <2>1, <2>2 DEF TypeOK
    <2>5. \A i \in 1..Len(backlog') : /\ i + 1 \in 1..Len(backlog) /\ i + 1 # 1
                                      /\ backlog[i + 1] # backlog[1]
                                      /\ state[backlog[i + 1]].server = "queued"
      BY <2>2, <2>3 DEF Waiting
    <2>6. \A i \in 1..Len(backlog') : state'[backlog'[i]].server = "queued"
      BY <1>a, <2>3, <2>4, <2>5
    <2>7. \A i, j \in 1..Len(backlog') : backlog'[i] = backlog'[j] => i = j
      <3> SUFFICES ASSUME NEW i \in 1..Len(backlog'), NEW j \in 1..Len(backlog'),
                          backlog'[i] = backlog'[j]
                   PROVE  i = j
        OBVIOUS
      <3>1. i + 1 = j + 1
        BY <2>3, <2>5 DEF Waiting
      <3>2. i \in Int /\ j \in Int
        BY <2>2, <2>3
      <3>3. QED
        BY <3>1, <3>2
    <2>8. QED
      BY <2>6, <2>7 DEF Waiting
  <1>3. CASE HasEnded
    <2>1. CASE backlog' = <<>>
      <3>1. Len(<<>>) = 0
        BY EmptySeq
      <3>2. QED
        BY <2>1, <3>1 DEF Waiting
    <2>2. CASE backlog' = backlog /\ \A d \in Conns : state[d].server = "queued"
                                                         => state'[d].server = "queued"
      BY <1>a, <2>2 DEF Waiting
    <2>3. QED
      BY <1>3, <2>1, <2>2 DEF HasEnded
  <1>4. ASSUME NEW c \in Conns, HasConnected(c) PROVE Waiting'
    <2>1. \A d \in Conns : /\ d # c => state'[d] = state[d]
                           /\ d = c => state'[d].server = "queued"
      BY <1>4 DEF HasConnected, TypeOK
    <2>2. /\ Len(backlog') = Len(backlog) + 1 /\ backlog'[Len(backlog) + 1] = c
          /\ \A i \in 1..Len(backlog) : backlog'[i] = backlog[i]
      BY <1>4, <1>a, AppendProperties DEF HasConnected
    <2>3. \A i \in 1..Len(backlog) : backlog[i] # c
      BY <1>4 DEF HasConnected, Fresh, Waiting
    <2>4. \A i \in 1..Len(backlog') : i \in 1..Len(backlog) \/ i = Len(backlog) + 1
      BY <1>a, <2>2
    <2>5. \A i \in 1..Len(backlog') : state'[backlog'[i]].server = "queued"
      BY <1>a, <2>1, <2>2, <2>3, <2>4 DEF Waiting
    <2>6. \A i, j \in 1..Len(backlog') : backlog'[i] = backlog'[j] => i = j
      BY <2>2, <2>3, <2>4 DEF Waiting
    <2>7. QED
      BY <2>5, <2>6 DEF Waiting
  <1>5. ASSUME NEW c \in Conns, WasUnserved(c) PROVE Waiting'
    <2>1. \A d \in Conns : state'[d].server = state[d].server
      BY <1>5 DEF WasUnserved, TypeOK, Sides
    <2>2. backlog' = backlog
      BY <1>5 DEF WasUnserved
    <2>3. QED
      BY <1>a, <2>1, <2>2 DEF Waiting
  <1>6. ASSUME NEW c \in Conns, NEW s \in Sides, Walks(c, s) PROVE UNCHANGED <<backlog, state>>
    BY <1>6, WalksWhere
  <1>7. QED
    BY <1>0, <1>2, <1>3, <1>4, <1>5, <1>6, StepKinds DEF vars, Start

-----------------------------------------------------------------------------
(* What a step of others does to a connection: at most it is accepted, is  *)
(* begun, or loses a side.                                                 *)
Stays(c) ==
    /\ \A t \in Sides : pc'[c][t] = pc[c][t] /\ line'[c][t] = line[c][t] /\ net'[c][t] = net[c][t]
    /\ (c \in spoken' <=> c \in spoken) /\ (c \in bye' <=> c \in bye) /\ (c \in refused => c \in refused')
    /\ \/ \A t \in Sides : state'[c][t] = state[c][t] \/ (state[c][t] \in {"run", "queued"} /\ Gone(c, t)')
       \/ /\ state[c].server = "queued" /\ state'[c].server = "run"
          /\ state'[c].client = state[c].client
       \/ /\ state[c].client = "idle" /\ state'[c].client = "run" /\ state'[c].server = "queued"
       \/ /\ state[c].client = "idle" /\ state'[c].client = "dead"
          /\ state'[c].server = state[c].server

LEMMA OneConnection ==
    ASSUME TypeOK, InCode, Waiting, [Next]_vars, NEW c \in Conns
    PROVE  /\ Stays(c) \/ \E s \in Sides : Walks(c, s)
           /\ lab' = lab /\ \A s \in Sides : Prog(s)' = Prog(s)
  <1>a. state \in [Conns -> [Sides -> {"idle", "queued", "run", "left", "dead"}]]
    BY DEF TypeOK
  <1>0. CASE UNCHANGED vars
    BY <1>0 DEF vars, history, Stays, Prog
  <1>1. CASE Start
    BY <1>1 DEF Start, history, Stays, Prog
  <1>2. CASE Accept
    <2>1. /\ state' = [state EXCEPT ![Head(backlog)].server = "run"]
          /\ UNCHANGED <<lab, pc, line, net, history>> /\ backlog # <<>>
      BY <1>2 DEF Accept
    <2>2. backlog \in Seq(Conns)
      BY DEF TypeOK
    <2>3. Len(backlog) \in Nat \ {0} /\ Head(backlog) = backlog[1] /\ backlog[1] \in Conns
      BY <2>1, <2>2, EmptySeq, ElementOfSeq
    <2>4. state[Head(backlog)].server = "queued"
      BY <2>3 DEF Waiting
    <2>5. CASE c = Head(backlog)
      <3>1. state'[c] = [state[c] EXCEPT !.server = "run"]
        BY <1>a, <2>1, <2>5
      <3>2. state'[c].server = "run" /\ state'[c].client = state[c].client
        BY <1>a, <3>1 DEF Sides
      <3>3. QED
        BY <2>1, <2>4, <2>5, <3>2 DEF Stays, history, Prog
    <2>6. CASE c # Head(backlog)
      <3>1. state'[c] = state[c]
        BY <1>a, <2>1, <2>6
      <3>2. QED
        BY <2>1, <3>1 DEF Stays, history, Prog
    <2>7. QED
      BY <2>5, <2>6
  <1>3. CASE HasEnded
    BY <1>3 DEF HasEnded, Stays, Prog
  <1>4. ASSUME NEW d \in Conns, HasConnected(d) PROVE Stays(c) /\ lab' = lab
    <2>1. /\ d # c => state'[c] = state[c]
          /\ d = c => state[c].client = "idle" /\ state'[c].client = "run"
                      /\ state'[c].server = "queued"
      BY <1>4, <1>a DEF HasConnected
    <2>2. QED
      BY <1>4, <2>1 DEF HasConnected, Stays, history
  <1>5. ASSUME NEW d \in Conns, WasUnserved(d) PROVE Stays(c) /\ lab' = lab
    <2>1. /\ d # c => state'[c] = state[c]
          /\ d = c => state[c].client = "idle" /\ state'[c].client = "dead"
                      /\ state'[c].server = state[c].server
      BY <1>5, <1>a DEF WasUnserved, Sides
    <2>2. QED
      BY <1>5, <2>1 DEF WasUnserved, Stays, history
  <1>6. ASSUME NEW d \in Conns, NEW s \in Sides, Walks(d, s), d # c PROVE Stays(c)
    <2>1. \A t \in Sides : pc'[c][t] = pc[c][t] /\ line'[c][t] = line[c][t]
                           /\ net'[c][t] = net[c][t] /\ state'[c][t] = state[c][t]
      BY <1>6, Elsewhere
    <2>2. (c \in spoken' <=> c \in spoken) /\ (c \in bye' <=> c \in bye)
      BY <1>6, Elsewhere
    <2>3. c \in refused => c \in refused'
      BY <1>6 DEF Walks, HasTyped, HasPut, HasLost, WasRefused, HasGot, WasOver, HasPassed, history
    <2>4. QED
      BY <2>1, <2>2, <2>3 DEF Stays
  <1>7. ASSUME NEW d \in Conns, NEW s \in Sides, Walks(d, s) PROVE lab' = lab
    BY <1>7, WalksWhere
  <1>8. QED
    BY <1>0, <1>1, <1>2, <1>3, <1>4, <1>5, <1>6, <1>7, StepKinds DEF Prog

(* A client that has spoken has connected: its server side does not come   *)
(* back.                                                                   *)
LEMMA StaysSpoken ==
    ASSUME Fresh, NEW c \in Conns, Stays(c), c \in spoken
    PROVE  /\ ~Gone(c, "server")' => ~Gone(c, "server")
           /\ Runs(c, "server") /\ ~Gone(c, "server")' => Runs(c, "server")'
  BY DEF Fresh, Stays, Gone, Runs, Sides

(* The programs of the exercises, where the order of the calls counts.     *)
LEMMA ChatPrograms ==
    ASSUME lab = "chat"
    PROVE  Prog("server").code = <<"read", "read", "test">> /\ Prog("server").loop = 2
  <1>1. Prog("server") = ChatHandler
    BY DEF Prog, Lab, Exercise
  <1>2. QED
    BY <1>1 DEF ChatHandler, Program

LEMMA LinesPrograms ==
    ASSUME lab = "lines"
    PROVE  Prog("server").code = <<"test", "read">> /\ Prog("server").loop = 1
  <1>1. Prog("server") = LinesServer
    BY DEF Prog, Lab, Exercise
  <1>2. QED
    BY <1>1 DEF LinesServer, Program

LEMMA DatePrograms ==
    ASSUME lab = "date"
    PROVE  /\ Prog("server").code = <<"prompt", "read", "test", "answer">>
           /\ Prog("server").loop = 1 /\ Prog("server").catch = "loop"
           /\ Prog("client").code = <<"skip", "type", "write", "test", "skip">>
           /\ Prog("client").loop = 1 /\ Prog("client").catch = "end"
  <1>1. Prog("server") = DateHandler /\ Prog("client") = DateClient
    BY DEF Prog, Lab, Exercise
  <1>2. QED
    BY <1>1 DEF DateHandler, DateClient, Program

LEMMA TalkPrograms ==
    ASSUME lab = "talk"
    PROVE  /\ Prog("server").code = <<"test", "read", "type", "write">>
           /\ Prog("server").loop = 1 /\ Prog("server").catch = "loop"
           /\ Prog("client").code = <<"test", "type", "write", "read">>
           /\ Prog("client").loop = 1 /\ Prog("client").catch = "loop"
  <1>1. Prog("server") = TalkServer /\ Prog("client") = TalkClient
    BY DEF Prog, Lab, Exercise
  <1>2. QED
    BY <1>1 DEF TalkServer, TalkClient, Program

LEMMA TimePrograms ==
    ASSUME lab = "time"
    PROVE  /\ Prog("server").code = <<"answer", "exit">>
           /\ Prog("server").loop = 1 /\ Prog("server").catch = "end"
           /\ Prog("client").code = <<"skip", "exit">>
           /\ Prog("client").loop = 1 /\ Prog("client").catch = "end"
  <1>1. Prog("server") = TimeServer /\ Prog("client") = TimeClient
    BY DEF Prog, Lab, Exercise
  <1>2. QED
    BY <1>1 DEF TimeServer, TimeClient, Program

LEMMA TimeServes ==
    ASSUME lab = "time"
    PROVE  Lab[lab].serves = "one by one"
  BY DEF Lab, Exercise

(* What is on the way between two sides is a sequence of messages. *)
LEMMA NetFacts ==
    ASSUME NEW f \in [Conns -> [Sides -> Seq(Messages)]], NEW c \in Conns
    PROVE  f[c].client \in Seq(Messages) /\ f[c].server \in Seq(Messages)
  <1>1. f[c] \in [Sides -> Seq(Messages)]
    OBVIOUS
  <1>2. "client" \in Sides /\ "server" \in Sides
    BY DEF Sides
  <1>3. f[c]["client"] \in Seq(Messages) /\ f[c]["server"] \in Seq(Messages)
    BY <1>1, <1>2
  <1>4. QED
    BY <1>3

(* The reader of such a server looks for the word in what it has read.     *)
LEMMA LeavingReads ==
    ASSUME InCode, lab \in Leaving, NEW c \in Conns,
           At(c, "server", "read") \/ At(c, "server", "skip"), lab = "chat" => pc[c].server # 1
    PROVE  At(c, "server", "read") /\ Prog("server").code[NextPc(c, "server")] = "test"
  <1>0. pc[c].server \in 1..Len(Prog("server").code)
    BY DEF InCode, Sides
  <1>1. CASE lab = "chat"
    <2>1. Len(Prog("server").code) = 3 /\ pc[c].server \in 1..3
      BY <1>0, <1>1, ChatPrograms
    <2>2. pc[c].server = 2
      BY <1>1, <2>1, ChatPrograms DEF At
    <2>3. pc[c].server # Len(Prog("server").code)
      BY <2>1, <2>2
    <2>b. NextPc(c, "server") = pc[c].server + 1
      BY <2>3 DEF NextPc
    <2>4. QED
      BY <1>1, <2>2, <2>b, ChatPrograms DEF At
  <1>2. CASE lab = "date"
    <2>1. Len(Prog("server").code) = 4 /\ pc[c].server \in 1..4
      BY <1>0, <1>2, DatePrograms
    <2>2. pc[c].server = 2
      BY <1>2, <2>1, DatePrograms DEF At
    <2>3. pc[c].server # Len(Prog("server").code)
      BY <2>1, <2>2
    <2>b. NextPc(c, "server") = pc[c].server + 1
      BY <2>3 DEF NextPc
    <2>4. QED
      BY <1>2, <2>2, <2>b, DatePrograms DEF At
  <1>3. CASE lab = "lines"
    <2>1. Len(Prog("server").code) = 2 /\ pc[c].server \in 1..2 /\ Prog("server").loop = 1
      BY <1>0, <1>3, LinesPrograms
    <2>2. pc[c].server = 2
      BY <1>3, <2>1, LinesPrograms DEF At
    <2>3. NextPc(c, "server") = 1
      BY <2>1, <2>2 DEF NextPc
    <2>4. QED
      BY <1>3, <2>2, <2>3, LinesPrograms DEF At
  <1>4. QED
    BY <1>1, <1>2, <1>3 DEF Leaving

(* The handler of the chat reads the name once. *)
LEMMA ChatPastName ==
    ASSUME TypeOK, InCode, lab = "chat", NEW c \in Conns, Walks(c, "server")
    PROVE  pc'[c].server # 1
  <1>1. pc[c].server \in 1..Len(Prog("server").code) /\ "server" \in Sides
    BY DEF InCode, Sides
  <1>2. PICK n \in {NextPc(c, "server"), Prog("server").loop} : Walked(c, "server", n)
    BY <1>1, WalksWhere
  <1>3. pc'[c].server = n
    BY <1>1, <1>2, WalkFacts
  <1>4. n # 1
    BY <1>1, <1>2, ChatPrograms DEF NextPc
  <1>5. QED
    BY <1>3, <1>4

(* What a walk of one side does to the two streams of its connection.      *)
SameNet(c) == \A t \in Sides : net'[c][t] = net[c][t]
Added(c, t, m) ==
    /\ Len(net'[c][t]) = Len(net[c][t]) + 1 /\ net'[c][t] # <<>>
    /\ net'[c][t][Len(net[c][t]) + 1] = m
    /\ \A i \in 1..Len(net[c][t]) : net'[c][t][i] = net[c][t][i]
    /\ \A u \in Sides : u # t => net'[c][u] = net[c][u]
Taken(c, t) ==
    /\ Len(net[c][t]) \in Nat \ {0} /\ Len(net'[c][t]) = Len(net[c][t]) - 1
    /\ \A i \in 1..Len(net'[c][t]) : net'[c][t][i] = net[c][t][i + 1]
    /\ \A u \in Sides : u # t => net'[c][u] = net[c][u]

Call(c, s) == Prog(s).code[pc[c][s]]

Moves(c, s) ==
    \/ Call(c, s) = "type" /\ pc'[c][s] = NextPc(c, s) /\ SameNet(c)
    \/ Call(c, s) = "test" /\ line[c][s] # "word" /\ pc'[c][s] = NextPc(c, s) /\ SameNet(c)
    \/ /\ Call(c, s) \in {"write", "prompt", "answer", "ask"} /\ pc'[c][s] = NextPc(c, s)
       /\ Added(c, Other(s), IF Call(c, s) = "write" THEN line[c][s] ELSE Call(c, s))
    \/ /\ Call(c, s) = "write" /\ Prog(s).catch = "loop" /\ pc'[c][s] = Prog(s).loop
       /\ SameNet(c) /\ (s = "server" => c \in refused')
    \/ /\ Call(c, s) \in {"read", "skip"} /\ pc'[c][s] = NextPc(c, s)
       /\ Taken(c, s) /\ line'[c][s] = IF Call(c, s) = "read" THEN net[c][s][1] ELSE line[c][s]
    \/ /\ Call(c, s) \in {"write", "prompt", "answer", "ask"} /\ Gone(c, Other(s)) /\ SameNet(c)
       /\ pc'[c][s] = NextPc(c, s) \/ (Prog(s).catch = "loop" /\ pc'[c][s] = Prog(s).loop)
    \/ /\ Call(c, s) \in {"read", "skip"} /\ Gone(c, Other(s)) /\ SameNet(c)
       /\ Prog(s).catch = "loop" /\ pc'[c][s] = Prog(s).loop

LEMMA WalkMoves ==
    ASSUME TypeOK, InCode, NEW c \in Conns, NEW s \in Sides, Walks(c, s)
    PROVE  Moves(c, s) /\ refused \subseteq refused'
  <1>1. /\ Walked(c, s, NextPc(c, s)) => pc'[c][s] = NextPc(c, s)
        /\ Walked(c, s, Prog(s).loop) => pc'[c][s] = Prog(s).loop
    BY WalkFacts
  <1>2. refused \subseteq refused'
    BY DEF Walks, HasTyped, HasPut, HasLost, WasRefused, HasGot, WasOver, HasPassed, history
  <1>3. Other(s) \in Sides /\ Other(s) # s
    BY ProgFacts
  <1>4. CASE HasTyped(c, s)
    BY <1>1, <1>2, <1>4 DEF HasTyped, At, Call, SameNet, Moves
  <1>5. CASE HasPut(c, s)
    <2>1. PICK m \in Messages : /\ Writes(c, s, m) /\ Walked(c, s, NextPc(c, s))
                                /\ Enters(c, Other(s), m)
      BY <1>5 DEF HasPut
    <2>2. Added(c, Other(s), m)
      BY <1>3, <2>1, PutFacts DEF Added
    <2>3. Call(c, s) \in {"write", "prompt", "answer", "ask"}
          /\ m = IF Call(c, s) = "write" THEN line[c][s] ELSE Call(c, s)
      BY <2>1 DEF Writes, At, Call
    <2>4. QED
      BY <1>1, <1>2, <2>1, <2>2, <2>3 DEF Moves
  <1>6. CASE HasLost(c, s)
    <2>1. Call(c, s) \in {"write", "prompt", "answer", "ask"}
      BY <1>6 DEF HasLost, Writes, At, Call
    <2>2. QED
      BY <1>1, <1>2, <1>6, <2>1 DEF HasLost, SameNet, Moves
  <1>7. CASE WasRefused(c, s)
    <2>1. s = "server" => c \in refused'
      BY <1>7 DEF WasRefused
    <2>2. QED
      BY <1>1, <1>2, <1>7, <2>1 DEF WasRefused, At, Call, SameNet, Moves
  <1>8. CASE HasGot(c, s)
    <2>1. /\ net[c][s] # <<>> /\ Leaves(c, s)
          /\ line' = [line EXCEPT ![c][s] = IF At(c, s, "read") THEN Head(net[c][s]) ELSE @]
      BY <1>8 DEF HasGot
    <2>2. Taken(c, s) /\ Head(net[c][s]) = net[c][s][1]
      BY <2>1, GetFacts DEF Taken
    <2>3. At(c, s, "read") <=> Call(c, s) = "read"
      BY <1>8 DEF HasGot, At, Call
    <2>4. line'[c][s] = IF Call(c, s) = "read" THEN net[c][s][1] ELSE line[c][s]
      <3>1. line \in [Conns -> [Sides -> Typed \cup Messages \cup {""}]]
        BY DEF TypeOK
      <3>2. QED
        BY <2>1, <2>2, <2>3, <3>1
    <2>5. QED
      BY <1>1, <1>2, <1>8, <2>2, <2>4 DEF HasGot, At, Call, Moves
  <1>9. CASE WasOver(c, s)
    BY <1>1, <1>2, <1>9 DEF WasOver, At, Call, SameNet, Moves
  <1>10. CASE HasPassed(c, s)
    BY <1>1, <1>2, <1>10 DEF HasPassed, At, Call, SameNet, Moves
  <1>11. QED
    BY <1>2, <1>4, <1>5, <1>6, <1>7, <1>8, <1>9, <1>10 DEF Walks

-----------------------------------------------------------------------------
(* The closing word arrives. *)
LEMMA StepWordKept ==
    ASSUME TypeOK, InCode, Fresh, Waiting, WordKept, NameFirst, [Next]_vars
    PROVE  WordKept'
  <1> SUFFICES ASSUME NEW c \in bye', (lab \in Leaving)', ~Gone(c, "server")'
               PROVE  Kept(c)'
    BY DEF WordKept
  <1>0. c \in Conns /\ "client" \in Sides /\ "server" \in Sides
    BY StepTypeOK DEF TypeOK, Sides
  <1>1. lab' = lab /\ lab \in Leaving /\ Prog("server")' = Prog("server")
    BY <1>0, OneConnection
  <1>2. bye \subseteq spoken /\ Len(net[c].server) \in Nat
    <2>1. bye \subseteq spoken /\ net[c].server \in Seq(Messages)
      BY <1>0 DEF TypeOK
    <2>2. QED
      BY <2>1, LenProperties
  <1>3. CASE Stays(c)
    <2>1. c \in bye /\ c \in spoken
      BY <1>2, <1>3 DEF Stays
    <2>2. ~Gone(c, "server") /\ (Runs(c, "server") => Runs(c, "server")')
      BY <1>0, <1>3, <2>1, StaysSpoken
    <2>3. Kept(c)
      BY <1>1, <2>1, <2>2 DEF WordKept
    <2>4. /\ pc'[c].server = pc[c].server /\ line'[c].server = line[c].server
          /\ net'[c].server = net[c].server
      BY <1>0, <1>3 DEF Stays
    <2>5. QED
      BY <1>1, <2>2, <2>3, <2>4 DEF Kept, At
  <1>4. CASE Walks(c, "client")
    <2>1. /\ UNCHANGED state /\ pc'[c].server = pc[c].server /\ line'[c].server = line[c].server
      BY <1>0, <1>4, Elsewhere
    <2>2. ~Gone(c, "server") /\ (At(c, "server", "test")' <=> At(c, "server", "test"))
      BY <1>1, <2>1 DEF Gone, At, Runs
    <2>3. CASE HasPut(c, "client")
      <3>1. PICK m \in Messages :
               /\ Enters(c, "server", m)
               /\ bye' = IF m = "word" /\ (lab = "chat" => c \in spoken) THEN bye \cup {c} ELSE bye
        BY <2>3 DEF HasPut, Other
      <3>2. /\ Len(net'[c].server) = Len(net[c].server) + 1
            /\ \A i \in 1..Len(net[c].server) : net'[c].server[i] = net[c].server[i]
            /\ net'[c].server[Len(net[c].server) + 1] = m
        BY <1>0, <3>1, PutFacts
      <3>3. CASE c \in bye
        <4>1. Kept(c)
          BY <1>1, <2>2, <3>3 DEF WordKept
        <4>2. CASE At(c, "server", "test") /\ line[c].server = "word"
          BY <2>1, <2>2, <4>2 DEF Kept
        <4>3. ASSUME NEW i \in 1..Len(net[c].server), net[c].server[i] = "word",
                     lab = "chat" /\ pc[c].server = 1 => i > 1
              PROVE  Kept(c)'
          <5>1. i \in 1..Len(net'[c].server) /\ net'[c].server[i] = "word"
            BY <1>2, <3>2, <4>3
          <5>2. QED
            BY <1>1, <2>1, <4>3, <5>1 DEF Kept
        <4>4. QED
          BY <4>1, <4>2, <4>3 DEF Kept
      <3>4. CASE c \notin bye
        <4> DEFINE i == Len(net[c].server) + 1
        <4>1. m = "word" /\ (lab = "chat" => c \in spoken)
          BY <3>1, <3>4
        <4>2. i \in 1..Len(net'[c].server) /\ net'[c].server[i] = "word"
          BY <1>2, <3>2, <4>1
        <4>3. lab = "chat" /\ pc[c].server = 1 => i > 1
          <5>1. ASSUME lab = "chat", pc[c].server = 1 PROVE net[c].server # <<>>
            BY <2>2, <4>1, <5>1 DEF NameFirst
          <5>2. net[c].server # <<>> => Len(net[c].server) # 0
            <6>1. net[c].server \in Seq(Messages)
              BY <1>0 DEF TypeOK
            <6>2. QED
              BY <6>1, EmptySeq
          <5>3. QED
            BY <1>2, <5>1, <5>2
        <4> HIDE DEF i
        <4>4. QED
          BY <1>1, <2>1, <4>2, <4>3 DEF Kept
      <3>5. QED
        BY <3>3, <3>4
    <2>4. CASE ~HasPut(c, "client")
      <3>1. bye' = bye
        BY <1>4, <2>4 DEF Walks, HasTyped, HasLost, WasRefused, HasGot, WasOver, HasPassed, history
      <3>2. net'[c].server = net[c].server
        <4>1. CASE HasGot(c, "client")
          <5>1. Leaves(c, "client") /\ net[c].client # <<>>
            BY <4>1 DEF HasGot
          <5>2. QED
            BY <1>0, <5>1, GetFacts
        <4>2. CASE ~HasGot(c, "client")
          BY <1>4, <2>4, <4>2 DEF Walks, HasTyped, HasLost, WasRefused, WasOver, HasPassed
        <4>3. QED
          BY <4>1, <4>2
      <3>3. Kept(c)
        BY <1>1, <2>2, <3>1 DEF WordKept
      <3>4. QED
        BY <1>1, <2>1, <2>2, <3>2, <3>3 DEF Kept
    <2>5. QED
      BY <2>3, <2>4
  <1>5. CASE Walks(c, "server")
    <2>1. UNCHANGED state /\ bye' = bye /\ Runs(c, "server")
      BY <1>0, <1>5, Elsewhere
    <2>2. ~Gone(c, "server") /\ Runs(c, "server")'
      BY <2>1 DEF Gone, Runs
    <2>3. Kept(c)
      BY <1>1, <2>1, <2>2 DEF WordKept
    <2>4. ~(At(c, "server", "test") /\ line[c].server = "word")
      BY <1>5 DEF Walks, HasTyped, HasPut, HasLost, WasRefused, HasGot, WasOver, HasPassed, At, Writes
    <2>5. PICK i \in 1..Len(net[c].server) :
             net[c].server[i] = "word" /\ (lab = "chat" /\ pc[c].server = 1 => i > 1)
      BY <2>3, <2>4 DEF Kept
    <2>6. lab = "chat" => pc'[c].server # 1
      BY <1>0, <1>5, ChatPastName
    <2>7. CASE HasGot(c, "server")
      <3>1. /\ net[c].server # <<>> /\ Leaves(c, "server")
            /\ At(c, "server", "read") \/ At(c, "server", "skip")
            /\ Walked(c, "server", NextPc(c, "server"))
            /\ line' = [line EXCEPT ![c]["server"] =
                           IF At(c, "server", "read") THEN Head(net[c].server) ELSE @]
        BY <2>7 DEF HasGot
      <3>2. /\ Head(net[c].server) = net[c].server[1]
            /\ Len(net'[c].server) = Len(net[c].server) - 1
            /\ \A j \in 1..Len(net'[c].server) : net'[c].server[j] = net[c].server[j + 1]
        BY <1>0, <3>1, GetFacts
      <3>3. CASE i = 1
        <4>1. lab = "chat" => pc[c].server # 1
          BY <2>5, <3>3
        <4>2. At(c, "server", "read") /\ Prog("server").code[NextPc(c, "server")] = "test"
          BY <1>0, <1>1, <3>1, <4>1, LeavingReads
        <4>3. pc'[c].server = NextPc(c, "server")
          BY <1>0, <3>1, WalkFacts
        <4>4. line'[c].server = "word"
          <5>1. line \in [Conns -> [Sides -> Typed \cup Messages \cup {""}]]
            BY DEF TypeOK
          <5>2. QED
            BY <1>0, <2>5, <3>1, <3>2, <3>3, <4>2, <5>1
        <4>5. At(c, "server", "test")'
          BY <1>1, <2>2, <4>2, <4>3 DEF At
        <4>6. QED
          BY <4>4, <4>5 DEF Kept
      <3>4. CASE i # 1
        <4>1. i - 1 \in 1..Len(net'[c].server) /\ (i - 1) + 1 = i
          BY <1>2, <3>2, <3>4
        <4>2. net'[c].server[i - 1] = "word"
          BY <2>5, <3>2, <4>1
        <4>3. QED
          BY <1>1, <2>6, <4>1, <4>2 DEF Kept
      <3>5. QED
        BY <3>3, <3>4
    <2>8. CASE ~HasGot(c, "server")
      <3>1. net'[c].server = net[c].server
        <4>1. CASE HasPut(c, "server")
          <5>1. PICK m \in Messages : Enters(c, "client", m)
            BY <4>1 DEF HasPut, Other
          <5>2. QED
            BY <1>0, <5>1, PutFacts
        <4>2. CASE ~HasPut(c, "server")
          BY <1>5, <2>8, <4>2 DEF Walks, HasTyped, HasLost, WasRefused, WasOver, HasPassed
        <4>3. QED
          BY <4>1, <4>2
      <3>2. QED
        BY <1>1, <2>5, <2>6, <3>1 DEF Kept
    <2>9. QED
      BY <2>7, <2>8
  <1>6. QED
    BY <1>0, <1>3, <1>4, <1>5, OneConnection DEF Sides

LEMMA StepNameFirst ==
    ASSUME TypeOK, InCode, Fresh, Waiting, NameFirst, [Next]_vars
    PROVE  NameFirst'
  <1> SUFFICES ASSUME NEW c \in spoken', (lab = "chat")', ~Gone(c, "server")', pc'[c].server = 1
               PROVE  net'[c].server # <<>>
    BY DEF NameFirst
  <1>0. c \in Conns /\ "client" \in Sides /\ "server" \in Sides
    BY StepTypeOK DEF TypeOK, Sides
  <1>1. lab = "chat"
    BY <1>0, OneConnection
  <1>2. CASE Stays(c)
    <2>1. c \in spoken /\ pc[c].server = 1 /\ net'[c].server = net[c].server
      BY <1>0, <1>2 DEF Stays
    <2>2. ~Gone(c, "server")
      BY <1>0, <1>2, <2>1, StaysSpoken
    <2>3. QED
      BY <1>1, <2>1, <2>2 DEF NameFirst
  <1>3. CASE Walks(c, "client")
    <2>1. UNCHANGED state /\ pc[c].server = 1
      BY <1>0, <1>3, Elsewhere
    <2>2. CASE HasPut(c, "client")
      <3>1. PICK m \in Messages : Enters(c, "server", m)
        BY <2>2 DEF HasPut, Other
      <3>2. QED
        BY <1>0, <3>1, PutFacts
    <2>3. CASE ~HasPut(c, "client")
      <3>1. spoken' = spoken
        BY <1>3, <2>3 DEF Walks, HasTyped, HasLost, WasRefused, HasGot, WasOver, HasPassed, history
      <3>2. net'[c].server = net[c].server
        <4>1. CASE HasGot(c, "client")
          <5>1. Leaves(c, "client") /\ net[c].client # <<>>
            BY <4>1 DEF HasGot
          <5>2. QED
            BY <1>0, <5>1, GetFacts
        <4>2. CASE ~HasGot(c, "client")
          BY <1>3, <2>3, <4>2 DEF Walks, HasTyped, HasLost, WasRefused, WasOver, HasPassed
        <4>3. QED
          BY <4>1, <4>2
      <3>3. QED
        BY <1>1, <2>1, <3>1, <3>2 DEF NameFirst, Gone
    <2>4. QED
      BY <2>2, <2>3
  <1>4. CASE Walks(c, "server")
    BY <1>0, <1>1, <1>4, ChatPastName
  <1>5. QED
    BY <1>0, <1>2, <1>3, <1>4, OneConnection DEF Sides

-----------------------------------------------------------------------------
(* Q3: the turn. *)

(* The calls of its client while the server is there. *)
LEMMA TalkClientMoves ==
    ASSUME TypeOK, InCode, lab = "talk", NEW c \in Conns, Walks(c, "client")
    PROVE  ~Gone(c, "server") =>
              \/ pc[c].client = 1 /\ pc'[c].client = 2 /\ SameNet(c)
              \/ pc[c].client = 2 /\ pc'[c].client = 3 /\ SameNet(c)
              \/ pc[c].client = 3 /\ pc'[c].client = 1 /\ SameNet(c)
              \/ pc[c].client = 3 /\ pc'[c].client = 4 /\ Added(c, "server", line[c].client)
              \/ pc[c].client = 4 /\ pc'[c].client = 1 /\ Taken(c, "client")
  <1>0. "client" \in Sides /\ Other("client") = "server"
    BY DEF Sides, Other
  <1>1. Len(Prog("client").code) = 4 /\ pc[c].client \in 1..4 /\ Prog("client").loop = 1
    BY <1>0, TalkPrograms DEF InCode
  <1>a. NextPc(c, "client") = IF pc[c].client = 4 THEN 1 ELSE pc[c].client + 1
    BY <1>1 DEF NextPc
  <1>2. Moves(c, "client")
    BY <1>0, WalkMoves
  <1>3. CASE pc[c].client = 1
    <2>1. Call(c, "client") = "test"
      BY <1>3, TalkPrograms DEF Call
    <2>2. NextPc(c, "client") = 2
      BY <1>a, <1>3
    <2>3. QED
      BY <1>0, <1>1, <1>2, <1>3, <2>1, <2>2, TalkPrograms DEF Moves
  <1>4. CASE pc[c].client = 2
    <2>1. Call(c, "client") = "type"
      BY <1>4, TalkPrograms DEF Call
    <2>2. NextPc(c, "client") = 3
      BY <1>a, <1>4
    <2>3. QED
      BY <1>0, <1>1, <1>2, <1>4, <2>1, <2>2, TalkPrograms DEF Moves
  <1>5. CASE pc[c].client = 3
    <2>1. Call(c, "client") = "write"
      BY <1>5, TalkPrograms DEF Call
    <2>2. NextPc(c, "client") = 4
      BY <1>a, <1>5
    <2>3. QED
      BY <1>0, <1>1, <1>2, <1>5, <2>1, <2>2, TalkPrograms DEF Moves
  <1>6. CASE pc[c].client = 4
    <2>1. Call(c, "client") = "read"
      BY <1>6, TalkPrograms DEF Call
    <2>2. NextPc(c, "client") = 1
      BY <1>a, <1>6
    <2>3. QED
      BY <1>0, <1>1, <1>2, <1>6, <2>1, <2>2, TalkPrograms DEF Moves
  <1>7. QED
    BY <1>1, <1>3, <1>4, <1>5, <1>6

(* And of its server while the client is. *)
LEMMA TalkServerMoves ==
    ASSUME TypeOK, InCode, lab = "talk", NEW c \in Conns, Walks(c, "server")
    PROVE  ~Gone(c, "client") =>
              \/ pc[c].server = 1 /\ pc'[c].server = 2 /\ SameNet(c)
              \/ pc[c].server = 2 /\ pc'[c].server = 3 /\ Taken(c, "server")
              \/ pc[c].server = 3 /\ pc'[c].server = 4 /\ SameNet(c)
              \/ pc[c].server = 4 /\ pc'[c].server = 1 /\ SameNet(c) /\ c \in refused'
              \/ pc[c].server = 4 /\ pc'[c].server = 1 /\ Added(c, "client", line[c].server)
  <1>0. "server" \in Sides /\ Other("server") = "client"
    BY DEF Sides, Other
  <1>1. Len(Prog("server").code) = 4 /\ pc[c].server \in 1..4 /\ Prog("server").loop = 1
    BY <1>0, TalkPrograms DEF InCode
  <1>a. NextPc(c, "server") = IF pc[c].server = 4 THEN 1 ELSE pc[c].server + 1
    BY <1>1 DEF NextPc
  <1>2. Moves(c, "server")
    BY <1>0, WalkMoves
  <1>3. CASE pc[c].server = 1
    <2>1. Call(c, "server") = "test"
      BY <1>3, TalkPrograms DEF Call
    <2>2. NextPc(c, "server") = 2
      BY <1>a, <1>3
    <2>3. QED
      BY <1>0, <1>1, <1>2, <1>3, <2>1, <2>2, TalkPrograms DEF Moves
  <1>4. CASE pc[c].server = 2
    <2>1. Call(c, "server") = "read"
      BY <1>4, TalkPrograms DEF Call
    <2>2. NextPc(c, "server") = 3
      BY <1>a, <1>4
    <2>3. QED
      BY <1>0, <1>1, <1>2, <1>4, <2>1, <2>2, TalkPrograms DEF Moves
  <1>5. CASE pc[c].server = 3
    <2>1. Call(c, "server") = "type"
      BY <1>5, TalkPrograms DEF Call
    <2>2. NextPc(c, "server") = 4
      BY <1>a, <1>5
    <2>3. QED
      BY <1>0, <1>1, <1>2, <1>5, <2>1, <2>2, TalkPrograms DEF Moves
  <1>6. CASE pc[c].server = 4
    <2>1. Call(c, "server") = "write"
      BY <1>6, TalkPrograms DEF Call
    <2>2. NextPc(c, "server") = 1
      BY <1>a, <1>6
    <2>3. QED
      BY <1>0, <1>1, <1>2, <1>6, <2>1, <2>2, TalkPrograms DEF Moves
  <1>7. QED
    BY <1>1, <1>3, <1>4, <1>5, <1>6

(* Where the turn is, by the calls the two are at. *)
ClientTurn(c) == IF pc[c].client \in {1, 2, 3} THEN 1 ELSE 0
ServerTurn(c) == IF Runs(c, "server") /\ pc[c].server \in {3, 4} THEN 1 ELSE 0
Turns(c) == ClientTurn(c) + ServerTurn(c) + Len(net[c].client) + Len(net[c].server)

LEMMA TurnsOf ==
    ASSUME TypeOK, InCode
    PROVE  OneTurn <=> \A c \in Conns : lab = "talk" /\ Runs(c, "client") /\ ~Gone(c, "server")
                          => Turns(c) <= 1 /\ (Turns(c) = 0 => c \in refused)
  <1> DEFINE mine(c, s) == IF Runs(c, s) /\ \E call \in {"type", "write"} : At(c, s, call) THEN 1 ELSE 0
             back(c) == IF At(c, "client", "test") THEN 1 ELSE 0
  <1>1. ASSUME NEW c \in Conns, lab = "talk", Runs(c, "client")
        PROVE  /\ mine(c, "client") + mine(c, "server") + back(c) = ClientTurn(c) + ServerTurn(c)
               /\ mine(c, "client") \in Nat /\ mine(c, "server") \in Nat /\ back(c) \in Nat
               /\ ClientTurn(c) \in Nat /\ ServerTurn(c) \in Nat
    <2>1. /\ Len(Prog("client").code) = 4 /\ pc[c].client \in 1..4
          /\ Len(Prog("server").code) = 4 /\ pc[c].server \in 1..4
      BY <1>1, TalkPrograms DEF InCode, Sides
    <2>2. (\E call \in {"type", "write"} : At(c, "server", call))
             <=> Runs(c, "server") /\ pc[c].server \in {3, 4}
      BY <1>1, <2>1, TalkPrograms DEF At
    <2>3. (\E call \in {"type", "write"} : At(c, "client", call)) <=> pc[c].client \in {2, 3}
      BY <1>1, <2>1, TalkPrograms DEF At
    <2>4. At(c, "client", "test") <=> pc[c].client = 1
      BY <1>1, <2>1, TalkPrograms DEF At
    <2>5. mine(c, "server") = ServerTurn(c)
      BY <2>2 DEF ServerTurn
    <2>6. mine(c, "client") + back(c) = ClientTurn(c)
      BY <1>1, <2>1, <2>3, <2>4 DEF ClientTurn
    <2>7. QED
      BY <2>5, <2>6 DEF ClientTurn, ServerTurn
  <1>2. \A c \in Conns : Len(net[c].client) \in Nat /\ Len(net[c].server) \in Nat
    <2>0. net \in [Conns -> [Sides -> Seq(Messages)]]
      BY DEF TypeOK
    <2>1. \A c \in Conns : net[c].client \in Seq(Messages) /\ net[c].server \in Seq(Messages)
      BY <2>0, NetFacts
    <2>2. QED
      BY <2>1, LenProperties
  <1>3. ASSUME NEW c \in Conns, lab = "talk", Runs(c, "client")
        PROVE  mine(c, "client") + mine(c, "server") + back(c) + Len(net[c].client) + Len(net[c].server)
                  = Turns(c)
    <2> HIDE DEF mine, back
    <2>1. QED
      BY <1>1, <1>2, <1>3 DEF Turns
  <1>4. QED
    BY <1>3 DEF OneTurn

LEMMA StepOneTurn ==
    ASSUME TypeOK, InCode, Fresh, Waiting, OneTurn, [Next]_vars
    PROVE  OneTurn'
  <1>0. TypeOK' /\ InCode'
    BY StepTypeOK, StepInCode
  <1>1. ASSUME NEW c \in Conns, (lab = "talk")', Runs(c, "client")', ~Gone(c, "server")'
        PROVE  (Turns(c) <= 1 /\ (Turns(c) = 0 => c \in refused))'
    <2>0. lab = "talk" /\ "client" \in Sides /\ "server" \in Sides
      BY <1>1, OneConnection DEF Sides
    <2>1. /\ Len(net[c].client) \in Nat /\ Len(net[c].server) \in Nat
          /\ Len(net'[c].client) \in Nat /\ Len(net'[c].server) \in Nat
      <3>a. net \in [Conns -> [Sides -> Seq(Messages)]]
        BY DEF TypeOK
      <3>b. net' \in [Conns -> [Sides -> Seq(Messages)]]
        BY <1>0 DEF TypeOK
      <3>1. /\ net[c].client \in Seq(Messages) /\ net[c].server \in Seq(Messages)
            /\ net'[c].client \in Seq(Messages) /\ net'[c].server \in Seq(Messages)
        BY <3>a, <3>b, NetFacts
      <3>2. QED
        BY <3>1, LenProperties
    <2>2. ASSUME Runs(c, "client"), ~Gone(c, "server")
          PROVE  Turns(c) <= 1 /\ (Turns(c) = 0 => c \in refused)
      BY <2>0, <2>2, TurnsOf
    <2>a. PICK k \in Nat, l \in Nat, k1 \in Nat, l1 \in Nat :
             /\ k = Len(net[c].client) /\ l = Len(net[c].server)
             /\ k1 = Len(net'[c].client) /\ l1 = Len(net'[c].server)
      BY <2>1
    <2>b. /\ Turns(c) = ClientTurn(c) + ServerTurn(c) + k + l
          /\ Turns(c)' = ClientTurn(c)' + ServerTurn(c)' + k1 + l1
      BY <2>a DEF Turns
    <2>3. CASE Stays(c)
      <3>1. /\ \A t \in Sides : pc'[c][t] = pc[c][t] /\ net'[c][t] = net[c][t]
            /\ c \in refused => c \in refused'
        BY <2>3 DEF Stays
      <3>2. CASE Runs(c, "client") /\ ~Gone(c, "server") /\ (Runs(c, "server")' <=> Runs(c, "server"))
        BY <2>0, <2>2, <3>1, <3>2 DEF Turns, ClientTurn, ServerTurn
      <3>3. CASE state[c].server = "queued" /\ Runs(c, "client")
        <4>1. pc[c].server = 1 /\ ~Gone(c, "server")
          BY <3>3 DEF Fresh, Gone
        <4>2. ServerTurn(c) = 0 /\ ServerTurn(c)' = 0 /\ ClientTurn(c)' = ClientTurn(c)
          BY <2>0, <3>1, <4>1 DEF ServerTurn, ClientTurn
        <4>3. QED
          BY <2>0, <2>2, <3>1, <3>3, <4>1, <4>2 DEF Turns
      <3>4. CASE state[c].client = "idle" /\ state'[c].server = "queued"
        <4>1. /\ state[c].server = "idle" /\ pc[c].client = 1 /\ net[c].server = <<>>
              /\ net[c].client = <<>>
          BY <3>4 DEF Fresh
        <4>2. ClientTurn(c)' = 1 /\ ServerTurn(c)' = 0
          BY <2>0, <3>1, <3>4, <4>1 DEF ClientTurn, ServerTurn, Runs
        <4>3. Len(net'[c].client) = 0 /\ Len(net'[c].server) = 0
          BY <2>0, <3>1, <4>1, EmptySeq
        <4>4. QED
          BY <4>2, <4>3 DEF Turns
      <3>5. QED
        BY <1>1, <2>0, <2>3, <3>2, <3>3, <3>4 DEF Stays, Runs, Gone
    <2>4. CASE Walks(c, "client")
      <3>1. UNCHANGED state /\ pc'[c].server = pc[c].server
        BY <2>0, <2>4, Elsewhere
      <3>2. /\ Runs(c, "client") /\ ~Gone(c, "server") /\ (Runs(c, "server")' <=> Runs(c, "server"))
        BY <1>1, <3>1 DEF Runs, Gone
      <3>3. ServerTurn(c)' = ServerTurn(c) /\ ServerTurn(c) \in Nat /\ ServerTurn(c)' \in Nat
        BY <3>1, <3>2 DEF ServerTurn
      <3>4. c \in refused => c \in refused'
        BY <2>0, <2>4, WalkMoves
      <3>5. Turns(c)' = Turns(c) \/ Turns(c)' = 1
        <4>1. CASE SameNet(c) /\ pc[c].client \in {1, 2, 3} /\ pc'[c].client \in {1, 2, 3}
          BY <2>0, <3>3, <4>1 DEF SameNet, ClientTurn, Turns
        <4>2. CASE pc[c].client = 3 /\ pc'[c].client = 4 /\ Added(c, "server", line[c].client)
          <5>1. l1 = l + 1 /\ k1 = k
            BY <2>0, <2>a, <4>2 DEF Added
          <5>2. ClientTurn(c) = 1 /\ ClientTurn(c)' = 0
            BY <4>2 DEF ClientTurn
          <5>3. QED
            BY <2>b, <3>3, <5>1, <5>2
        <4>3. CASE pc[c].client = 4 /\ pc'[c].client = 1 /\ Taken(c, "client")
          <5>1. k1 = k - 1 /\ l1 = l
            BY <2>0, <2>a, <4>3 DEF Taken
          <5>2. ClientTurn(c) = 0 /\ ClientTurn(c)' = 1
            BY <4>3 DEF ClientTurn
          <5>3. QED
            BY <2>b, <3>3, <5>1, <5>2
        <4>4. QED
          BY <2>0, <2>4, <3>2, <4>1, <4>2, <4>3, TalkClientMoves
      <3>6. QED
        BY <2>2, <3>2, <3>4, <3>5
    <2>5. CASE Walks(c, "server")
      <3>1. UNCHANGED state /\ pc'[c].client = pc[c].client /\ Runs(c, "server")
        BY <2>0, <2>5, Elsewhere
      <3>2. /\ Runs(c, "client") /\ ~Gone(c, "server") /\ ~Gone(c, "client")
            /\ Runs(c, "server")'
        BY <1>1, <3>1 DEF Runs, Gone
      <3>3. ClientTurn(c)' = ClientTurn(c) /\ ClientTurn(c) \in Nat /\ ClientTurn(c)' \in Nat
        BY <3>1 DEF ClientTurn
      <3>4. c \in refused => c \in refused'
        BY <2>0, <2>5, WalkMoves
      <3>5. \/ Turns(c)' = Turns(c)
            \/ Turns(c) \in Nat /\ Turns(c)' = Turns(c) - 1 /\ c \in refused'
        <4>1. CASE /\ SameNet(c)
                   /\ \/ pc[c].server \in {1, 2} /\ pc'[c].server \in {1, 2}
                      \/ pc[c].server \in {3, 4} /\ pc'[c].server \in {3, 4}
          <5>1. k1 = k /\ l1 = l
            BY <2>0, <2>a, <4>1 DEF SameNet
          <5>2. ServerTurn(c)' = ServerTurn(c)
            BY <3>1, <3>2, <4>1 DEF ServerTurn
          <5>3. QED
            BY <2>b, <3>3, <5>1, <5>2
        <4>2. CASE pc[c].server = 2 /\ pc'[c].server = 3 /\ Taken(c, "server")
          <5>1. l1 = l - 1 /\ k1 = k
            BY <2>0, <2>a, <4>2 DEF Taken
          <5>2. ServerTurn(c) = 0 /\ ServerTurn(c)' = 1
            BY <3>2, <4>2 DEF ServerTurn
          <5>3. QED
            BY <2>b, <3>3, <5>1, <5>2
        <4>3. CASE pc[c].server = 4 /\ pc'[c].server = 1 /\ SameNet(c) /\ c \in refused'
          <5>1. l1 = l /\ k1 = k
            BY <2>0, <2>a, <4>3 DEF SameNet
          <5>2. ServerTurn(c) = 1 /\ ServerTurn(c)' = 0
            BY <3>1, <4>3 DEF ServerTurn
          <5>3. QED
            BY <2>b, <3>3, <4>3, <5>1, <5>2
        <4>4. CASE pc[c].server = 4 /\ pc'[c].server = 1 /\ Added(c, "client", line[c].server)
          <5>1. k1 = k + 1 /\ l1 = l
            BY <2>0, <2>a, <4>4 DEF Added
          <5>2. ServerTurn(c) = 1 /\ ServerTurn(c)' = 0
            BY <3>1, <4>4 DEF ServerTurn
          <5>3. QED
            BY <2>b, <3>3, <5>1, <5>2
        <4>5. QED
          BY <2>0, <2>5, <3>2, <4>1, <4>2, <4>3, <4>4, TalkServerMoves
      <3>6. QED
        BY <2>2, <3>2, <3>4, <3>5
    <2>6. QED
      BY <2>3, <2>4, <2>5, OneConnection DEF Sides
  <1>2. (OneTurn <=> \A c \in Conns : lab = "talk" /\ Runs(c, "client") /\ ~Gone(c, "server")
                        => Turns(c) <= 1 /\ (Turns(c) = 0 => c \in refused))'
    BY <1>0, TurnsOf, PTL
  <1>3. QED
    BY <1>1, <1>2

-----------------------------------------------------------------------------
(* Program2: prompts and answers. *)

(* The calls of its client. *)
LEMMA DateClientMoves ==
    ASSUME TypeOK, InCode, lab = "date", NEW c \in Conns, Walks(c, "client")
    PROVE  \/ pc[c].client = 1 /\ pc'[c].client = 2 /\ Taken(c, "client")
           \/ pc[c].client = 2 /\ pc'[c].client = 3 /\ SameNet(c)
           \/ pc[c].client = 3 /\ pc'[c].client = 4 /\ Added(c, "server", line[c].client)
           \/ pc[c].client = 3 /\ pc'[c].client = 4 /\ SameNet(c) /\ Gone(c, "server")
           \/ pc[c].client = 4 /\ pc'[c].client = 5 /\ SameNet(c)
           \/ pc[c].client = 5 /\ pc'[c].client = 1 /\ Taken(c, "client")
  <1>0. "client" \in Sides /\ Other("client") = "server"
    BY DEF Sides, Other
  <1>1. Len(Prog("client").code) = 5 /\ pc[c].client \in 1..5 /\ Prog("client").loop = 1
    BY <1>0, DatePrograms DEF InCode
  <1>a. NextPc(c, "client") = IF pc[c].client = 5 THEN 1 ELSE pc[c].client + 1
    BY <1>1 DEF NextPc
  <1>2. Moves(c, "client")
    BY <1>0, WalkMoves
  <1>3. CASE pc[c].client = 1
    <2>1. Call(c, "client") = "skip"
      BY <1>3, DatePrograms DEF Call
    <2>2. NextPc(c, "client") = 2
      BY <1>a, <1>3
    <2>3. QED
      BY <1>0, <1>1, <1>2, <1>3, <2>1, <2>2, DatePrograms DEF Moves
  <1>4. CASE pc[c].client = 2
    <2>1. Call(c, "client") = "type"
      BY <1>4, DatePrograms DEF Call
    <2>2. NextPc(c, "client") = 3
      BY <1>a, <1>4
    <2>3. QED
      BY <1>0, <1>1, <1>2, <1>4, <2>1, <2>2, DatePrograms DEF Moves
  <1>5. CASE pc[c].client = 3
    <2>1. Call(c, "client") = "write"
      BY <1>5, DatePrograms DEF Call
    <2>2. NextPc(c, "client") = 4
      BY <1>a, <1>5
    <2>3. QED
      BY <1>0, <1>1, <1>2, <1>5, <2>1, <2>2, DatePrograms DEF Moves
  <1>6. CASE pc[c].client = 4
    <2>1. Call(c, "client") = "test"
      BY <1>6, DatePrograms DEF Call
    <2>2. NextPc(c, "client") = 5
      BY <1>a, <1>6
    <2>3. QED
      BY <1>0, <1>1, <1>2, <1>6, <2>1, <2>2, DatePrograms DEF Moves
  <1>7. CASE pc[c].client = 5
    <2>1. Call(c, "client") = "skip"
      BY <1>7, DatePrograms DEF Call
    <2>2. NextPc(c, "client") = 1
      BY <1>a, <1>7
    <2>3. QED
      BY <1>0, <1>1, <1>2, <1>7, <2>1, <2>2, DatePrograms DEF Moves
  <1>8. QED
    BY <1>1, <1>3, <1>4, <1>5, <1>6, <1>7

(* And of its server while the client is there. *)
LEMMA DateServerMoves ==
    ASSUME TypeOK, InCode, lab = "date", NEW c \in Conns, Walks(c, "server")
    PROVE  ~Gone(c, "client") =>
              \/ pc[c].server = 1 /\ pc'[c].server = 2 /\ Added(c, "client", "prompt")
              \/ pc[c].server = 2 /\ pc'[c].server = 3 /\ Taken(c, "server")
              \/ pc[c].server = 3 /\ pc'[c].server = 4 /\ SameNet(c)
              \/ pc[c].server = 4 /\ pc'[c].server = 1 /\ Added(c, "client", "answer")
  <1>0. "server" \in Sides /\ Other("server") = "client"
    BY DEF Sides, Other
  <1>1. Len(Prog("server").code) = 4 /\ pc[c].server \in 1..4 /\ Prog("server").loop = 1
    BY <1>0, DatePrograms DEF InCode
  <1>a. NextPc(c, "server") = IF pc[c].server = 4 THEN 1 ELSE pc[c].server + 1
    BY <1>1 DEF NextPc
  <1>2. Moves(c, "server")
    BY <1>0, WalkMoves
  <1>3. CASE pc[c].server = 1
    <2>1. Call(c, "server") = "prompt"
      BY <1>3, DatePrograms DEF Call
    <2>2. NextPc(c, "server") = 2
      BY <1>a, <1>3
    <2>3. QED
      BY <1>0, <1>1, <1>2, <1>3, <2>1, <2>2, DatePrograms DEF Moves
  <1>4. CASE pc[c].server = 2
    <2>1. Call(c, "server") = "read"
      BY <1>4, DatePrograms DEF Call
    <2>2. NextPc(c, "server") = 3
      BY <1>a, <1>4
    <2>3. QED
      BY <1>0, <1>1, <1>2, <1>4, <2>1, <2>2, DatePrograms DEF Moves
  <1>5. CASE pc[c].server = 3
    <2>1. Call(c, "server") = "test"
      BY <1>5, DatePrograms DEF Call
    <2>2. NextPc(c, "server") = 4
      BY <1>a, <1>5
    <2>3. QED
      BY <1>0, <1>1, <1>2, <1>5, <2>1, <2>2, DatePrograms DEF Moves
  <1>6. CASE pc[c].server = 4
    <2>1. Call(c, "server") = "answer"
      BY <1>6, DatePrograms DEF Call
    <2>2. NextPc(c, "server") = 1
      BY <1>a, <1>6
    <2>3. QED
      BY <1>0, <1>1, <1>2, <1>6, <2>1, <2>2, DatePrograms DEF Moves
  <1>7. QED
    BY <1>1, <1>3, <1>4, <1>5, <1>6

LEMMA StepDateShape ==
    ASSUME TypeOK, InCode, Fresh, Waiting, DateShape, [Next]_vars
    PROVE  DateShape'
  <1>0. TypeOK' /\ InCode'
    BY StepTypeOK, StepInCode
  <1> SUFFICES ASSUME NEW c \in Conns, (lab = "date")', Runs(c, "client")'
               PROVE  /\ Expected(pc'[c].client, net'[c].client)
                      /\ ~Gone(c, "server")' =>
                            Paired(pc'[c].client, pc'[c].server,
                                   Len(net'[c].client), Len(net'[c].server))
    BY DEF DateShape, Expected, Paired
  <1>1. lab = "date" /\ "client" \in Sides /\ "server" \in Sides
    BY OneConnection DEF Sides
  <1>2. PICK k \in Nat, l \in Nat, k1 \in Nat, l1 \in Nat :
           /\ k = Len(net[c].client) /\ l = Len(net[c].server)
           /\ k1 = Len(net'[c].client) /\ l1 = Len(net'[c].server)
    <2>a. net \in [Conns -> [Sides -> Seq(Messages)]]
      BY DEF TypeOK
    <2>b. net' \in [Conns -> [Sides -> Seq(Messages)]]
      BY <1>0 DEF TypeOK
    <2>1. /\ net[c].client \in Seq(Messages) /\ net[c].server \in Seq(Messages)
          /\ net'[c].client \in Seq(Messages) /\ net'[c].server \in Seq(Messages)
      BY <2>a, <2>b, NetFacts
    <2>2. QED
      BY <2>1, LenProperties
  <1>3. ASSUME Runs(c, "client")
        PROVE  /\ Expected(pc[c].client, net[c].client)
               /\ ~Gone(c, "server") => Paired(pc[c].client, pc[c].server, k, l)
    BY <1>1, <1>2, <1>3 DEF DateShape
  <1>4. CASE Stays(c)
    <2>1. /\ \A t \in Sides : pc'[c][t] = pc[c][t] /\ net'[c][t] = net[c][t]
      BY <1>4 DEF Stays
    <2>2. CASE Runs(c, "client") /\ (~Gone(c, "server")' => ~Gone(c, "server"))
      BY <1>1, <1>2, <1>3, <2>1, <2>2
    <2>3. CASE state[c].client = "idle"
      <3>1. /\ state[c].server = "idle" /\ pc[c].client = 1 /\ pc[c].server = 1
            /\ net[c].client = <<>> /\ net[c].server = <<>>
        BY <2>3 DEF Fresh
      <3>2. Len(net'[c].client) = 0 /\ Len(net'[c].server) = 0
        BY <1>1, <2>1, <3>1, EmptySeq
      <3>3. QED
        BY <1>1, <2>1, <3>1, <3>2 DEF Expected, Paired
    <2>4. QED
      BY <1>1, <1>4, <2>2, <2>3 DEF Stays, Runs, Gone
  <1>5. CASE Walks(c, "client")
    <2>1. UNCHANGED state /\ pc'[c].server = pc[c].server /\ Runs(c, "client")
      BY <1>1, <1>5, Elsewhere
    <2>2. /\ Expected(pc[c].client, net[c].client)
          /\ Gone(c, "server")' <=> Gone(c, "server")
          /\ ~Gone(c, "server") => Paired(pc[c].client, pc[c].server, k, l)
      BY <1>3, <2>1 DEF Gone
    <2>3. CASE /\ SameNet(c) /\ pc[c].client \in {2, 4} /\ pc'[c].client = pc[c].client + 1
      <3>1. k1 = k /\ l1 = l /\ net'[c].client = net[c].client
        BY <1>1, <1>2, <2>3 DEF SameNet
      <3>2. Expected(pc'[c].client, net'[c].client)
        BY <2>2, <2>3, <3>1 DEF Expected
      <3>3. ~Gone(c, "server") => Paired(pc'[c].client, pc'[c].server, k1, l1)
        BY <2>1, <2>2, <2>3, <3>1 DEF Paired
      <3>4. QED
        BY <1>2, <2>2, <3>2, <3>3
    <2>4. CASE /\ pc[c].client = 3 /\ pc'[c].client = 4
               /\ Added(c, "server", line[c].client) \/ (SameNet(c) /\ Gone(c, "server"))
      <3>1. net'[c].client = net[c].client /\ (~Gone(c, "server") => l1 = l + 1 /\ k1 = k)
        BY <1>1, <1>2, <2>4 DEF SameNet, Added
      <3>2. Expected(pc'[c].client, net'[c].client)
        BY <2>2, <2>4, <3>1 DEF Expected
      <3>3. ~Gone(c, "server") => Paired(pc'[c].client, pc'[c].server, k1, l1)
        BY <2>1, <2>2, <2>4, <3>1 DEF Paired
      <3>4. QED
        BY <1>2, <2>2, <3>2, <3>3
    <2>5. CASE /\ Taken(c, "client")
               /\ \/ pc[c].client = 1 /\ pc'[c].client = 2
                  \/ pc[c].client = 5 /\ pc'[c].client = 1
      <3>1. /\ k # 0 /\ k1 = k - 1 /\ l1 = l
            /\ \A i \in 1..k1 : net'[c].client[i] = net[c].client[i + 1]
        BY <1>1, <1>2, <2>5 DEF Taken
      <3>2. CASE pc[c].client = 1
        <4>1. k1 = 0 /\ k = 1
          BY <1>2, <2>2, <3>1, <3>2 DEF Expected
        <4>2. Expected(pc'[c].client, net'[c].client)
          BY <1>2, <2>5, <3>2, <4>1 DEF Expected
        <4>3. ~Gone(c, "server") => Paired(pc'[c].client, pc'[c].server, k1, l1)
          BY <2>1, <2>2, <2>5, <3>1, <3>2, <4>1 DEF Paired
        <4>4. QED
          BY <1>2, <2>2, <4>2, <4>3
      <3>3. CASE pc[c].client = 5
        <4>1. k = 1 \/ (k = 2 /\ net[c].client[2] = "prompt")
          BY <1>2, <2>2, <3>1, <3>3 DEF Expected
        <4>2. k1 = 0 \/ (k1 = 1 /\ net'[c].client[1] = "prompt")
          <5>1. CASE k = 1
            BY <3>1, <5>1
          <5>2. CASE k = 2 /\ net[c].client[2] = "prompt"
            <6>1. k1 = 1
              BY <3>1, <5>2
            <6>2. net'[c].client[1] = net[c].client[1 + 1]
              BY <3>1, <6>1
            <6>3. QED
              BY <5>2, <6>1, <6>2
          <5>3. QED
            BY <4>1, <5>1, <5>2
        <4>3. Expected(pc'[c].client, net'[c].client)
          BY <1>2, <2>5, <3>3, <4>2 DEF Expected
        <4>4. ~Gone(c, "server") => Paired(pc'[c].client, pc'[c].server, k1, l1)
          BY <2>1, <2>2, <2>5, <3>1, <3>3, <4>1 DEF Paired
        <4>5. QED
          BY <1>2, <2>2, <4>3, <4>4
      <3>4. QED
        BY <2>5, <3>2, <3>3
    <2>6. QED
      BY <1>1, <1>5, <2>3, <2>4, <2>5, DateClientMoves
  <1>6. CASE Walks(c, "server")
    <2>1. UNCHANGED state /\ pc'[c].client = pc[c].client /\ Runs(c, "server")
      BY <1>1, <1>6, Elsewhere
    <2>2. /\ Expected(pc[c].client, net[c].client) /\ ~Gone(c, "client")
          /\ Paired(pc[c].client, pc[c].server, k, l)
      BY <1>3, <2>1 DEF Gone, Runs
    <2>3. CASE SameNet(c) /\ pc[c].server = 3 /\ pc'[c].server = 4
      <3>1. k1 = k /\ l1 = l /\ net'[c].client = net[c].client
        BY <1>1, <1>2, <2>3 DEF SameNet
      <3>2. Paired(pc'[c].client, pc'[c].server, k1, l1)
        BY <2>1, <2>2, <2>3, <3>1 DEF Paired
      <3>3. QED
        BY <1>2, <2>1, <2>2, <3>1, <3>2
    <2>4. CASE Taken(c, "server") /\ pc[c].server = 2 /\ pc'[c].server = 3
      <3>1. l # 0 /\ l1 = l - 1 /\ k1 = k /\ net'[c].client = net[c].client
        BY <1>1, <1>2, <2>4 DEF Taken
      <3>2. Paired(pc'[c].client, pc'[c].server, k1, l1)
        BY <2>1, <2>2, <2>4, <3>1 DEF Paired
      <3>3. QED
        BY <1>2, <2>1, <2>2, <3>1, <3>2
    <2>5. ASSUME NEW m \in {"prompt", "answer"}, Added(c, "client", m)
          PROVE  /\ k1 = k + 1 /\ l1 = l /\ net'[c].client[k1] = m
                 /\ \A i \in 1..k : net'[c].client[i] = net[c].client[i]
      BY <1>1, <1>2, <2>5 DEF Added
    <2>6. CASE Added(c, "client", "prompt") /\ pc[c].server = 1 /\ pc'[c].server = 2
      <3>1. /\ k1 = k + 1 /\ l1 = l /\ net'[c].client[k1] = "prompt"
            /\ \A i \in 1..k : net'[c].client[i] = net[c].client[i]
        BY <2>5, <2>6
      <3>2. Paired(pc'[c].client, pc'[c].server, k1, l1)
        BY <2>1, <2>2, <2>6, <3>1 DEF Paired
      <3>3. (pc[c].client = 1 /\ k = 0) \/ (pc[c].client \in {4, 5} /\ k = 1)
        BY <2>2, <2>6 DEF Paired
      <3>4. Expected(pc'[c].client, net'[c].client)
        <4>1. CASE pc[c].client = 1 /\ k = 0
          BY <1>2, <2>1, <3>1, <4>1 DEF Expected
        <4>2. CASE pc[c].client \in {4, 5} /\ k = 1
          <5>1. net[c].client[1] = "answer"
            BY <1>2, <2>2, <4>2 DEF Expected
          <5>2. net'[c].client[1] = "answer" /\ k1 = 2 /\ net'[c].client[2] = "prompt"
            BY <3>1, <4>2, <5>1
          <5>3. QED
            BY <1>2, <2>1, <4>2, <5>2 DEF Expected
        <4>3. QED
          BY <3>3, <4>1, <4>2
      <3>5. QED
        BY <1>2, <3>2, <3>4
    <2>7. CASE Added(c, "client", "answer") /\ pc[c].server = 4 /\ pc'[c].server = 1
      <3>1. k1 = k + 1 /\ l1 = l /\ net'[c].client[k1] = "answer"
        BY <2>5, <2>7
      <3>2. Paired(pc'[c].client, pc'[c].server, k1, l1) /\ pc[c].client \in {4, 5} /\ k1 = 1
        BY <2>1, <2>2, <2>7, <3>1 DEF Paired
      <3>3. Expected(pc'[c].client, net'[c].client)
        BY <1>2, <2>1, <3>1, <3>2 DEF Expected
      <3>4. QED
        BY <1>2, <3>2, <3>3
    <2>8. QED
      BY <1>1, <1>6, <2>2, <2>3, <2>4, <2>6, <2>7, DateServerMoves
  <1>7. QED
    BY <1>4, <1>5, <1>6, OneConnection DEF Sides

-----------------------------------------------------------------------------
(* Q2: the server that answers one client after the other. *)

(* The calls of its client. *)
LEMMA TimeClientMoves ==
    ASSUME TypeOK, InCode, lab = "time", NEW c \in Conns, Walks(c, "client")
    PROVE  pc[c].client = 1 /\ pc'[c].client = 2 /\ Taken(c, "client")
  <1>0. "client" \in Sides /\ Other("client") = "server"
    BY DEF Sides, Other
  <1>1. Len(Prog("client").code) = 2 /\ pc[c].client \in 1..2 /\ Prog("client").loop = 1
    BY <1>0, TimePrograms DEF InCode
  <1>a. NextPc(c, "client") = IF pc[c].client = 2 THEN 1 ELSE pc[c].client + 1
    BY <1>1 DEF NextPc
  <1>2. Moves(c, "client")
    BY <1>0, WalkMoves
  <1>3. CASE pc[c].client = 1
    <2>1. Call(c, "client") = "skip"
      BY <1>3, TimePrograms DEF Call
    <2>2. NextPc(c, "client") = 2
      BY <1>a, <1>3
    <2>3. QED
      BY <1>0, <1>1, <1>2, <1>3, <2>1, <2>2, TimePrograms DEF Moves
  <1>4. CASE pc[c].client = 2
    <2>1. Call(c, "client") = "exit"
      BY <1>4, TimePrograms DEF Call
    <2>2. NextPc(c, "client") = 1
      BY <1>a, <1>4
    <2>3. QED
      BY <1>0, <1>1, <1>2, <1>4, <2>1, <2>2, TimePrograms DEF Moves
  <1>5. QED
    BY <1>1, <1>3, <1>4

(* And of its server. *)
LEMMA TimeServerMoves ==
    ASSUME TypeOK, InCode, lab = "time", NEW c \in Conns, Walks(c, "server")
    PROVE  /\ pc[c].server = 1 /\ pc'[c].server = 2
           /\ SameNet(c) \/ Added(c, "client", "answer")
  <1>0. "server" \in Sides /\ Other("server") = "client"
    BY DEF Sides, Other
  <1>1. Len(Prog("server").code) = 2 /\ pc[c].server \in 1..2 /\ Prog("server").loop = 1
    BY <1>0, TimePrograms DEF InCode
  <1>a. NextPc(c, "server") = IF pc[c].server = 2 THEN 1 ELSE pc[c].server + 1
    BY <1>1 DEF NextPc
  <1>2. Moves(c, "server")
    BY <1>0, WalkMoves
  <1>3. CASE pc[c].server = 1
    <2>1. Call(c, "server") = "answer"
      BY <1>3, TimePrograms DEF Call
    <2>2. NextPc(c, "server") = 2
      BY <1>a, <1>3
    <2>3. QED
      BY <1>0, <1>1, <1>2, <1>3, <2>1, <2>2, TimePrograms DEF Moves
  <1>4. CASE pc[c].server = 2
    <2>1. Call(c, "server") = "exit"
      BY <1>4, TimePrograms DEF Call
    <2>2. NextPc(c, "server") = 1
      BY <1>a, <1>4
    <2>3. QED
      BY <1>0, <1>1, <1>2, <1>4, <2>1, <2>2, TimePrograms DEF Moves
  <1>5. QED
    BY <1>1, <1>3, <1>4

(* A side leaves at its test or its exit. *)
LEMMA LeaveFacts ==
    ASSUME TypeOK, InCode, Waiting, [Next]_vars, NEW c \in Conns,
           state[c].client # "left", state'[c].client = "left"
    PROVE  At(c, "client", "test") \/ At(c, "client", "exit")
  <1>a. /\ state \in [Conns -> [Sides -> {"idle", "queued", "run", "left", "dead"}]]
        /\ "client" \in Sides /\ "server" \in Sides
    BY DEF TypeOK, Sides
  <1>1. ASSUME NEW d \in Conns, NEW s \in Sides, NEW how \in {"left", "dead"}, End(d, s, how)
        PROVE  d = c /\ s = "client" /\ how = "left"
    <2> DEFINE ended == [state EXCEPT ![d][s] = how]
    <2>1. state'[c].client = ended[c].client
      <3>1. CASE state' = ended
        BY <3>1
      <3>2. CASE Down(ended, "gone")
        <4>1. ended \in [Conns -> [Sides -> {"idle", "queued", "run", "left", "dead"}]]
          BY <1>a
        <4>2. state' = [e \in Conns |-> IF ended[e].server \in {"run", "queued"}
                                        THEN [ended[e] EXCEPT !.server = "dead"] ELSE ended[e]]
          BY <3>2 DEF Down
        <4> HIDE DEF ended
        <4>3. QED
          BY <1>a, <4>1, <4>2
      <3>3. QED
        BY <1>1, <3>1, <3>2 DEF End
    <2>2. QED
      BY <1>a, <2>1
  <1>2. ASSUME UNCHANGED state PROVE FALSE
    BY <1>2
  <1>3. ASSUME NEW d \in Conns, NEW s \in Sides, Catch(d, s) PROVE FALSE
    <2>1. CASE End(d, s, "dead")
      BY <1>1, <2>1
    <2>2. CASE ~End(d, s, "dead")
      BY <1>2, <1>3, <2>2 DEF Catch, Goto
    <2>3. QED
      BY <2>1, <2>2
  <1>4. ASSUME NEW d \in Conns, NEW s \in Sides, Advance(d, s) PROVE FALSE
    BY <1>2, <1>4 DEF Advance, Goto
  <1>5. ASSUME NEW d \in Conns, NEW s \in Sides, NEW m, Send(d, s, m) PROVE FALSE
    BY <1>3, <1>4, <1>5 DEF Send
  <1>6. ASSUME NEW d \in Conns, NEW s \in Sides, Type(d, s) PROVE FALSE
    BY <1>1, <1>4, <1>6 DEF Type
  <1>7. ASSUME NEW d \in Conns, NEW s \in Sides, Work(d, s)
        PROVE  At(c, "client", "test") \/ At(c, "client", "exit")
    <2>1. CASE Write(d, s) \/ Say(d, s) \/ Read(d, s)
      BY <1>3, <1>4, <1>5, <2>1 DEF Write, Say, Read
    <2>2. CASE Test(d, s)
      BY <1>1, <1>4, <2>2 DEF Test
    <2>3. CASE Exit(d, s)
      BY <1>1, <2>3 DEF Exit
    <2>4. QED
      BY <1>7, <2>1, <2>2, <2>3 DEF Work
  <1>8. ASSUME NEW d \in Conns, Connect(d) \/ KillClient(d) PROVE FALSE
    <2>1. CASE state' = [state EXCEPT ![d] = [client |-> "run", server |-> "queued"]]
      BY <1>a, <2>1
    <2>2. CASE state' = [state EXCEPT ![d].client = "dead"]
      BY <1>a, <2>2
    <2>3. QED
      BY <1>8, <2>1, <2>2 DEF Connect, KillClient
  <1>9. CASE Accept
    <2>1. state' = [state EXCEPT ![Head(backlog)].server = "run"]
      BY <1>9 DEF Accept
    <2>2. QED
      BY <1>a, <2>1
  <1>10. CASE KillServer
    <2>1. state' = [d \in Conns |-> IF state[d].server \in {"run", "queued"}
                                    THEN [state[d] EXCEPT !.server = "dead"] ELSE state[d]]
      BY <1>10 DEF KillServer, Down
    <2>2. QED
      BY <1>a, <2>1
  <1>11. QED
    BY <1>2, <1>6, <1>7, <1>8, <1>9, <1>10 DEF Next, Start, vars

LEMMA StepTimeShape ==
    ASSUME TypeOK, InCode, Fresh, Waiting, TimeShape, [Next]_vars
    PROVE  TimeShape'
  <1> SUFFICES ASSUME NEW c \in Conns, (lab = "time")'
               PROVE  /\ pc'[c].client = 2 \/ net'[c].client # <<>> => pc'[c].server = 2
                      /\ state'[c].client = "left" => pc'[c].client = 2
    BY DEF TimeShape
  <1>1. lab = "time" /\ "client" \in Sides /\ "server" \in Sides
    BY OneConnection DEF Sides
  <1>2. /\ pc[c].client = 2 \/ net[c].client # <<>> => pc[c].server = 2
        /\ state[c].client = "left" => pc[c].client = 2
    BY <1>1 DEF TimeShape
  <1>3. CASE Stays(c)
    <2>1. \A t \in Sides : pc'[c][t] = pc[c][t] /\ net'[c][t] = net[c][t]
      BY <1>3 DEF Stays
    <2>2. ASSUME state'[c].client = "left", state[c].client # "left" PROVE pc[c].client = 2
      <3>1. At(c, "client", "test") \/ At(c, "client", "exit")
        BY <2>2, LeaveFacts
      <3>2. Len(Prog("client").code) = 2 /\ pc[c].client \in 1..2
        BY <1>1, TimePrograms DEF InCode
      <3>3. QED
        BY <1>1, <3>1, <3>2, TimePrograms DEF At
    <2>3. QED
      BY <1>1, <1>2, <2>1, <2>2
  <1>4. CASE Walks(c, "client")
    <2>1. UNCHANGED state /\ pc'[c].server = pc[c].server /\ Runs(c, "client")
      BY <1>1, <1>4, Elsewhere
    <2>2. pc[c].client = 1 /\ pc'[c].client = 2 /\ Taken(c, "client")
      BY <1>1, <1>4, TimeClientMoves
    <2>3. net[c].client # <<>>
      <3>1. Len(net[c].client) \in Nat \ {0}
        BY <2>2 DEF Taken
      <3>2. Len(<<>>) = 0
        BY EmptySeq
      <3>3. QED
        BY <3>1, <3>2
    <2>4. QED
      BY <1>2, <2>1, <2>2, <2>3 DEF Runs
  <1>5. CASE Walks(c, "server")
    <2>1. UNCHANGED state /\ pc'[c].client = pc[c].client
      BY <1>1, <1>5, Elsewhere
    <2>2. pc'[c].server = 2
      BY <1>1, <1>5, TimeServerMoves
    <2>3. QED
      BY <1>2, <2>1, <2>2
  <1>6. QED
    BY <1>3, <1>4, <1>5, OneConnection DEF Sides

-----------------------------------------------------------------------------
(* The inductive invariant. *)
LEMMA InitInv == Init => IInv
  <1> SUFFICES ASSUME Init PROVE IInv
    OBVIOUS
  <1>1. TypeOK
    <2>1. <<>> \in Seq(Conns) /\ <<>> \in Seq(Messages) /\ Len(<<>>) = 0
      BY EmptySeq
    <2>2. Buf \in Nat
      BY StreamLabsAssumption
    <2>3. net \in [Conns -> [Sides -> Seq(Messages)]]
      BY <2>1 DEF Init
    <2>4. \A c \in Conns, s \in Sides : Len(net[c][s]) <= Buf
      <3>1. \A c \in Conns, s \in Sides : net[c][s] = <<>>
        BY DEF Init
      <3>2. QED
        BY <2>1, <2>2, <3>1
    <2>5. state \in [Conns -> [Sides -> {"idle", "queued", "run", "left", "dead"}]]
      BY DEF Init
    <2>6. pc \in [Conns -> [Sides -> 1..5]]
      <3> DEFINE Calls == 1..5
      <3>1. 1 \in Calls
        OBVIOUS
      <3> HIDE DEF Calls
      <3>2. pc \in [Conns -> [Sides -> Calls]]
        BY <3>1 DEF Init
      <3>3. QED
        BY <3>2 DEF Calls
    <2>7. line \in [Conns -> [Sides -> Typed \cup Messages \cup {""}]]
      BY DEF Init
    <2>8. QED
      BY <2>1, <2>3, <2>4, <2>5, <2>6, <2>7 DEF Init, TypeOK
  <1>2. InCode
    <2>1. ASSUME NEW c \in Conns, NEW s \in Sides
          PROVE  pc[c][s] \in 1..Len(Prog(s).code) /\ Prog(s).code[pc[c][s]] # "write"
      <3>1. WellFormed(Prog(s)) /\ pc[c][s] = 1
        BY <1>1, ProgFacts DEF Init
      <3>2. QED
        BY <3>1 DEF WellFormed
    <2>2. QED
      BY <2>1 DEF InCode
  <1>3. Fresh
    BY DEF Init, Fresh, Sides
  <1>4. Waiting
    <2>1. Len(<<>>) = 0 /\ backlog = <<>>
      BY EmptySeq DEF Init
    <2>2. QED
      BY <2>1 DEF Waiting
  <1>5. WordKept /\ NameFirst
    BY DEF Init, WordKept, NameFirst
  <1>6. \A c \in Conns : state[c].client = "idle"
    BY DEF Init, Sides
  <1>7. OneTurn /\ DateShape
    BY <1>6 DEF OneTurn, DateShape, Runs
  <1>8. TimeShape
    BY <1>6 DEF Init, TimeShape, Sides
  <1>9. QED
    BY <1>1, <1>2, <1>3, <1>4, <1>5, <1>7, <1>8 DEF IInv

LEMMA Inductive == IInv /\ [Next]_vars => IInv'
  BY StepTypeOK, StepInCode, StepFresh, StepWaiting, StepWordKept, StepNameFirst,
     StepOneTurn, StepDateShape, StepTimeShape DEF IInv

THEOREM StreamLabsInductive == Spec => []IInv
  BY InitInv, Inductive, PTL DEF Spec

-----------------------------------------------------------------------------
(* The types of the model: a program is never past its last call, the      *)
(* streams hold messages that the programs send and never more than the    *)
(* buffers, and only clients that have sent something have said the word.  *)
THEOREM StreamLabsTypeOK == Spec => []TypeOK
  BY StreamLabsInductive, PTL DEF IInv

(* No server side that reads for ever at the end of a stream is one whose  *)
(* client said the closing word, for any number of clients and buffers of  *)
(* any size: the word is on its way until the loop has looked at it.       *)
THEOREM StreamLabsSpinsOnlyWithoutWord == Spec => []SpinsOnlyWithoutWord
  <1>1. IInv => SpinsOnlyWithoutWord
    <2> SUFFICES ASSUME IInv, NEW c \in bye, lab \in Leaving, At(c, "server", "read"),
                        net[c].server = <<>>
                 PROVE  FALSE
      BY DEF SpinsOnlyWithoutWord
    <2>1. Kept(c)
      BY DEF IInv, WordKept, At, Runs, Gone
    <2>2. Len(<<>>) = 0
      BY EmptySeq
    <2>3. ~At(c, "server", "test")
      BY DEF At
    <2>4. QED
      BY <2>1, <2>2, <2>3 DEF Kept
  <1>2. QED
    BY <1>1, StreamLabsInductive, PTL

(* Q3: the turn is in one place while both sides run, and is lost only by  *)
(* a line of the server that writeUTF refuses.                             *)
THEOREM StreamLabsOneTurn == Spec => []OneTurn
  BY StreamLabsInductive, PTL DEF IInv

(* Program2: the client prints prompts and answers where it expects them.  *)
THEOREM StreamLabsInStep == Spec => []InStep
  <1>1. IInv => InStep
    <2> SUFFICES ASSUME IInv, NEW c \in Conns, lab = "date", Runs(c, "client"),
                        net[c].client # <<>>
                 PROVE  /\ pc[c].client = 1 => Head(net[c].client) = "prompt"
                        /\ pc[c].client = 5 => Head(net[c].client) = "answer"
      BY DEF InStep
    <2>1. Expected(pc[c].client, net[c].client)
      BY DEF IInv, DateShape
    <2>2. Len(net[c].client) # 0 /\ Head(net[c].client) = net[c].client[1]
      <3>a. net \in [Conns -> [Sides -> Seq(Messages)]]
        BY DEF IInv, TypeOK
      <3>1. net[c].client \in Seq(Messages)
        BY <3>a, NetFacts
      <3>2. QED
        BY <3>1, EmptySeq
    <2>3. QED
      BY <2>1, <2>2 DEF Expected
  <1>2. QED
    BY <1>1, StreamLabsInductive, PTL

(* Q2: clients that come, are answered and leave never bring the server    *)
(* down; one that vanishes before its answer may.                          *)
THEOREM StreamLabsFallsByVanished == Spec => FallsByVanished
  <1>1. ASSUME IInv, Next, lab = "time", up = "up", up' = "gone"
        PROVE  \E c \in Conns : state[c].client = "dead" /\ At(c, "server", "answer")
    <2>0. /\ TypeOK /\ InCode /\ TimeShape /\ "server" \in Sides
          /\ Prog("server").code = <<"answer", "exit">> /\ Len(Prog("server").code) = 2
          /\ Prog("client").code = <<"skip", "exit">> /\ Len(Prog("client").code) = 2
          /\ Lab[lab].serves # "one"
      BY <1>1, TimePrograms, TimeServes DEF IInv, Sides
    <2>1. ASSUME NEW c \in Conns, NEW s \in Sides, At(c, s, "write") \/ At(c, s, "type")
          PROVE  FALSE
      <3>1. pc[c][s] \in 1..2 /\ Prog(s).code \in {<<"answer", "exit">>, <<"skip", "exit">>}
        BY <2>0 DEF InCode, Sides
      <3>2. QED
        BY <2>1, <3>1 DEF At
    <2>2. ASSUME NEW c \in Conns, NEW s \in Sides, NEW how, End(c, s, how)
          PROVE  s = "server" /\ how = "dead"
      BY <1>1, <2>0, <2>2 DEF End
    <2>3. ASSUME NEW c \in Conns, NEW s \in Sides, Catch(c, s) PROVE s = "server"
      BY <1>1, <2>2, <2>3 DEF Catch, Goto
    <2>4. ASSUME NEW c \in Conns, NEW s \in Sides, Advance(c, s) PROVE FALSE
      BY <1>1, <2>4 DEF Advance, Goto
    <2>5. ASSUME NEW c \in Conns, NEW s \in Sides, Say(c, s)
          PROVE  state[c].client = "dead" /\ At(c, "server", "answer")
      <3>1. PICK m \in {"prompt", "answer", "ask"} : At(c, s, m) /\ Send(c, s, m)
        BY <2>5 DEF Say
      <3>2. s = "server" /\ Gone(c, Other(s))
        BY <2>3, <2>4, <3>1 DEF Send
      <3>3. pc[c].server \in 1..2 /\ Prog("server").code[pc[c].server] = m
        BY <2>0, <3>1, <3>2 DEF InCode, At
      <3>4. m = "answer" /\ pc[c].server = 1
        BY <2>0, <3>1, <3>3
      <3>5. state[c].client # "left"
        BY <1>1, <2>0, <3>4 DEF TimeShape
      <3>6. QED
        BY <3>1, <3>2, <3>4, <3>5 DEF Gone, Other
    <2>6. ASSUME NEW c \in Conns, NEW s \in Sides, Read(c, s) PROVE FALSE
      <3>1. s = "server"
        BY <2>3, <2>4, <2>6 DEF Read
      <3>2. pc[c].server \in 1..2
        BY <2>0 DEF InCode
      <3>3. QED
        BY <2>0, <2>6, <3>1, <3>2 DEF Read, At
    <2>7. ASSUME NEW c \in Conns, NEW s \in Sides, Test(c, s) \/ Exit(c, s) PROVE FALSE
      BY <2>2, <2>4, <2>7 DEF Test, Exit
    <2>8. ASSUME NEW c \in Conns, NEW s \in Sides, Write(c, s) \/ Type(c, s) PROVE FALSE
      BY <2>1, <2>8 DEF Write, Type
    <2>9. ASSUME NEW c \in Conns, Connect(c) \/ KillClient(c) PROVE FALSE
      BY <1>1, <2>9 DEF Connect, KillClient
    <2>10. ~Start /\ ~Accept /\ ~KillServer
      BY <1>1 DEF Start, Accept, KillServer, Down
    <2>11. QED
      BY <1>1, <2>5, <2>6, <2>7, <2>8, <2>9, <2>10 DEF Next, Work
  <1>2. IInv /\ [Next]_vars
           => [lab = "time" /\ up = "up" /\ up' = "gone"
                 => \E c \in Conns : state[c].client = "dead" /\ At(c, "server", "answer")]_vars
    BY <1>1
  <1>3. QED
    BY <1>2, StreamLabsInductive, PTL DEF Spec, FallsByVanished

=============================================================================

------------------------- MODULE PyGroupChatProofs -------------------------
(* Machine-checked proofs about PyGroupChat, for every set of clients,     *)
(* every number of threads, datagrams and places in the socket.            *)
EXTENDS PyGroupChat, FiniteSetTheorems, SequenceTheorems, TLAPS

(* The line that a datagram brings. *)
Line(d) == [from |-> d.from, n |-> d.text]

(* How often x is among the first p of s. *)
Upto(x, s, p) == Cardinality({n \in 1..p : s[n] = x})

Sends(t) == pc[t] = "send"
AtAppend(t, c) == pc[t] = "append" /\ msg[t].from = c

(* What a thread has at hand, and where in the list it is. *)
Hands ==
    /\ pos \in [Threads -> Nat \ {0}]
    /\ \A t \in Threads :
          /\ pc[t] \in {"test", "append", "spawn", "send"} => msg[t] \in Datagrams
          /\ ~Sends(t) => pos[t] = 1
          /\ Sends(t) => msg[t].text # Hello

(* Wherever a client is entered, or about to be, for the second time, two  *)
(* threads have been about to enter it at once.                            *)
RaceSeen ==
    /\ \A t, u \in Threads : \A c \in Addrs :
          t # u /\ AtAppend(t, c) /\ AtAppend(u, c) => c \in raced
    /\ \A t \in Threads : \A c \in Addrs :
          AtAppend(t, c) /\ Contains(clients, c) => c \in raced
    /\ \A i, j \in 1..Len(clients) : i # j /\ clients[i] = clients[j] => clients[i] \in raced

(* The number of a line is below the count of its author. *)
Numbered ==
    /\ \A i \in 1..Len(inbox) : inbox[i].text < said[inbox[i].from]
    /\ \A t \in Threads : Sends(t) => msg[t].text < said[msg[t].from]
    /\ \A c \in Addrs : \A k \in 1..Len(out[c]) : out[c][k].n < said[out[c][k].from]

(* A line is once in the inbox or with one thread, never both. *)
OneCarrier ==
    /\ \A i, j \in 1..Len(inbox) : i # j /\ inbox[i] = inbox[j] => inbox[i].text = Hello
    /\ \A t \in Threads : \A i \in 1..Len(inbox) : Sends(t) => msg[t] # inbox[i]
    /\ \A t, u \in Threads : Sends(t) /\ Sends(u) /\ msg[t] = msg[u] => t = u

(* Nobody has heard a line that is still in the inbox. *)
InboxUnheard ==
    \A i \in 1..Len(inbox) : \A c \in Addrs : \A k \in 1..Len(out[c]) :
        out[c][k] # Line(inbox[i])

(* A client has heard the line a thread sends once for each entry of it    *)
(* that the thread has passed.                                             *)
HeardSoFar ==
    \A t \in Threads : \A c \in Addrs :
        Sends(t) => Times(Line(msg[t]), out[c]) = Upto(c, clients, pos[t] - 1)

(* The inductive invariant. *)
IInv ==
    /\ TypeOK /\ Hands /\ RaceSeen /\ Numbered /\ OneCarrier /\ InboxUnheard
    /\ HeardSoFar /\ HeardOncePerEntry

-----------------------------------------------------------------------------
(* The records of the model. *)
LEMMA DatagramFacts ==
    /\ \A c \in Addrs : MaxSent[c] \in Nat
    /\ \A d \in Datagrams : /\ d.from \in Addrs /\ d.text \in Nat
                            /\ d = [from |-> d.from, text |-> d.text]
                            /\ d.text # Hello => Line(d) \in Lines
    /\ \A c \in Addrs : \A n \in 0..(MaxSent[c] - 1) :
          MaxSent[c] > 0 => [from |-> c, text |-> n] \in Datagrams
    /\ \A c \in Addrs : [from |-> c, text |-> Hello] \in Datagrams
    /\ \A l \in Lines : l.from \in Addrs /\ l.n \in Nat \ {0}
  <1>1. \A c \in Addrs : MaxSent[c] \in Nat
    BY PyGroupChatAssumption
  <1>2. ASSUME NEW d \in Datagrams
        PROVE  /\ d.from \in Addrs /\ d.text \in Nat
               /\ d = [from |-> d.from, text |-> d.text]
               /\ d.text # Hello => Line(d) \in Lines
    <2>1. PICK c \in Addrs : d \in [from : {c}, text : {Hello} \cup 1..(MaxSent[c] - 1)]
      BY DEF Datagrams
    <2>2. d.from = c /\ d.text \in {Hello} \cup 1..(MaxSent[c] - 1)
          /\ d = [from |-> d.from, text |-> d.text]
      BY <2>1
    <2>3. d.text \in Nat
      BY <2>2, <1>1 DEF Hello
    <2>4. ASSUME d.text # Hello PROVE Line(d) \in Lines
      <3>1. Line(d) \in [from : {c}, n : 1..(MaxSent[c] - 1)]
        BY <2>2, <2>4 DEF Line
      <3>2. QED
        BY <3>1 DEF Lines
    <2>5. QED
      BY <2>2, <2>3, <2>4
  <1>3. ASSUME NEW c \in Addrs, NEW n \in 0..(MaxSent[c] - 1)
        PROVE  [from |-> c, text |-> n] \in Datagrams
    <2>1. [from |-> c, text |-> n] \in [from : {c}, text : {Hello} \cup 1..(MaxSent[c] - 1)]
      BY <1>1 DEF Hello
    <2>2. QED
      BY <2>1 DEF Datagrams
  <1>4. ASSUME NEW c \in Addrs PROVE [from |-> c, text |-> Hello] \in Datagrams
    <2>1. [from |-> c, text |-> Hello] \in [from : {c}, text : {Hello} \cup 1..(MaxSent[c] - 1)]
      OBVIOUS
    <2>2. QED
      BY <2>1 DEF Datagrams
  <1>5. ASSUME NEW l \in Lines PROVE l.from \in Addrs /\ l.n \in Nat \ {0}
    <2>1. PICK c \in Addrs : l \in [from : {c}, n : 1..(MaxSent[c] - 1)]
      BY DEF Lines
    <2>2. QED
      BY <2>1, <1>1
  <1>6. QED
    BY <1>1, <1>2, <1>3, <1>4, <1>5

LEMMA LineInjective ==
    ASSUME NEW d \in Datagrams, NEW e \in Datagrams, Line(d) = Line(e)
    PROVE  d = e
  <1>1. d.from = e.from /\ d.text = e.text
    BY DEF Line
  <1>2. QED
    BY <1>1, DatagramFacts

(* Counting in a sequence that grows. *)
LEMMA UptoFacts ==
    ASSUME NEW x, NEW s
    PROVE  /\ \A p \in Nat : Upto(x, s, p) \in Nat
           /\ Upto(x, s, 0) = 0
           /\ \A p, q \in Nat : p <= q => Upto(x, s, p) <= Upto(x, s, q)
  <1> DEFINE At(p) == {n \in 1..p : s[n] = x}
  <1>1. ASSUME NEW p \in Nat PROVE IsFiniteSet(At(p)) /\ Cardinality(At(p)) \in Nat
    <2>1. IsFiniteSet(1..p) /\ At(p) \in SUBSET (1..p)
      BY FS_Interval
    <2>2. IsFiniteSet(At(p))
      BY ONLY <2>1, FS_Subset
    <2>3. QED
      BY <2>2, FS_CardinalityType
  <1>2. Upto(x, s, 0) = 0
    <2>1. At(0) = {}
      OBVIOUS
    <2>2. QED
      BY <2>1, FS_EmptySet DEF Upto
  <1>3. ASSUME NEW p \in Nat, NEW q \in Nat, p <= q PROVE Upto(x, s, p) <= Upto(x, s, q)
    <2>1. At(p) \in SUBSET At(q)
      BY <1>3
    <2>2. Cardinality(At(p)) <= Cardinality(At(q))
      BY <2>1, <1>1, FS_Subset
    <2>3. QED
      BY <2>2 DEF Upto
  <1>4. ASSUME NEW p \in Nat PROVE Upto(x, s, p) \in Nat
    BY <1>1 DEF Upto
  <1>5. QED
    BY <1>2, <1>3, <1>4

LEMMA UptoNext ==
    ASSUME NEW x, NEW s, NEW p \in Nat
    PROVE  Upto(x, s, p + 1) = Upto(x, s, p) + (IF s[p + 1] = x THEN 1 ELSE 0)
  <1> DEFINE At(q) == {n \in 1..q : s[n] = x}
  <1>0. IsFiniteSet(At(p)) /\ Cardinality(At(p)) \in Nat
    <2>1. IsFiniteSet(1..p) /\ At(p) \in SUBSET (1..p)
      BY FS_Interval
    <2>2. IsFiniteSet(At(p))
      BY ONLY <2>1, FS_Subset
    <2>3. QED
      BY <2>2, FS_CardinalityType
  <1>1. CASE s[p + 1] = x
    <2>1. At(p + 1) = At(p) \cup {p + 1} /\ p + 1 \notin At(p)
      BY <1>1
    <2>2. Cardinality(At(p) \cup {p + 1}) = Cardinality(At(p)) + 1
      BY <1>0, <2>1, FS_AddElement
    <2>3. QED
      BY <1>1, <2>1, <2>2 DEF Upto
  <1>2. CASE s[p + 1] # x
    <2>1. At(p + 1) = At(p)
      BY <1>2
    <2>2. QED
      BY <1>0, <1>2, <2>1 DEF Upto
  <1>3. QED
    BY <1>1, <1>2

LEMMA UptoSame ==
    ASSUME NEW x, NEW s, NEW r, NEW p \in Nat, \A n \in 1..p : s[n] = r[n]
    PROVE  Upto(x, s, p) = Upto(x, r, p)
  <1>1. {n \in 1..p : s[n] = x} = {n \in 1..p : r[n] = x}
    OBVIOUS
  <1>2. QED
    BY <1>1 DEF Upto

LEMMA TimesFacts ==
    ASSUME NEW S, NEW s \in Seq(S), NEW x
    PROVE  /\ Times(x, s) = Upto(x, s, Len(s)) /\ Times(x, s) \in Nat
           /\ \A e \in S : Times(x, Append(s, e)) = Times(x, s) + (IF e = x THEN 1 ELSE 0)
           /\ (\A n \in 1..Len(s) : s[n] # x) => Times(x, s) = 0
           /\ (\A n, m \in 1..Len(s) : s[n] = x /\ s[m] = x => n = m) => Times(x, s) <= 1
  <1>1. Len(s) \in Nat /\ DOMAIN s = 1..Len(s)
    BY LenProperties
  <1>2. Times(x, s) = Upto(x, s, Len(s)) /\ Times(x, s) \in Nat
    <2>1. Times(x, s) = Upto(x, s, Len(s))
      BY <1>1 DEF Times, Upto
    <2>2. \A p \in Nat : Upto(x, s, p) \in Nat
      BY UptoFacts
    <2>3. QED
      BY <1>1, <2>1, <2>2
  <1>3. ASSUME NEW e \in S
        PROVE  Times(x, Append(s, e)) = Times(x, s) + (IF e = x THEN 1 ELSE 0)
    <2> DEFINE r == Append(s, e)
    <2>1. /\ r \in Seq(S) /\ Len(r) = Len(s) + 1 /\ r[Len(s) + 1] = e
          /\ \A n \in 1..Len(s) : r[n] = s[n]
      BY AppendProperties
    <2>2. DOMAIN r = 1..Len(r)
      BY <2>1, LenProperties
    <2>3. Times(x, r) = Upto(x, r, Len(s) + 1)
      BY <2>1, <2>2 DEF Times, Upto
    <2>4. Upto(x, r, Len(s)) = Upto(x, s, Len(s))
      BY <1>1, <2>1, UptoSame
    <2>5. Upto(x, r, Len(s) + 1) = Upto(x, r, Len(s)) + (IF r[Len(s) + 1] = x THEN 1 ELSE 0)
      <3>1. Len(s) \in Nat
        BY <1>1
      <3>2. QED
        BY <3>1, UptoNext
    <2>6. QED
      BY <2>1, <2>3, <2>4, <2>5, <1>2
  <1>4. ASSUME \A n \in 1..Len(s) : s[n] # x PROVE Times(x, s) = 0
    <2>1. {n \in DOMAIN s : s[n] = x} = {}
      BY <1>1, <1>4
    <2>2. QED
      BY <2>1, FS_EmptySet DEF Times
  <1>5. ASSUME \A n, m \in 1..Len(s) : s[n] = x /\ s[m] = x => n = m
        PROVE  Times(x, s) <= 1
    <2>1. CASE \A n \in 1..Len(s) : s[n] # x
      BY <2>1, <1>4
    <2>2. ASSUME NEW n \in 1..Len(s), s[n] = x PROVE Times(x, s) = 1
      <3>1. {m \in DOMAIN s : s[m] = x} = {n}
        BY <1>1, <1>5, <2>2
      <3>2. QED
        BY <3>1, FS_Singleton DEF Times
    <2>3. QED
      BY <2>1, <2>2
  <1>6. QED
    BY <1>2, <1>3, <1>4, <1>5

-----------------------------------------------------------------------------
LEMMA InitInv == Init => IInv
  <1> SUFFICES ASSUME Init PROVE IInv
    OBVIOUS
  <1> USE PyGroupChatAssumption
  <1>1. \A S : <<>> \in Seq(S) /\ Len(<<>>) = 0
    BY EmptySeq
  <1>2. TypeOK
    <2>1. \A t \in Threads : pos[t] \in 1..(Len(clients) + 1)
      BY <1>1 DEF Init
    <2>2. inbox \in Seq(Datagrams) /\ Len(inbox) <= SockBuf /\ clients \in Seq(Addrs)
      BY <1>1 DEF Init
    <2>3. out \in [Addrs -> Seq(Lines)]
      BY <1>1 DEF Init
    <2>4. said \in [Addrs -> Nat] /\ \A c \in Addrs : said[c] <= MaxSent[c]
      BY DatagramFacts DEF Init
    <2>5. pc \in [Threads -> {"none", "bind", "recv", "test", "append", "spawn", "send"}]
      BY DEF Init
    <2>6. msg \in [Threads -> Datagrams \cup {None}] /\ raced \subseteq Addrs
      BY DEF Init
    <2>7. QED
      BY <2>1, <2>2, <2>3, <2>4, <2>5, <2>6 DEF TypeOK
  <1>3. \A t \in Threads : pc[t] \in {"bind", "none"} /\ ~Sends(t)
    BY DEF Init, Sends
  <1>4. Hands
    BY <1>3 DEF Init, Hands
  <1>a. Len(inbox) = 0 /\ Len(clients) = 0 /\ \A c \in Addrs : Len(out[c]) = 0
    BY <1>1 DEF Init
  <1>b. \A t \in Threads : \A c : ~AtAppend(t, c)
    BY <1>3 DEF AtAppend
  <1>5. RaceSeen /\ Numbered /\ OneCarrier /\ InboxUnheard /\ HeardSoFar
    <2>1. RaceSeen
      BY <1>a, <1>b DEF RaceSeen
    <2>2. Numbered
      BY <1>a, <1>3 DEF Numbered
    <2>3. OneCarrier
      BY <1>a, <1>3 DEF OneCarrier
    <2>4. InboxUnheard
      BY <1>a DEF InboxUnheard
    <2>5. HeardSoFar
      BY <1>3 DEF HeardSoFar
    <2>6. QED
      BY <2>1, <2>2, <2>3, <2>4, <2>5
  <1>6. HeardOncePerEntry
    <2>1. \A c \in Addrs : out[c] = <<>> /\ clients = <<>>
      BY DEF Init
    <2>2. \A x : Times(x, <<>>) = 0
      <3>1. \A x : {n \in DOMAIN <<>> : <<>>[n] = x} = {}
        OBVIOUS
      <3>2. QED
        BY <3>1, FS_EmptySet DEF Times
    <2>3. QED
      BY <2>1, <2>2 DEF HeardOncePerEntry
  <1>7. QED
    BY <1>2, <1>4, <1>5, <1>6 DEF IInv

-----------------------------------------------------------------------------
(* A client sends: what becomes of the inbox and of the count.             *)
Sent(c) ==
    /\ said[c] < MaxSent[c] /\ said' = [said EXCEPT ![c] = @ + 1]
    /\ UNCHANGED <<pc, msg, pos, clients, out, raced>>
    /\ \/ inbox' = inbox
       \/ \E d \in Datagrams :
             /\ Len(inbox) < SockBuf /\ inbox' = Append(inbox, d)
             /\ d.from = c /\ d.text \in {Hello, said[c]} /\ d.text <= said[c]

LEMMA SendFacts ==
    ASSUME TypeOK, NEW c \in Addrs, SayHello(c) \/ Say(c)
    PROVE  Sent(c)
  <1>1. PICK text \in {Hello, said[c]} : SendTo(c, text)
    BY DEF SayHello, Say
  <1>2. said[c] \in Nat /\ MaxSent[c] \in Nat /\ said[c] < MaxSent[c]
    BY <1>1, DatagramFacts DEF TypeOK, SendTo
  <1>3. [from |-> c, text |-> text] \in Datagrams /\ text <= said[c]
    BY <1>2, DatagramFacts DEF Hello
  <1>4. Len(inbox) <= SockBuf /\ Len(inbox) \in Nat /\ SockBuf \in Nat
    BY PyGroupChatAssumption, LenProperties DEF TypeOK
  <1>5. CASE pc[0] = "bind" \/ Len(inbox) = SockBuf
    BY <1>1, <1>2, <1>5 DEF SendTo, Sent
  <1>6. CASE ~(pc[0] = "bind" \/ Len(inbox) = SockBuf)
    <2> DEFINE d == [from |-> c, text |-> text]
    <2>1. Len(inbox) < SockBuf /\ inbox' = Append(inbox, d) /\ d.from = c /\ d.text = text
      BY <1>1, <1>4, <1>6 DEF SendTo
    <2>2. d \in Datagrams /\ d.text <= said[c] /\ d.text \in {Hello, said[c]}
      BY <1>3, <2>1
    <2>3. QED
      BY <1>1, <1>2, <2>1, <2>2 DEF SendTo, Sent
  <1>7. QED
    BY <1>5, <1>6

(* A thread takes a datagram: the others move up by one.                   *)
Took(t) ==
    /\ pc[t] = "recv" /\ Len(inbox) \in Nat \ {0}
    /\ inbox[1] \in Datagrams
    /\ msg' = [msg EXCEPT ![t] = inbox[1]]
    /\ pc' = [pc EXCEPT ![t] = IF inbox[1].text = Hello THEN "test" ELSE "send"]
    /\ inbox' \in Seq(Datagrams) /\ Len(inbox') = Len(inbox) - 1
    /\ \A i \in 1..Len(inbox') : i + 1 \in 1..Len(inbox) /\ inbox'[i] = inbox[i + 1]
    /\ UNCHANGED <<pos, clients, said, out, raced>>

LEMMA TakeFacts ==
    ASSUME TypeOK, NEW t \in Threads, RecvFrom(t)
    PROVE  Took(t)
  <1>1. inbox \in Seq(Datagrams) /\ inbox # <<>>
    BY DEF TypeOK, RecvFrom
  <1>2. Len(inbox) \in Nat \ {0}
    BY <1>1, EmptySeq
  <1>3. Head(inbox) = inbox[1] /\ inbox[1] \in Datagrams
    BY <1>1, <1>2, ElementOfSeq
  <1>4. /\ Tail(inbox) \in Seq(Datagrams) /\ Len(Tail(inbox)) = Len(inbox) - 1
        /\ \A i \in 1..Len(Tail(inbox)) : Tail(inbox)[i] = inbox[i + 1]
    BY <1>1, HeadTailProperties
  <1>5. \A i \in 1..Len(Tail(inbox)) : i + 1 \in 1..Len(inbox)
    BY <1>2, <1>4
  <1>6. /\ inbox' = Tail(inbox) /\ pc[t] = "recv"
        /\ UNCHANGED <<pos, clients, said, out, raced>>
    BY DEF RecvFrom
  <1>7. msg' = [msg EXCEPT ![t] = inbox[1]]
    BY <1>3, Zenon DEF RecvFrom
  <1>8. pc' = [pc EXCEPT ![t] = IF inbox[1].text = Hello THEN "test" ELSE "send"]
    BY <1>3, Zenon DEF RecvFrom
  <1>9. QED
    BY <1>2, <1>3, <1>4, <1>5, <1>6, <1>7, <1>8 DEF Took

(* A thread sends a line to one entry of the list.                         *)
Reached(t) ==
    /\ Sends(t) /\ msg[t] \in Datagrams /\ Line(msg[t]) \in Lines
    /\ pos[t] \in 1..Len(clients) /\ Len(clients) \in Nat /\ clients[pos[t]] \in Addrs
    /\ out' = [out EXCEPT ![clients[pos[t]]] = Append(@, Line(msg[t]))]
    /\ pos' = [pos EXCEPT ![t] = @ + 1]
    /\ UNCHANGED <<inbox, pc, msg, clients, said, raced>>

(* A thread that sends is at the end of the list.                          *)
Ended(t) ==
    /\ Sends(t) /\ pos[t] = Len(clients) + 1 /\ Len(clients) \in Nat
    /\ pc' = [pc EXCEPT ![t] = "recv"]
    /\ msg' = [msg EXCEPT ![t] = None]
    /\ pos' = [pos EXCEPT ![t] = 1]
    /\ UNCHANGED <<inbox, clients, said, out, raced>>

LEMMA TransmitFacts ==
    ASSUME TypeOK, Hands, NEW t \in Threads, Transmit(t)
    PROVE  Reached(t) \/ Ended(t)
  <1>1. Sends(t)
    BY DEF Transmit, Sends
  <1>2. msg[t] \in Datagrams /\ Line(msg[t]) \in Lines
    BY <1>1, DatagramFacts DEF Hands, Sends
  <1>3. pos[t] \in 1..(Len(clients) + 1) /\ Len(clients) \in Nat
    BY LenProperties DEF TypeOK
  <1>4. pos[t] <= Len(clients) => clients[pos[t]] \in Addrs
    BY <1>3, ElementOfSeq DEF TypeOK
  <1>5. CASE pos[t] <= Len(clients)
    BY <1>1, <1>2, <1>3, <1>4, <1>5 DEF Transmit, Line, Reached
  <1>6. CASE ~(pos[t] <= Len(clients))
    BY <1>1, <1>3, <1>6 DEF Transmit, Ended
  <1>7. QED
    BY <1>5, <1>6

(* The list only grows, at its end. *)
Entered(t) ==
    /\ pc[t] = "append" /\ msg[t].from \in Addrs
    /\ pc' = [pc EXCEPT ![t] = "spawn"]
    /\ Len(clients) \in Nat
    /\ clients' = Append(clients, msg[t].from)
    /\ clients' \in Seq(Addrs) /\ Len(clients') = Len(clients) + 1
    /\ \A i \in 1..Len(clients) : clients'[i] = clients[i]
    /\ clients'[Len(clients) + 1] = msg[t].from
    /\ UNCHANGED <<inbox, msg, pos, said, out, raced>>

LEMMA EnterFacts ==
    ASSUME TypeOK, Hands, NEW t \in Threads, AppendAddr(t)
    PROVE  Entered(t)
  <1>1. pc[t] = "append" /\ msg[t] \in Datagrams
    BY DEF AppendAddr, Hands
  <1>2. msg[t].from \in Addrs
    BY <1>1, DatagramFacts
  <1>3. clients \in Seq(Addrs) /\ Len(clients) \in Nat
    BY LenProperties DEF TypeOK
  <1>4. QED
    BY <1>1, <1>2, <1>3, AppendProperties DEF AppendAddr, Entered

(* A thread tests whether an address is entered.                           *)
Tested(t) ==
    /\ pc[t] = "test" /\ msg[t].from \in Addrs
    /\ \/ /\ Contains(clients, msg[t].from)
          /\ pc' = [pc EXCEPT ![t] = "spawn"]
          /\ raced' = raced
       \/ /\ ~Contains(clients, msg[t].from)
          /\ pc' = [pc EXCEPT ![t] = "append"]
          /\ raced' \subseteq raced \cup {msg[t].from} /\ raced \subseteq raced'
          /\ (\E u \in Threads : AtAppend(u, msg[t].from)) => msg[t].from \in raced'
    /\ UNCHANGED <<inbox, msg, pos, clients, said, out>>

LEMMA TestFacts ==
    ASSUME TypeOK, Hands, NEW t \in Threads, Test(t)
    PROVE  Tested(t)
  <1>1. pc[t] = "test" /\ msg[t].from \in Addrs
    BY DatagramFacts DEF Hands, Test
  <1>2. CASE Contains(clients, msg[t].from)
    BY <1>1, <1>2 DEF Test, Tested
  <1>3. CASE ~Contains(clients, msg[t].from)
    BY <1>1, <1>3 DEF Test, Tested, AtAppend
  <1>4. QED
    BY <1>2, <1>3

(* A thread starts another one. *)
Spawned(t) ==
    /\ pc[t] = "spawn"
    /\ \E u \in Threads : pc[u] = "none" /\ pc' = [pc EXCEPT ![t] = "recv", ![u] = "recv"]
    /\ msg' = [msg EXCEPT ![t] = None]
    /\ UNCHANGED <<inbox, pos, clients, said, out, raced>>

(* The steps there are, by their effects. *)
LEMMA StepKinds ==
    ASSUME TypeOK, Hands, [Next]_vars
    PROVE  \/ UNCHANGED vars \/ Bind
           \/ \E t \in Threads : \/ Took(t) \/ Tested(t) \/ Entered(t)
                                 \/ Spawned(t) \/ Reached(t) \/ Ended(t)
           \/ \E c \in Addrs : Sent(c)
  <1>1. ASSUME NEW t \in Threads, Spawn(t) PROVE Spawned(t)
    BY <1>1 DEF Spawn, Spawned
  <1>2. QED
    BY <1>1, TakeFacts, TestFacts, EnterFacts, TransmitFacts, SendFacts DEF Next, Thread

-----------------------------------------------------------------------------
(* Types *)
LEMMA StepTypeOK == TypeOK /\ Hands /\ [Next]_vars => TypeOK'
  <1> SUFFICES ASSUME TypeOK, Hands, [Next]_vars PROVE TypeOK'
    OBVIOUS
  <1> USE PyGroupChatAssumption
  <1>b. /\ Len(inbox) \in Nat /\ Len(clients) \in Nat
        /\ \A c \in Addrs : said[c] \in Nat /\ MaxSent[c] \in Nat
    BY LenProperties, DatagramFacts DEF TypeOK
  <1>0. CASE UNCHANGED vars
    BY <1>0 DEF vars, TypeOK
  <1>1. CASE Bind
    BY <1>1 DEF Bind, TypeOK
  <1>2. ASSUME NEW t \in Threads, Took(t) PROVE TypeOK'
    <2>1. inbox' \in Seq(Datagrams) /\ Len(inbox') <= SockBuf
      BY <1>2, <1>b DEF TypeOK, Took
    <2>2. msg' \in [Threads -> Datagrams \cup {None}]
      BY <1>2 DEF TypeOK, Took
    <2>3. pc' \in [Threads -> {"none", "bind", "recv", "test", "append", "spawn", "send"}]
      BY <1>2 DEF TypeOK, Took
    <2>4. UNCHANGED <<pos, clients, said, out, raced>>
      BY <1>2 DEF Took
    <2>5. QED
      BY <2>1, <2>2, <2>3, <2>4 DEF TypeOK
  <1>3. ASSUME NEW t \in Threads, Tested(t) PROVE TypeOK'
    <2>1. pc' \in [Threads -> {"none", "bind", "recv", "test", "append", "spawn", "send"}]
      BY <1>3 DEF Tested, TypeOK
    <2>2. raced' \subseteq Addrs
      BY <1>3 DEF Tested, TypeOK
    <2>3. UNCHANGED <<inbox, msg, pos, clients, said, out>>
      BY <1>3 DEF Tested
    <2>4. QED
      BY <2>1, <2>2, <2>3 DEF TypeOK
  <1>4. ASSUME NEW t \in Threads, Entered(t) PROVE TypeOK'
    <2>1. pc' \in [Threads -> {"none", "bind", "recv", "test", "append", "spawn", "send"}]
      BY <1>4 DEF Entered, TypeOK
    <2>2. clients' \in Seq(Addrs) /\ \A u \in Threads : pos'[u] \in 1..(Len(clients') + 1)
      BY <1>4 DEF Entered, TypeOK
    <2>3. UNCHANGED <<inbox, msg, said, out, raced>>
      BY <1>4 DEF Entered
    <2>4. QED
      BY <2>1, <2>2, <2>3 DEF TypeOK
  <1>5. ASSUME NEW t \in Threads, Spawned(t) PROVE TypeOK'
    BY <1>5 DEF Spawned, TypeOK
  <1>6. ASSUME NEW t \in Threads, Reached(t) PROVE TypeOK'
    <2>1. \A u \in Threads : pos'[u] \in 1..(Len(clients') + 1)
      <3>1. pos \in [Threads -> Nat \ {0}] /\ \A u \in Threads : pos[u] \in 1..(Len(clients) + 1)
        BY DEF TypeOK, Hands
      <3>2. /\ pos' = [pos EXCEPT ![t] = @ + 1] /\ pos[t] \in 1..Len(clients)
            /\ Len(clients) \in Nat /\ clients' = clients
        BY <1>6 DEF Reached
      <3>3. QED
        BY <3>1, <3>2
    <2>2. \A s \in Seq(Lines) : Append(s, Line(msg[t])) \in Seq(Lines)
      BY <1>6, AppendProperties DEF Reached
    <2>3. out' \in [Addrs -> Seq(Lines)]
      BY <1>6, <2>2 DEF TypeOK, Reached
    <2>4. UNCHANGED <<inbox, pc, msg, clients, said, raced>>
      BY <1>6 DEF Reached
    <2>5. QED
      BY <2>1, <2>3, <2>4 DEF TypeOK
  <1>7. ASSUME NEW t \in Threads, Ended(t) PROVE TypeOK'
    BY <1>7 DEF TypeOK, Ended, Hands
  <1>8. ASSUME NEW c \in Addrs, Sent(c) PROVE TypeOK'
    <2>1. said' \in [Addrs -> Nat] /\ \A e \in Addrs : said'[e] <= MaxSent[e]
      BY <1>b, <1>8 DEF TypeOK, Sent
    <2>2. \A d \in Datagrams : Append(inbox, d) \in Seq(Datagrams)
                               /\ Len(Append(inbox, d)) = Len(inbox) + 1
      BY AppendProperties DEF TypeOK
    <2>3. inbox' \in Seq(Datagrams) /\ Len(inbox') <= SockBuf
      <3>1. inbox \in Seq(Datagrams) /\ Len(inbox) <= SockBuf /\ SockBuf \in Nat
        BY DEF TypeOK
      <3>2. inbox' = inbox \/ \E d \in Datagrams : Len(inbox) < SockBuf /\ inbox' = Append(inbox, d)
        BY <1>8 DEF Sent
      <3>3. QED
        BY <1>b, <2>2, <3>1, <3>2
    <2>4. UNCHANGED <<pc, msg, pos, clients, out, raced>>
      BY <1>8 DEF Sent
    <2>5. QED
      BY <2>1, <2>3, <2>4 DEF TypeOK
  <1>9. QED
    BY <1>0, <1>1, <1>2, <1>3, <1>4, <1>5, <1>6, <1>7, <1>8, StepKinds

(* What the threads have at hand. *)
LEMMA StepHands ==
    ASSUME TypeOK, Hands, TypeOK', [Next]_vars
    PROVE  Hands'
  <1>0. CASE UNCHANGED vars
    BY <1>0 DEF vars, Hands, Sends
  <1>1. CASE Bind
    BY <1>1 DEF Bind, Hands, Sends, TypeOK
  <1>2. ASSUME NEW t \in Threads, Took(t) PROVE Hands'
    BY <1>2 DEF Took, Hands, Sends, TypeOK
  <1>3. ASSUME NEW t \in Threads, Tested(t) PROVE Hands'
    BY <1>3 DEF Tested, Hands, Sends, TypeOK
  <1>4. ASSUME NEW t \in Threads, Entered(t) PROVE Hands'
    BY <1>4 DEF Entered, Hands, Sends, TypeOK
  <1>5. ASSUME NEW t \in Threads, Spawned(t) PROVE Hands'
    BY <1>5 DEF Spawned, Hands, Sends, TypeOK
  <1>6. ASSUME NEW t \in Threads, Reached(t) PROVE Hands'
    <2>1. pc' = pc /\ msg' = msg /\ pc[t] = "send" /\ pos' = [pos EXCEPT ![t] = @ + 1]
      BY <1>6 DEF Reached, Sends
    <2>2. pos \in [Threads -> Nat \ {0}] /\ pos[t] + 1 \in Nat \ {0}
      BY DEF Hands
    <2>3. pos' \in [Threads -> Nat \ {0}] /\ \A u \in Threads : u # t => pos'[u] = pos[u]
      BY <2>1, <2>2
    <2>4. QED
      BY <2>1, <2>3 DEF Hands, Sends
  <1>7. ASSUME NEW t \in Threads, Ended(t) PROVE Hands'
    BY <1>7 DEF Ended, Hands, Sends, TypeOK
  <1>8. ASSUME NEW c \in Addrs, Sent(c) PROVE Hands'
    BY <1>8 DEF Sent, Hands, Sends
  <1>9. QED
    BY <1>0, <1>1, <1>2, <1>3, <1>4, <1>5, <1>6, <1>7, <1>8, StepKinds

(* Races are seen: a thread that is to append an address has found it      *)
(* missing, and so has every other one that is to append the same.         *)
LEMMA StepRaceSeen ==
    ASSUME TypeOK, Hands, RaceSeen, [Next]_vars
    PROVE  RaceSeen'
  <1> USE DEF RaceSeen, AtAppend
  <1>0. CASE UNCHANGED vars
    BY <1>0 DEF vars
  <1>1. CASE Bind
    BY <1>1 DEF Bind, TypeOK
  <1>2. ASSUME NEW t \in Threads, Took(t) PROVE RaceSeen'
    BY <1>2 DEF Took, TypeOK
  <1>3. ASSUME NEW t \in Threads, Tested(t) PROVE RaceSeen'
    <2>1. clients' = clients /\ msg' = msg /\ raced \subseteq raced'
      BY <1>3 DEF Tested
    <2>2. \A u \in Threads : u # t => pc'[u] = pc[u]
      BY <1>3 DEF Tested, TypeOK
    <2>3. \A u \in Threads : \A c : u # t => (AtAppend(u, c)' <=> AtAppend(u, c))
      BY <2>1, <2>2
    <2>4. ASSUME NEW c, AtAppend(t, c)'
          PROVE  /\ ~Contains(clients, c) /\ c = msg[t].from
                 /\ \A u \in Threads : AtAppend(u, c) => c \in raced'
      <3>1. c = msg[t].from
        BY <2>1, <2>4
      <3>2. ~Contains(clients, msg[t].from)
        BY <1>3, <2>4 DEF Tested, TypeOK
      <3>3. \A u \in Threads : AtAppend(u, msg[t].from) => msg[t].from \in raced'
        BY <1>3, <3>2 DEF Tested
      <3>4. QED
        BY <3>1, <3>2, <3>3
    <2> HIDE DEF AtAppend
    <2>5. \A u, v \in Threads : \A c \in Addrs :
             u # v /\ AtAppend(u, c)' /\ AtAppend(v, c)' => c \in raced'
      <3>1. SUFFICES ASSUME NEW u \in Threads, NEW v \in Threads, NEW c \in Addrs,
                            u # v, AtAppend(u, c)', AtAppend(v, c)'
                     PROVE  c \in raced'
        OBVIOUS
      <3>2. CASE u # t /\ v # t
        BY <2>1, <2>3, <3>1, <3>2
      <3>3. CASE u = t
        BY <2>3, <2>4, <3>1, <3>3
      <3>4. CASE v = t
        BY <2>3, <2>4, <3>1, <3>4
      <3>5. QED
        BY <3>2, <3>3, <3>4
    <2>6. \A u \in Threads : \A c \in Addrs : AtAppend(u, c)' /\ Contains(clients', c) => c \in raced'
      BY <2>1, <2>3, <2>4
    <2>7. \A i, j \in 1..Len(clients') :
             i # j /\ clients'[i] = clients'[j] => clients'[i] \in raced'
      BY <2>1
    <2>8. QED
      BY <2>5, <2>6, <2>7
  <1>4. ASSUME NEW t \in Threads, Entered(t) PROVE RaceSeen'
    <2>1. \A u \in Threads : \A c : AtAppend(u, c)' => u # t /\ AtAppend(u, c)
      BY <1>4 DEF Entered, TypeOK
    <2>2. \A c : Contains(clients', c) => Contains(clients, c) \/ c = msg[t].from
      BY <1>4 DEF Entered, Contains
    <2>3. AtAppend(t, msg[t].from) /\ raced' = raced
      BY <1>4 DEF Entered
    <2>4. \A i, j \in 1..Len(clients') :
             i # j /\ clients'[i] = clients'[j] => clients'[i] \in raced'
      <3>1. SUFFICES ASSUME NEW i \in 1..Len(clients'), NEW j \in 1..Len(clients'),
                            i < j, clients'[i] = clients'[j]
                     PROVE  clients'[i] \in raced'
        BY <1>4 DEF Entered
      <3>2. CASE j <= Len(clients)
        BY <1>4, <2>3, <3>1, <3>2 DEF Entered
      <3>3. CASE j = Len(clients) + 1
        <4>1. clients[i] = msg[t].from /\ i \in 1..Len(clients) /\ clients'[i] = msg[t].from
          BY <1>4, <3>1, <3>3 DEF Entered
        <4>2. Contains(clients, msg[t].from) /\ msg[t].from \in Addrs
          BY <1>4, <4>1 DEF Contains, Entered
        <4>3. QED
          BY <2>3, <4>1, <4>2
      <3>4. QED
        BY <1>4, <3>2, <3>3 DEF Entered
    <2>5. QED
      BY <2>1, <2>2, <2>3, <2>4
  <1>5. ASSUME NEW t \in Threads, Spawned(t) PROVE RaceSeen'
    BY <1>5 DEF Spawned, TypeOK
  <1>6. ASSUME NEW t \in Threads, Reached(t) PROVE RaceSeen'
    BY <1>6 DEF Reached
  <1>7. ASSUME NEW t \in Threads, Ended(t) PROVE RaceSeen'
    BY <1>7 DEF Ended, TypeOK
  <1>8. ASSUME NEW c \in Addrs, Sent(c) PROVE RaceSeen'
    BY <1>8 DEF Sent
  <1>9. QED
    BY <1>0, <1>1, <1>2, <1>3, <1>4, <1>5, <1>6, <1>7, <1>8, StepKinds

(* A line has a number below the count of its author.                      *)
LEMMA StepNumbered ==
    ASSUME TypeOK, Hands, Numbered, [Next]_vars
    PROVE  Numbered'
  <1>a. /\ \A i \in 1..Len(inbox) : inbox[i].from \in Addrs /\ inbox[i].text \in Nat
        /\ \A t \in Threads : Sends(t) => msg[t].from \in Addrs /\ msg[t].text \in Nat
        /\ \A c \in Addrs : \A k \in 1..Len(out[c]) : out[c][k].from \in Addrs /\ out[c][k].n \in Nat
        /\ said \in [Addrs -> Nat] /\ Len(inbox) \in Nat
    BY ElementOfSeq, LenProperties, DatagramFacts DEF TypeOK, Hands, Sends
  <1> USE DEF Numbered, Sends
  <1>0. CASE UNCHANGED vars
    BY <1>0 DEF vars
  <1>1. CASE Bind
    BY <1>1 DEF Bind, TypeOK
  <1>2. ASSUME NEW t \in Threads, Took(t) PROVE Numbered'
    <2>1. \A i \in 1..Len(inbox') : inbox'[i].text < said'[inbox'[i].from]
      BY <1>2 DEF Took
    <2>2. \A u \in Threads : pc'[u] = "send" => msg'[u].text < said'[msg'[u].from]
      BY <1>2 DEF Took, TypeOK
    <2>3. QED
      BY <1>2, <2>1, <2>2 DEF Took
  <1>3. ASSUME NEW t \in Threads, Tested(t) PROVE Numbered'
    BY <1>3 DEF Tested, TypeOK
  <1>4. ASSUME NEW t \in Threads, Entered(t) PROVE Numbered'
    BY <1>4 DEF Entered, TypeOK
  <1>5. ASSUME NEW t \in Threads, Spawned(t) PROVE Numbered'
    BY <1>5 DEF Spawned, TypeOK
  <1>6. ASSUME NEW t \in Threads, Reached(t) PROVE Numbered'
    <2> DEFINE to == clients[pos[t]]
    <2>1. to \in Addrs /\ out' = [out EXCEPT ![to] = Append(@, Line(msg[t]))]
          /\ Line(msg[t]) \in Lines /\ UNCHANGED <<inbox, pc, msg, said>> /\ pc[t] = "send"
      BY <1>6 DEF Reached
    <2>2. out \in [Addrs -> Seq(Lines)]
      BY DEF TypeOK
    <2>3. Line(msg[t]).n < said[Line(msg[t]).from]
      BY <2>1 DEF Line
    <2>4. \A k \in 1..Len(out'[to]) : out'[to][k].n < said[out'[to][k].from]
      <3>1. out'[to] = Append(out[to], Line(msg[t])) /\ out[to] \in Seq(Lines)
        BY <2>1, <2>2
      <3>2. /\ Len(out'[to]) = Len(out[to]) + 1 /\ Len(out[to]) \in Nat
            /\ \A k \in 1..Len(out[to]) : out'[to][k] = out[to][k]
            /\ out'[to][Len(out[to]) + 1] = Line(msg[t])
        BY <2>1, <3>1, AppendProperties, LenProperties
      <3>3. QED
        BY <2>1, <2>3, <3>2
    <2>5. \A c \in Addrs : c # to => out'[c] = out[c]
      BY <2>1, <2>2
    <2>6. \A c \in Addrs : \A k \in 1..Len(out'[c]) : out'[c][k].n < said[out'[c][k].from]
      BY <2>4, <2>5
    <2>7. QED
      BY <2>1, <2>6
  <1>7. ASSUME NEW t \in Threads, Ended(t) PROVE Numbered'
    BY <1>7 DEF Ended, TypeOK
  <1>8. ASSUME NEW c \in Addrs, Sent(c) PROVE Numbered'
    <2>1. said' = [said EXCEPT ![c] = @ + 1] /\ UNCHANGED <<pc, msg, out>>
      BY <1>8 DEF Sent
    <2>2. \A e \in Addrs : \A n \in Nat : n < said[e] => n < said'[e]
      BY <1>a, <2>1
    <2>3. \A i \in 1..Len(inbox) : inbox[i].text < said'[inbox[i].from]
      BY <1>a, <2>2
    <2>4. \A i \in 1..Len(inbox') : inbox'[i].text < said'[inbox'[i].from]
      <3>1. CASE inbox' = inbox
        BY <2>3, <3>1
      <3>2. ASSUME NEW d \in Datagrams, inbox' = Append(inbox, d), d.from = c, d.text <= said[c]
            PROVE  \A i \in 1..Len(inbox') : inbox'[i].text < said'[inbox'[i].from]
        <4>1. /\ Len(inbox') = Len(inbox) + 1 /\ inbox'[Len(inbox) + 1] = d
              /\ \A i \in 1..Len(inbox) : inbox'[i] = inbox[i]
          BY <3>2, AppendProperties DEF TypeOK
        <4>2. d.text < said'[d.from]
          BY <1>a, <2>1, <3>2, DatagramFacts
        <4>3. QED
          BY <1>a, <2>3, <4>1, <4>2
      <3>3. QED
        BY <1>8, <3>1, <3>2 DEF Sent
    <2>5. \A t \in Threads : pc[t] = "send" => msg[t].text < said'[msg[t].from]
      BY <1>a, <2>2
    <2>6. \A e \in Addrs : \A k \in 1..Len(out[e]) : out[e][k].n < said'[out[e][k].from]
      BY <1>a, <2>2
    <2>7. QED
      BY <2>1, <2>4, <2>5, <2>6
  <1>9. QED
    BY <1>0, <1>1, <1>2, <1>3, <1>4, <1>5, <1>6, <1>7, <1>8, StepKinds

(* A line is in one place only: when it is said its number is new, and a   *)
(* thread that takes it takes it away.                                     *)
LEMMA StepOneCarrier ==
    ASSUME TypeOK, Hands, Numbered, OneCarrier, [Next]_vars
    PROVE  OneCarrier'
  <1> USE DEF OneCarrier, Sends
  <1>0. CASE UNCHANGED vars
    BY <1>0 DEF vars
  <1>1. CASE Bind
    BY <1>1 DEF Bind, TypeOK
  <1>2. ASSUME NEW t \in Threads, Took(t) PROVE OneCarrier'
    <2>1. \A i, j \in 1..Len(inbox') : i # j /\ inbox'[i] = inbox'[j] => inbox'[i].text = Hello
      BY <1>2 DEF Took
    <2>2. \A u \in Threads : u # t => pc'[u] = pc[u] /\ msg'[u] = msg[u]
      BY <1>2 DEF Took, TypeOK
    <2>3. msg'[t] = inbox[1] /\ (pc'[t] = "send" => inbox[1].text # Hello) /\ 1 \in 1..Len(inbox)
      BY <1>2 DEF Took, TypeOK
    <2>4. \A i \in 1..Len(inbox') : i + 1 \in 1..Len(inbox) /\ i + 1 # 1 /\ inbox'[i] = inbox[i + 1]
      BY <1>2 DEF Took
    <2>5. \A u \in Threads : \A i \in 1..Len(inbox') : pc'[u] = "send" => msg'[u] # inbox'[i]
      BY <2>2, <2>3, <2>4
    <2>6. \A u, v \in Threads :
             pc'[u] = "send" /\ pc'[v] = "send" /\ msg'[u] = msg'[v] => u = v
      BY <2>2, <2>3
    <2>7. QED
      BY <2>1, <2>5, <2>6
  <1>3. ASSUME NEW t \in Threads, Tested(t) PROVE OneCarrier'
    BY <1>3 DEF Tested, TypeOK
  <1>4. ASSUME NEW t \in Threads, Entered(t) PROVE OneCarrier'
    BY <1>4 DEF Entered, TypeOK
  <1>5. ASSUME NEW t \in Threads, Spawned(t) PROVE OneCarrier'
    BY <1>5 DEF Spawned, TypeOK
  <1>6. ASSUME NEW t \in Threads, Reached(t) PROVE OneCarrier'
    BY <1>6 DEF Reached
  <1>7. ASSUME NEW t \in Threads, Ended(t) PROVE OneCarrier'
    BY <1>7 DEF Ended, TypeOK
  <1>8. ASSUME NEW c \in Addrs, Sent(c) PROVE OneCarrier'
    <2>1. UNCHANGED <<pc, msg>>
      BY <1>8 DEF Sent
    <2>2. CASE inbox' = inbox
      BY <2>1, <2>2
    <2>3. ASSUME NEW d \in Datagrams, inbox' = Append(inbox, d),
                 d.from = c, d.text \in {Hello, said[c]}
          PROVE  OneCarrier'
      <3>1. /\ Len(inbox') = Len(inbox) + 1 /\ inbox'[Len(inbox) + 1] = d
            /\ \A i \in 1..Len(inbox) : inbox'[i] = inbox[i]
            /\ Len(inbox) \in Nat
        BY <2>3, AppendProperties, LenProperties DEF TypeOK
      <3>2. said[c] \in Nat
        BY DEF TypeOK
      <3>3. \A i \in 1..Len(inbox) : inbox[i] = d => d.text = Hello
        BY <2>3, <3>2 DEF Numbered
      <3>4. \A t \in Threads : pc[t] = "send" => msg[t] # d
        BY <2>3, <3>2 DEF Numbered, Hands
      <3>5. \A i \in 1..Len(inbox') : i \in 1..Len(inbox) \/ i = Len(inbox) + 1
        BY <3>1
      <3>6. \A i, j \in 1..Len(inbox') : i # j /\ inbox'[i] = inbox'[j] => inbox'[i].text = Hello
        BY <3>1, <3>3, <3>5
      <3>7. QED
        BY <2>1, <3>1, <3>4, <3>5, <3>6
    <2>4. QED
      BY <1>8, <2>2, <2>3 DEF Sent
  <1>9. QED
    BY <1>0, <1>1, <1>2, <1>3, <1>4, <1>5, <1>6, <1>7, <1>8, StepKinds

(* Nobody has heard what is in the inbox. *)
LEMMA StepInboxUnheard ==
    ASSUME TypeOK, Hands, Numbered, OneCarrier, InboxUnheard, [Next]_vars
    PROVE  InboxUnheard'
  <1> USE DEF InboxUnheard
  <1>0. CASE UNCHANGED vars
    BY <1>0 DEF vars
  <1>1. CASE Bind
    BY <1>1 DEF Bind
  <1>2. ASSUME NEW t \in Threads, Took(t) PROVE InboxUnheard'
    BY <1>2 DEF Took
  <1>3. ASSUME NEW t \in Threads, Tested(t) PROVE InboxUnheard'
    BY <1>3 DEF Tested
  <1>4. ASSUME NEW t \in Threads, Entered(t) PROVE InboxUnheard'
    BY <1>4 DEF Entered
  <1>5. ASSUME NEW t \in Threads, Spawned(t) PROVE InboxUnheard'
    BY <1>5 DEF Spawned
  <1>6. ASSUME NEW t \in Threads, Reached(t) PROVE InboxUnheard'
    <2> DEFINE to == clients[pos[t]]
    <2>1. /\ to \in Addrs /\ out' = [out EXCEPT ![to] = Append(@, Line(msg[t]))]
          /\ Line(msg[t]) \in Lines /\ inbox' = inbox /\ Sends(t) /\ msg[t] \in Datagrams
      BY <1>6 DEF Reached
    <2>2. \A i \in 1..Len(inbox) : inbox[i] \in Datagrams /\ inbox[i] # msg[t]
      BY <2>1, ElementOfSeq DEF TypeOK, OneCarrier
    <2>3. \A i \in 1..Len(inbox) : Line(inbox[i]) # Line(msg[t])
      BY <2>1, <2>2, LineInjective
    <2>4. out[to] \in Seq(Lines) /\ out'[to] = Append(out[to], Line(msg[t]))
          /\ \A c \in Addrs : c # to => out'[c] = out[c]
      BY <2>1 DEF TypeOK
    <2>5. /\ Len(out'[to]) = Len(out[to]) + 1 /\ Len(out[to]) \in Nat
          /\ \A k \in 1..Len(out[to]) : out'[to][k] = out[to][k]
          /\ out'[to][Len(out[to]) + 1] = Line(msg[t])
      BY <2>1, <2>4, AppendProperties, LenProperties
    <2>6. \A i \in 1..Len(inbox) : \A k \in 1..Len(out'[to]) : out'[to][k] # Line(inbox[i])
      BY <2>1, <2>3, <2>5
    <2>7. QED
      BY <2>1, <2>4, <2>6
  <1>7. ASSUME NEW t \in Threads, Ended(t) PROVE InboxUnheard'
    BY <1>7 DEF Ended
  <1>8. ASSUME NEW c \in Addrs, Sent(c) PROVE InboxUnheard'
    <2>1. out' = out
      BY <1>8 DEF Sent
    <2>2. CASE inbox' = inbox
      BY <2>1, <2>2
    <2>3. ASSUME NEW d \in Datagrams, inbox' = Append(inbox, d),
                 d.from = c, d.text \in {Hello, said[c]}
          PROVE  InboxUnheard'
      <3>1. /\ Len(inbox') = Len(inbox) + 1 /\ inbox'[Len(inbox) + 1] = d
            /\ \A i \in 1..Len(inbox) : inbox'[i] = inbox[i]
            /\ Len(inbox) \in Nat
        BY <2>3, AppendProperties, LenProperties DEF TypeOK
      <3>2. ASSUME NEW e \in Addrs, NEW k \in 1..Len(out[e]), out[e][k] = Line(d) PROVE FALSE
        <4>1. out[e][k] \in Lines /\ out[e][k].n < said[out[e][k].from]
          BY ElementOfSeq DEF TypeOK, Numbered
        <4>2. out[e][k].n \in Nat \ {0} /\ out[e][k].n = d.text /\ out[e][k].from = c
          BY <2>3, <3>2, <4>1, DatagramFacts DEF Line
        <4>3. said[c] \in Nat
          BY DEF TypeOK
        <4>4. QED
          BY <2>3, <4>1, <4>2, <4>3 DEF Hello
      <3>3. QED
        BY <2>1, <3>1, <3>2
    <2>4. QED
      BY <1>8, <2>2, <2>3 DEF Sent
  <1>9. QED
    BY <1>0, <1>1, <1>2, <1>3, <1>4, <1>5, <1>6, <1>7, <1>8, StepKinds

(* What one more line in the ear of one client does to the counts.         *)
LEMMA ReachedCounts ==
    ASSUME TypeOK, NEW t \in Threads, Reached(t), NEW c \in Addrs, NEW l \in Lines
    PROVE  Times(l, out'[c]) =
             Times(l, out[c]) + (IF clients[pos[t]] = c /\ Line(msg[t]) = l THEN 1 ELSE 0)
  <1>1. out \in [Addrs -> Seq(Lines)] /\ out[c] \in Seq(Lines) /\ Times(l, out[c]) \in Nat
    BY TimesFacts DEF TypeOK
  <1>2. /\ out' = [out EXCEPT ![clients[pos[t]]] = Append(@, Line(msg[t]))]
        /\ Line(msg[t]) \in Lines
    BY DEF Reached
  <1>3. CASE clients[pos[t]] = c
    <2>1. out'[c] = Append(out[c], Line(msg[t]))
      BY <1>1, <1>2, <1>3
    <2>2. Times(l, Append(out[c], Line(msg[t]))) =
             Times(l, out[c]) + (IF Line(msg[t]) = l THEN 1 ELSE 0)
      BY <1>1, <1>2, TimesFacts
    <2>3. QED
      BY <1>3, <2>1, <2>2
  <1>4. CASE clients[pos[t]] # c
    BY <1>1, <1>2, <1>4
  <1>5. QED
    BY <1>3, <1>4

(* A thread has told a client its line once per entry it has passed.       *)
LEMMA StepHeardSoFar ==
    ASSUME TypeOK, Hands, OneCarrier, InboxUnheard, HeardSoFar, [Next]_vars
    PROVE  HeardSoFar'
  <1> USE DEF HeardSoFar, Sends
  <1>a. pos \in [Threads -> Nat \ {0}]
    BY DEF Hands
  <1>0. CASE UNCHANGED vars
    BY <1>0 DEF vars
  <1>1. CASE Bind
    BY <1>1 DEF Bind, TypeOK
  <1>2. ASSUME NEW t \in Threads, Took(t) PROVE HeardSoFar'
    <2>1. /\ \A u \in Threads : u # t => pc'[u] = pc[u] /\ msg'[u] = msg[u]
          /\ msg'[t] = inbox[1] /\ UNCHANGED <<pos, out, clients>>
          /\ inbox[1] \in Datagrams /\ 1 \in 1..Len(inbox)
      BY <1>2 DEF Took, TypeOK
    <2>2. pos[t] = 1
      BY <1>2 DEF Took, Hands
    <2>3. ASSUME NEW c \in Addrs PROVE Times(Line(inbox[1]), out[c]) = 0
      <3>1. out[c] \in Seq(Lines) /\ \A k \in 1..Len(out[c]) : out[c][k] # Line(inbox[1])
        BY <2>1 DEF InboxUnheard, TypeOK
      <3>2. QED
        BY <3>1, TimesFacts
    <2>4. \A c \in Addrs : Upto(c, clients, 1 - 1) = 0
      BY UptoFacts
    <2>5. QED
      BY <2>1, <2>2, <2>3, <2>4
  <1>3. ASSUME NEW t \in Threads, Tested(t) PROVE HeardSoFar'
    BY <1>3 DEF Tested, TypeOK
  <1>4. ASSUME NEW t \in Threads, Entered(t) PROVE HeardSoFar'
    <2>1. /\ \A u \in Threads : pc'[u] = "send" => pc[u] = "send"
          /\ UNCHANGED <<msg, pos, out>>
      BY <1>4 DEF Entered, TypeOK
    <2>2. ASSUME NEW u \in Threads, NEW c \in Addrs
          PROVE  Upto(c, clients', pos[u] - 1) = Upto(c, clients, pos[u] - 1)
      <3>1. pos[u] - 1 \in Nat /\ pos[u] - 1 <= Len(clients) /\ Len(clients) \in Nat
        <4>1. pos[u] \in 1..(Len(clients) + 1)
          BY DEF TypeOK
        <4>2. Len(clients) \in Nat
          BY LenProperties DEF TypeOK
        <4>3. QED
          BY <4>1, <4>2
      <3>2. \A i \in 1..(pos[u] - 1) : clients'[i] = clients[i]
        BY <1>4, <3>1 DEF Entered
      <3>3. QED
        BY <3>1, <3>2, UptoSame
    <2>3. QED
      BY <2>1, <2>2
  <1>5. ASSUME NEW t \in Threads, Spawned(t) PROVE HeardSoFar'
    BY <1>5 DEF Spawned, TypeOK
  <1>6. ASSUME NEW t \in Threads, Reached(t) PROVE HeardSoFar'
    <2>1. /\ UNCHANGED <<pc, msg, clients>> /\ pc[t] = "send"
          /\ pos' = [pos EXCEPT ![t] = @ + 1] /\ pos[t] \in Nat \ {0}
      BY <1>6, <1>a DEF Reached
    <2>2. \A u \in Threads : pc[u] = "send" => msg[u] \in Datagrams /\ Line(msg[u]) \in Lines
      BY DatagramFacts DEF Hands
    <2>3. ASSUME NEW u \in Threads, NEW c \in Addrs, pc[u] = "send", u # t
          PROVE  Times(Line(msg[u]), out'[c]) = Upto(c, clients, pos'[u] - 1)
      <3>1. msg[u] # msg[t]
        BY <2>1, <2>3 DEF OneCarrier
      <3>2. Line(msg[u]) # Line(msg[t])
        BY <2>1, <2>2, <2>3, <3>1, LineInjective
      <3>3. Times(Line(msg[u]), out[c]) \in Nat
        BY TimesFacts DEF TypeOK
      <3>4. Times(Line(msg[u]), out'[c]) = Times(Line(msg[u]), out[c])
        BY <1>6, <2>2, <2>3, <3>2, <3>3, ReachedCounts
      <3>5. pos'[u] = pos[u]
        BY <1>a, <2>1, <2>3
      <3>6. QED
        BY <2>3, <3>4, <3>5
    <2>4. ASSUME NEW c \in Addrs
          PROVE  Times(Line(msg[t]), out'[c]) = Upto(c, clients, pos'[t] - 1)
      <3>1. Times(Line(msg[t]), out'[c]) =
              Times(Line(msg[t]), out[c]) + (IF clients[pos[t]] = c THEN 1 ELSE 0)
        BY <1>6, <2>1, <2>2, ReachedCounts
      <3>2. Times(Line(msg[t]), out[c]) = Upto(c, clients, pos[t] - 1)
        BY <2>1
      <3>3. PICK p \in Nat : p = pos[t] - 1 /\ pos[t] = p + 1 /\ pos'[t] - 1 = p + 1
        BY <1>a, <2>1
      <3>4. Upto(c, clients, p + 1) = Upto(c, clients, p) + (IF clients[p + 1] = c THEN 1 ELSE 0)
        BY UptoNext
      <3>5. Times(Line(msg[t]), out[c]) = Upto(c, clients, p) /\ clients[pos[t]] = clients[p + 1]
        BY <3>2, <3>3
      <3>6. Upto(c, clients, pos'[t] - 1) = Upto(c, clients, p + 1)
        BY <3>3
      <3>7. QED
        BY <3>1, <3>4, <3>5, <3>6
    <2>5. QED
      BY <2>1, <2>3, <2>4
  <1>7. ASSUME NEW t \in Threads, Ended(t) PROVE HeardSoFar'
    <2>1. \A u \in Threads : pc'[u] = "send" => u # t /\ pc[u] = "send"
      BY <1>7 DEF Ended, TypeOK
    <2>2. \A u \in Threads : u # t => msg'[u] = msg[u] /\ pos'[u] = pos[u]
      BY <1>7, <1>a DEF Ended, TypeOK
    <2>3. UNCHANGED <<clients, out>>
      BY <1>7 DEF Ended
    <2>4. QED
      BY <2>1, <2>2, <2>3
  <1>8. ASSUME NEW c \in Addrs, Sent(c) PROVE HeardSoFar'
    BY <1>8 DEF Sent
  <1>9. QED
    BY <1>0, <1>1, <1>2, <1>3, <1>4, <1>5, <1>6, <1>7, <1>8, StepKinds

(* No line is heard more often than a client is entered.                   *)
LEMMA StepHeardOncePerEntry ==
    ASSUME TypeOK, Hands, HeardSoFar, HeardOncePerEntry, [Next]_vars
    PROVE  HeardOncePerEntry'
  <1> USE DEF HeardOncePerEntry
  <1>0. CASE UNCHANGED vars
    BY <1>0 DEF vars
  <1>1. CASE Bind
    BY <1>1 DEF Bind
  <1>2. ASSUME NEW t \in Threads, Took(t) PROVE HeardOncePerEntry'
    BY <1>2 DEF Took
  <1>3. ASSUME NEW t \in Threads, Tested(t) PROVE HeardOncePerEntry'
    BY <1>3 DEF Tested
  <1>4. ASSUME NEW t \in Threads, Entered(t) PROVE HeardOncePerEntry'
    <2>1. out' = out /\ clients' = Append(clients, msg[t].from) /\ msg[t].from \in Addrs
      BY <1>4 DEF Entered
    <2>2. ASSUME NEW c \in Addrs
          PROVE  Times(c, clients) \in Nat /\ Times(c, clients') \in Nat
                 /\ Times(c, clients') >= Times(c, clients)
      <3>1. clients \in Seq(Addrs)
        BY DEF TypeOK
      <3>2. /\ Times(c, clients) \in Nat
            /\ Times(c, Append(clients, msg[t].from)) =
                 Times(c, clients) + (IF msg[t].from = c THEN 1 ELSE 0)
        BY <2>1, <3>1, TimesFacts
      <3>3. QED
        BY <2>1, <3>2
    <2>3. \A c \in Addrs : \A l \in Lines : Times(l, out[c]) \in Nat
      BY TimesFacts DEF TypeOK
    <2>4. QED
      BY <2>1, <2>2, <2>3
  <1>5. ASSUME NEW t \in Threads, Spawned(t) PROVE HeardOncePerEntry'
    BY <1>5 DEF Spawned
  <1>6. ASSUME NEW t \in Threads, Reached(t) PROVE HeardOncePerEntry'
    <2> SUFFICES ASSUME NEW c \in Addrs, NEW l \in Lines
                 PROVE  Times(l, out'[c]) <= Times(c, clients')
      OBVIOUS
    <2>1. Times(l, out[c]) \in Nat /\ Times(c, clients) \in Nat /\ clients' = clients
      BY <1>6, TimesFacts DEF TypeOK, Reached
    <2>2. CASE clients[pos[t]] = c /\ Line(msg[t]) = l
      <3>1. Times(l, out'[c]) = Times(l, out[c]) + 1
        BY <1>6, <2>2, ReachedCounts
      <3>2. Times(l, out[c]) = Upto(c, clients, pos[t] - 1)
        <4>1. Sends(t)
          BY <1>6 DEF Reached
        <4>2. QED
          BY <2>2, <4>1 DEF HeardSoFar
      <3>3. PICK p \in Nat : /\ p = pos[t] - 1 /\ pos[t] = p + 1 /\ p + 1 \in Nat
                            /\ Len(clients) \in Nat /\ p + 1 <= Len(clients)
        BY <1>6 DEF Reached
      <3>4. Upto(c, clients, p + 1) = Upto(c, clients, p) + (IF clients[p + 1] = c THEN 1 ELSE 0)
        BY UptoNext
      <3>5. Upto(c, clients, p + 1) <= Upto(c, clients, Len(clients))
        BY <3>3, UptoFacts
      <3>6. Times(c, clients) = Upto(c, clients, Len(clients))
        BY TimesFacts DEF TypeOK
      <3>7. Times(l, out[c]) = Upto(c, clients, p) /\ clients[p + 1] = c
        BY <2>2, <3>2, <3>3
      <3>8. QED
        BY <2>1, <3>1, <3>4, <3>5, <3>6, <3>7
    <2>3. CASE ~(clients[pos[t]] = c /\ Line(msg[t]) = l)
      BY <1>6, <2>1, <2>3, ReachedCounts
    <2>4. QED
      BY <2>2, <2>3
  <1>7. ASSUME NEW t \in Threads, Ended(t) PROVE HeardOncePerEntry'
    BY <1>7 DEF Ended
  <1>8. ASSUME NEW c \in Addrs, Sent(c) PROVE HeardOncePerEntry'
    BY <1>8 DEF Sent
  <1>9. QED
    BY <1>0, <1>1, <1>2, <1>3, <1>4, <1>5, <1>6, <1>7, <1>8, StepKinds

-----------------------------------------------------------------------------
LEMMA Inductive == Spec => []IInv
  <1>1. IInv /\ [Next]_vars => IInv'
    BY StepTypeOK, StepHands, StepRaceSeen, StepNumbered, StepOneCarrier,
       StepInboxUnheard, StepHeardSoFar, StepHeardOncePerEntry DEF IInv
  <1>2. QED
    BY InitInv, <1>1, PTL DEF Spec

(* The lists, the inbox and what the threads have at hand keep their       *)
(* types: a thread that walks along the list (p4_server.py, receive) never *)
(* steps past its end, while others append to it.                          *)
THEOREM PyGroupChatTypeOK == Spec => []TypeOK
  <1>1. IInv => TypeOK
    BY DEF IInv
  <1>2. QED
    BY Inductive, <1>1, PTL

(* The test and the append of receive are two steps: a client is entered   *)
(* twice only if two threads were between them for it at once.             *)
THEOREM PyGroupChatEnteredTwiceOnlyByRace == Spec => []EnteredTwiceOnlyByRace
  <1>1. ASSUME TypeOK, RaceSeen, NEW c \in Addrs, c \notin raced
        PROVE  Times(c, clients) <= 1
    <2>1. \A i, j \in 1..Len(clients) : clients[i] = c /\ clients[j] = c => i = j
      BY <1>1 DEF RaceSeen
    <2>2. QED
      BY <1>1, <2>1, TimesFacts DEF TypeOK
  <1>2. ASSUME TypeOK, NEW c \in Addrs PROVE Times(c, clients) \in Nat
    BY <1>2, TimesFacts DEF TypeOK
  <1>3. IInv => EnteredTwiceOnlyByRace
    BY <1>1, <1>2 DEF IInv, EnteredTwiceOnlyByRace
  <1>4. QED
    BY Inductive, <1>3, PTL

(* A client hears no line more often than it is entered, although several  *)
(* threads send along the list while it grows.                             *)
THEOREM PyGroupChatHeardOncePerEntry == Spec => []HeardOncePerEntry
  <1>1. IInv => HeardOncePerEntry
    BY DEF IInv
  <1>2. QED
    BY Inductive, <1>1, PTL

=============================================================================

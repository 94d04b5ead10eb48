----------------------------- MODULE PyGroupChat -----------------------------
(***************************************************************************)
(* The Python group chat, p4: clients and a server over UDP on one host.   *)
(* An empty datagram is a hello, also one that comes of an empty line.     *)
(* Whoever takes a hello enters its address in the list and starts one     *)
(* more thread, so that several threads receive from the one socket, test  *)
(* and append to the one list, and send along it while others append.      *)
(* check and receive are the same loop: thread 0 runs check.               *)
(***************************************************************************)
EXTENDS Integers, FiniteSets, Sequences, SequencesExt

CONSTANTS
    Addrs,    \* the clients
    SockBuf,  \* datagrams the socket of the server holds; more are dropped
    MaxSent,  \* per client: the datagrams it sends, its first hello among them
    Threads,  \* the threads of the server that there may be, 0 the first
    None      \* what a thread that waits has at hand

Hello == 0
Lines == UNION {[from : {c}, n : 1..(MaxSent[c] - 1)] : c \in Addrs}
Datagrams == UNION {[from : {c}, text : {Hello} \cup 1..(MaxSent[c] - 1)] : c \in Addrs}

ASSUME PyGroupChatAssumption ==
    /\ SockBuf \in Nat \ {0} /\ MaxSent \in [Addrs -> Nat]
    /\ Threads \subseteq Nat /\ 0 \in Threads
    /\ None \notin Datagrams

VARIABLES
    inbox,       \* what the socket of the server holds
    pc,          \* per thread
    msg,         \* per thread: data and addr, the datagram it is at and who sent it
    pos,         \* per thread: where it is in the list while it sends
    clients,     \* the list
    said,        \* per client: how many datagrams it has sent
    out,         \* per client: the lines that were sent to it
    raced        \* the clients that two threads meant to enter at once (history)

vars == <<inbox, pc, msg, pos, clients, said, out, raced>>

TypeOK ==
    /\ inbox \in Seq(Datagrams) /\ Len(inbox) <= SockBuf
    /\ pc \in [Threads -> {"none", "bind", "recv", "test", "append", "spawn", "send"}]
    /\ msg \in [Threads -> Datagrams \cup {None}]
    /\ \A t \in Threads : pos[t] \in 1..(Len(clients) + 1)
    /\ clients \in Seq(Addrs)
    /\ said \in [Addrs -> Nat] /\ \A c \in Addrs : said[c] <= MaxSent[c]
    /\ out \in [Addrs -> Seq(Lines)]
    /\ raced \subseteq Addrs

Init ==
    /\ inbox = <<>>
    /\ pc = [t \in Threads |-> IF t = 0 THEN "bind" ELSE "none"]
    /\ msg = [t \in Threads |-> None]
    /\ pos = [t \in Threads |-> 1]
    /\ clients = <<>>
    /\ said = [c \in Addrs |-> 0]
    /\ out = [c \in Addrs |-> <<>>]
    /\ raced = {}

-----------------------------------------------------------------------------
(* The clients *)

(* A datagram is lost while the socket is not bound, and when it is full.  *)
SendTo(c, text) ==
    /\ said[c] < MaxSent[c]
    /\ said' = [said EXCEPT ![c] = @ + 1]
    /\ inbox' = IF pc[0] = "bind" \/ Len(inbox) = SockBuf THEN inbox
                ELSE Append(inbox, [from |-> c, text |-> text])
    /\ UNCHANGED <<pc, msg, pos, clients, out, raced>>

(* The hello of a client that starts. *)
SayHello(c) == said[c] = 0 /\ SendTo(c, Hello)

(* A line; an empty one looks like a hello. *)
Say(c) == said[c] > 0 /\ \E text \in {Hello, said[c]} : SendTo(c, text)

-----------------------------------------------------------------------------
(* The server *)
Bind ==
    /\ pc[0] = "bind"
    /\ pc' = [pc EXCEPT ![0] = "recv"]
    /\ UNCHANGED <<inbox, msg, pos, clients, said, out, raced>>

(* Any of the threads that wait takes the datagram: receive forgets the    *)
(* address it was started for, so they are alike, and the first does it.   *)
RecvFrom(t) ==
    /\ pc[t] = "recv" /\ inbox # <<>> /\ \A u \in Threads : u < t => pc[u] # "recv"
    /\ msg' = [msg EXCEPT ![t] = Head(inbox)]
    /\ inbox' = Tail(inbox)
    /\ pc' = [pc EXCEPT ![t] = IF Head(inbox).text = Hello THEN "test" ELSE "send"]
    /\ UNCHANGED <<pos, clients, said, out, raced>>

(* VARIANT: every hello is entered. *)
TestNothing(t) ==
    /\ pc[t] = "test"
    /\ pc' = [pc EXCEPT ![t] = "append"]
    /\ UNCHANGED <<inbox, msg, pos, clients, said, out, raced>>

Test(t) ==
    /\ pc[t] = "test"
    /\ IF Contains(clients, msg[t].from)
       THEN pc' = [pc EXCEPT ![t] = "spawn"] /\ UNCHANGED raced
       ELSE /\ pc' = [pc EXCEPT ![t] = "append"]
            /\ raced' = IF \E u \in Threads : pc[u] = "append" /\ msg[u].from = msg[t].from
                        THEN raced \cup {msg[t].from} ELSE raced
    /\ UNCHANGED <<inbox, msg, pos, clients, said, out>>

(* VARIANT: newcomers come first. *)
InsertFirst(t) ==
    /\ pc[t] = "append"
    /\ clients' = <<msg[t].from>> \o clients
    /\ pc' = [pc EXCEPT ![t] = "spawn"]
    /\ UNCHANGED <<inbox, msg, pos, said, out, raced>>

AppendAddr(t) ==
    /\ pc[t] = "append"
    /\ clients' = Append(clients, msg[t].from)
    /\ pc' = [pc EXCEPT ![t] = "spawn"]
    /\ UNCHANGED <<inbox, msg, pos, said, out, raced>>

(* One more thread, also for a client that is entered already. *)
Spawn(t) ==
    /\ pc[t] = "spawn"
    /\ \E u \in Threads :
          /\ pc[u] = "none" /\ \A v \in Threads : v < u => pc[v] # "none"
          /\ pc' = [pc EXCEPT ![t] = "recv", ![u] = "recv"]
    /\ msg' = [msg EXCEPT ![t] = None]
    /\ UNCHANGED <<inbox, pos, clients, said, out, raced>>

(* VARIANT: the loop takes the addresses out of the list. *)
TransmitPops(t) ==
    /\ pc[t] = "send"
    /\ IF clients # <<>>
       THEN /\ out' = [out EXCEPT ![Head(clients)] = Append(@, [from |-> msg[t].from, n |-> msg[t].text])]
            /\ clients' = Tail(clients)
            /\ pos' = [pos EXCEPT ![t] = @ + 1]
            /\ UNCHANGED <<pc, msg>>
       ELSE /\ pc' = [pc EXCEPT ![t] = "recv"]
            /\ msg' = [msg EXCEPT ![t] = None]
            /\ pos' = [pos EXCEPT ![t] = 1]
            /\ UNCHANGED <<out, clients>>
    /\ UNCHANGED <<inbox, said, raced>>

(* VARIANT: the loop ends at the length the list had less one. *)
TransmitShort(t) ==
    /\ pc[t] = "send"
    /\ IF pos[t] < Len(clients)
       THEN /\ out' = [out EXCEPT ![clients[pos[t]]] = Append(@, [from |-> msg[t].from, n |-> msg[t].text])]
            /\ pos' = [pos EXCEPT ![t] = @ + 1]
            /\ UNCHANGED <<pc, msg>>
       ELSE /\ pc' = [pc EXCEPT ![t] = "recv"]
            /\ msg' = [msg EXCEPT ![t] = None]
            /\ pos' = [pos EXCEPT ![t] = 1]
            /\ UNCHANGED out
    /\ UNCHANGED <<inbox, clients, said, raced>>

(* The for loop goes by index: it also reaches who is appended meanwhile,  *)
(* and the author.                                                         *)
Transmit(t) ==
    /\ pc[t] = "send"
    /\ IF pos[t] <= Len(clients)
       THEN /\ out' = [out EXCEPT ![clients[pos[t]]] = Append(@, [from |-> msg[t].from, n |-> msg[t].text])]
            /\ pos' = [pos EXCEPT ![t] = @ + 1]
            /\ UNCHANGED <<pc, msg>>
       ELSE /\ pc' = [pc EXCEPT ![t] = "recv"]
            /\ msg' = [msg EXCEPT ![t] = None]
            /\ pos' = [pos EXCEPT ![t] = 1]
            /\ UNCHANGED out
    /\ UNCHANGED <<inbox, clients, said, raced>>

Thread(t) == RecvFrom(t) \/ Test(t) \/ AppendAddr(t) \/ Spawn(t) \/ Transmit(t)

Next ==
    \/ Bind
    \/ \E t \in Threads : Thread(t)
    \/ \E c \in Addrs : SayHello(c) \/ Say(c)

(* The interpreter runs every thread that can run; the users owe nothing.  *)
Spec == Init /\ [][Next]_vars
FairSpec == Spec /\ WF_vars(Bind) /\ \A t \in Threads : WF_vars(Thread(t))
-----------------------------------------------------------------------------
(* Properties *)

Times(x, s) == Cardinality({n \in DOMAIN s : s[n] = x})

(* The test and the append are two steps, and threads may come between     *)
(* them: a client is entered twice only if two hellos of it were between   *)
(* their test and their append at once, never by hellos that follow each   *)
(* other, however many.                                                    *)
EnteredTwiceOnlyByRace ==
    \A c \in Addrs : Times(c, clients) > 1 => c \in raced

(* A client hears no line more often than it is entered, although the list *)
(* grows while several threads walk along it.                              *)
HeardOncePerEntry ==
    \A c \in Addrs : \A l \in Lines : Times(l, out[c]) <= Times(c, clients)

(* A line that a thread has taken reaches everyone who is entered by then, *)
(* its author included, whatever the other threads do.                     *)
LineReachesMembers ==
    \A c \in Addrs : \A l \in Lines :
        (/\ \E t \in Threads : pc[t] = "send" /\ msg[t].from = l.from /\ msg[t].text = l.n
         /\ Contains(clients, c))
            ~> Contains(out[c], l)

=============================================================================

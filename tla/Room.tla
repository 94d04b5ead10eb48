-------------------------------- MODULE Room --------------------------------
(***************************************************************************)
(* What a group chat promises, without a server, threads or sockets.  A    *)
(* client is greeted with a number of its own and then joins.  A line is   *)
(* spoken only when everybody has heard the one before it, and then every  *)
(* member but its author hears it once, under its author's number, unless  *)
(* he leaves first.                                                        *)
(***************************************************************************)
EXTENDS Sequences, SequencesExt

CONSTANTS Clients, Numbers, Texts, Auth

VARIABLES
    heard,     \* per client: the items it was sent
    members,   \* the clients that have joined and not left
    left,      \* the clients that have left
    waiting,   \* the members that have not heard the last line
    log        \* the lines, in the order in which they were spoken

vars == <<heard, members, left, waiting, log>>

Lines == [id : Numbers, text : Texts]
Number(c) == Head(heard[c]).id

Init ==
    /\ heard = [c \in Clients |-> <<>>]
    /\ members = {} /\ left = {} /\ waiting = {}
    /\ log = <<>>

Greet(c) ==
    /\ c \notin left /\ heard[c] = <<>>
    /\ \E n \in Numbers :
          /\ \A d \in Clients : heard[d] # <<>> => Number(d) # n
          /\ heard' = [heard EXCEPT ![c] = <<[id |-> n, text |-> Auth]>>]
    /\ UNCHANGED <<members, left, waiting, log>>

(* A newcomer may still be in time for the line that is being heard. *)
Join(c) ==
    /\ heard[c] # <<>> /\ c \notin members \cup left
    /\ members' = members \cup {c}
    /\ \/ waiting' = waiting
       \/ /\ log # <<>> /\ Last(log).id # Number(c)
          /\ waiting' = waiting \cup {c}
    /\ UNCHANGED <<heard, left, log>>

Speak(line) ==
    /\ waiting = {}
    /\ log' = Append(log, line)
    /\ waiting' = {c \in members : Number(c) # line.id}
    /\ UNCHANGED <<heard, members, left>>

Hear(c) ==
    /\ c \in waiting
    /\ heard' = [heard EXCEPT ![c] = Append(@, Last(log))]
    /\ waiting' = waiting \ {c}
    /\ UNCHANGED <<members, left, log>>

Leave(c) ==
    /\ c \notin left
    /\ left' = left \cup {c}
    /\ members' = members \ {c}
    /\ waiting' = waiting \ {c}
    /\ UNCHANGED <<heard, log>>

Next == \/ \E c \in Clients : Greet(c) \/ Join(c) \/ Hear(c) \/ Leave(c)
        \/ \E line \in Lines : Speak(line)

Spec == Init /\ [][Next]_vars
=============================================================================

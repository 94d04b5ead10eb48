------------------------------ MODULE GroupRoom ------------------------------
(* The group server keeps the promises of a Room.  A client is a member    *)
(* once main has counted it and while its connection is open; it waits for *)
(* the line that is being shouted until the loop of shout has passed it.   *)
EXTENDS GroupServer

RoomMembers ==
    {c \in Clients : conn[c] = "open" /\ \E j \in Slots : j < client_id /\ clients[j].sockfd = c}
RoomLeft == {c \in Clients : conn[c] \notin {"off", "open"}}
Awaits(k, j) == Shouting(k) /\ i[k] <= j /\ j # id[k]
RoomWaiting ==
    {c \in RoomMembers : \E k, j \in Slots :
        Awaits(k, j) /\ j < client_id /\ clients[j].sockfd = c}

R == INSTANCE Room WITH Numbers <- Slots, Texts <- Frames \cup {Stack},
                        members <- RoomMembers, left <- RoomLeft, waiting <- RoomWaiting

(* The clients of the server meet in a Room: everybody hears every line    *)
(* spoken while it is a member, once, in the order of the mutex and under  *)
(* the right number, whatever threads, accepts and departures interleave   *)
(* with the loop of shout.                                                 *)
ImplementsRoom == R!Spec
==============================================================================

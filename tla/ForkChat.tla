------------------------------ MODULE ForkChat ------------------------------
(***************************************************************************)
(* The chat of week0/q3 from the fork on.  Each of the two connected       *)
(* programs forks: the parent sends what its user types until "END", and   *)
(* the child prints what arrives.  They share the socket, so the           *)
(* connection is closed only when both have ended, and nothing tells one   *)
(* of them that the other has.  server.c and client.c have the same loop.  *)
(* A frame is written whole, but a read returns any non-empty head of what *)
(* is in the stream and leaves the rest of its buffer as it was: the count *)
(* is not looked at, and the memset at the end of the loop has its         *)
(* arguments swapped and clears nothing.                                   *)
(***************************************************************************)
EXTENDS Integers, Sequences

CONSTANTS
    Units,     \* what buffers and streams are made of
    Nul,       \* the unit of a zeroed buffer
    Lines,     \* what the users may type, up to its NUL, if it does not begin with END
    FRAME,     \* units in a frame, BUFFER_SIZE-1 bytes
    SockBuf,   \* units the socket buffers hold
    MaxLines,  \* frames a parent sends
    Faults     \* whether forks fail, users close standard input, and signals arrive

ASSUME ForkChatAssumption ==
    /\ Nul \in Units
    /\ FRAME \in Nat \ {0}
    /\ \A l \in Lines : l \in Seq(Units) /\ Len(l) \in 1..FRAME
    /\ SockBuf \in Nat /\ SockBuf >= FRAME
    /\ MaxLines \in Nat
    /\ Faults \in BOOLEAN

Peers == {"client", "server"}
Other(p) == IF p = "client" THEN "server" ELSE "client"

VARIABLES
    parent, child,  \* per peer: where its two processes are, or how they ended
    typed, buf,     \* per peer: the buffer of the parent, and that of the child
    net,            \* per peer: the units on their way to it
    rst,            \* per peer: its connection has been reset
    eof,            \* per peer: its user closed standard input
    sent, got,      \* per peer: frames its parent wrote, and whole frames its child printed
    short,          \* per peer: its child has read less than a frame (history)
    faulty          \* a fork has failed or a signal has arrived (history)

vars == <<parent, child, typed, buf, net, rst, eof, sent, got, short, faulty>>

Buffers == [1..FRAME -> Units]
Blank == [k \in 1..FRAME |-> Nul]

(* The first n places of a buffer take what is in s; the others keep what  *)
(* they hold.                                                              *)
Over(buffer, n, s) == [k \in 1..FRAME |-> IF k <= n THEN s[k] ELSE buffer[k]]

ParentRuns(p) == parent[p] \in {"fork", "fgets", "write"}
ChildRuns(p) == child[p] \in {"read", "print", "reprint"}

TypeOK ==
    /\ parent \in [Peers -> {"fork", "fgets", "write", "end", "error", "sigpipe", "killed"}]
    /\ child \in [Peers -> {"none", "read", "print", "reprint", "error", "killed"}]
    /\ typed \in [Peers -> Buffers]
    /\ buf \in [Peers -> Buffers]
    /\ net \in [Peers -> Seq(Units)]
    /\ \A p \in Peers : Len(net[p]) <= SockBuf
    /\ rst \in [Peers -> BOOLEAN]
    /\ eof \in [Peers -> BOOLEAN]
    /\ sent \in [Peers -> 0..MaxLines]
    /\ got \in [Peers -> 0..MaxLines]
    /\ short \in [Peers -> BOOLEAN]
    /\ faulty \in BOOLEAN

Init ==
    /\ parent = [p \in Peers |-> "fork"]
    /\ child = [p \in Peers |-> "none"]
    /\ typed = [p \in Peers |-> Blank]
    /\ buf = [p \in Peers |-> Blank]
    /\ net = [p \in Peers |-> <<>>]
    /\ rst = [p \in Peers |-> FALSE]
    /\ eof = [p \in Peers |-> FALSE]
    /\ sent = [p \in Peers |-> 0]
    /\ got = [p \in Peers |-> 0]
    /\ short = [p \in Peers |-> FALSE]
    /\ faulty = FALSE

-----------------------------------------------------------------------------
(* What a reset leaves of the stream it overtakes. *)
Heads(s) == {SubSeq(s, 1, n) : n \in 0..Len(s)}

(* The kernel closes the socket of p with the last of its processes; what  *)
(* p had not read is discarded and resets the other side, which may lose   *)
(* what is on its way there.                                               *)
Close(p, last) ==
    IF ~last \/ net[p] = <<>> THEN UNCHANGED <<net, rst>>
    ELSE /\ rst' = [rst EXCEPT ![Other(p)] = TRUE]
         /\ \E rest \in Heads(net[Other(p)]) :
               net' = [net EXCEPT ![p] = <<>>, ![Other(p)] = rest]

(* No process of p holds the connection any more. *)
Closed(p) == ~ParentRuns(p) /\ ~ChildRuns(p)

ParentEnds(p, how) ==
    /\ parent' = [parent EXCEPT ![p] = how]
    /\ Close(p, ~ChildRuns(p))

ChildEnds(p, how) ==
    /\ child' = [child EXCEPT ![p] = how]
    /\ Close(p, ~ParentRuns(p))

-----------------------------------------------------------------------------
Fork(p) ==
    /\ parent[p] = "fork"
    /\ parent' = [parent EXCEPT ![p] = "fgets"]
    /\ child' = [child EXCEPT ![p] = "read"]
    /\ UNCHANGED <<typed, buf, net, rst, eof, sent, got, short, faulty>>

(* pid is -1: the loop ends the program. *)
ForkFails(p) ==
    /\ Faults /\ parent[p] = "fork"
    /\ ParentEnds(p, "error")
    /\ faulty' = TRUE
    /\ UNCHANGED <<child, typed, buf, eof, sent, got, short>>

(* The user types a line; at the end of standard input fgets returns NULL, *)
(* which nobody looks at, and the last line is sent again.                 *)
Fgets(p) ==
    /\ parent[p] = "fgets" /\ sent[p] < MaxLines
    /\ IF eof[p] THEN UNCHANGED typed
       ELSE \E l \in Lines : typed' = [typed EXCEPT ![p] = Over(@, Len(l), l)]
    /\ parent' = [parent EXCEPT ![p] = "write"]
    /\ UNCHANGED <<child, buf, net, rst, eof, sent, got, short, faulty>>

(* VARIANT: the parent takes its child with it. *)
FgetsEndKills(p) ==
    /\ parent[p] = "fgets" /\ ~eof[p]
    /\ parent' = [parent EXCEPT ![p] = "end"]
    /\ child' = [child EXCEPT ![p] = "killed"]
    /\ Close(p, TRUE)
    /\ UNCHANGED <<typed, buf, eof, sent, got, short, faulty>>

(* END: the parent exits; END itself is not sent. *)
FgetsEnd(p) ==
    /\ parent[p] = "fgets" /\ ~eof[p]
    /\ ParentEnds(p, "end")
    /\ UNCHANGED <<child, typed, buf, eof, sent, got, short, faulty>>

(* write waits for room; with the other side closed the frame is lost and  *)
(* brings back a reset, which may overtake what is still on its way.       *)
Write(p) ==
    /\ parent[p] = "write" /\ ~rst[p]
    /\ \/ /\ ~Closed(Other(p))
          /\ Len(net[Other(p)]) + FRAME <= SockBuf
          /\ net' = [net EXCEPT ![Other(p)] = @ \o typed[p]]
          /\ UNCHANGED rst
       \/ /\ Closed(Other(p))
          /\ rst' = [rst EXCEPT ![p] = TRUE]
          /\ \E rest \in Heads(net[p]) : net' = [net EXCEPT ![p] = rest]
    /\ sent' = [sent EXCEPT ![p] = @ + 1]
    /\ parent' = [parent EXCEPT ![p] = "fgets"]
    /\ UNCHANGED <<child, typed, buf, eof, got, short, faulty>>

(* On a connection that was reset it is an error, or raises SIGPIPE. *)
WriteReset(p) ==
    /\ parent[p] = "write" /\ rst[p]
    /\ \E how \in {"error", "sigpipe"} : ParentEnds(p, how)
    /\ UNCHANGED <<child, typed, buf, eof, sent, got, short, faulty>>

-----------------------------------------------------------------------------
(* VARIANT: what was read stays in the stream. *)
ReadPeek(p) ==
    /\ child[p] = "read"
    /\ \E n \in 1..FRAME :
          /\ n <= Len(net[p])
          /\ buf' = [buf EXCEPT ![p] = Over(@, n, net[p])]
          /\ short' = [short EXCEPT ![p] = @ \/ n < FRAME]
    /\ child' = [child EXCEPT ![p] = "print"]
    /\ UNCHANGED <<parent, typed, net, rst, eof, sent, got, faulty>>

(* read returned n > 0. *)
Read(p) ==
    /\ child[p] = "read"
    /\ \E n \in 1..FRAME :
          /\ n <= Len(net[p])
          /\ buf' = [buf EXCEPT ![p] = Over(@, n, net[p])]
          /\ net' = [net EXCEPT ![p] = SubSeq(@, n + 1, Len(@))]
          /\ short' = [short EXCEPT ![p] = @ \/ n < FRAME]
    /\ child' = [child EXCEPT ![p] = "print"]
    /\ UNCHANGED <<parent, typed, rst, eof, sent, got, faulty>>

(* read returns 0 at the end of the stream, which is not negative: the     *)
(* last frame is printed again, for ever.                                  *)
ReadEof(p) ==
    /\ child[p] = "read" /\ net[p] = <<>> /\ Closed(Other(p))
    /\ child' = [child EXCEPT ![p] = "reprint"]
    /\ UNCHANGED <<parent, typed, buf, net, rst, eof, sent, got, short, faulty>>

(* A reset is an error, unless the parent's write has already reported it. *)
ReadReset(p) ==
    /\ child[p] = "read" /\ net[p] = <<>> /\ rst[p]
    /\ ChildEnds(p, "error")
    /\ UNCHANGED <<parent, typed, buf, eof, sent, got, short, faulty>>

(* printf shows the buffer up to its first NUL: it is the line of a frame, *)
(* unless a read was short.                                                *)
PrintsFrame(p) == child[p] = "print" /\ ~short[p]

(* VARIANT: the child leaves its loop after one message. *)
PrintfOnce(p) ==
    /\ child[p] \in {"print", "reprint"}
    /\ got' = [got EXCEPT ![p] = IF PrintsFrame(p) THEN @ + 1 ELSE @]
    /\ ChildEnds(p, "error")
    /\ UNCHANGED <<parent, typed, buf, eof, sent, short, faulty>>

Printf(p) ==
    /\ child[p] \in {"print", "reprint"}
    /\ got' = [got EXCEPT ![p] = IF PrintsFrame(p) THEN @ + 1 ELSE @]
    /\ child' = [child EXCEPT ![p] = "read"]
    /\ UNCHANGED <<parent, typed, buf, net, rst, eof, sent, short, faulty>>

-----------------------------------------------------------------------------
CloseStdin(p) ==
    /\ Faults /\ ParentRuns(p) /\ ~eof[p]
    /\ eof' = [eof EXCEPT ![p] = TRUE]
    /\ UNCHANGED <<parent, child, typed, buf, net, rst, sent, got, short, faulty>>

(* An interrupt reaches both processes while the parent is in the          *)
(* foreground; the orphan of a parent that has ended must be killed by the *)
(* pid that the parent has printed.                                        *)
Signal(p) ==
    /\ Faults /\ ~Closed(p)
    /\ parent' = [parent EXCEPT ![p] = IF ParentRuns(p) THEN "killed" ELSE @]
    /\ child' = [child EXCEPT ![p] = IF ChildRuns(p) THEN "killed" ELSE @]
    /\ Close(p, TRUE)
    /\ faulty' = TRUE
    /\ UNCHANGED <<typed, buf, eof, sent, got, short>>

Parent(p) == Fork(p) \/ Write(p) \/ WriteReset(p) \/ (eof[p] /\ Fgets(p))
Child(p) == Read(p) \/ ReadEof(p) \/ ReadReset(p) \/ Printf(p)
User(p) == Fgets(p) \/ FgetsEnd(p) \/ CloseStdin(p) \/ Signal(p) \/ ForkFails(p)

Next == \E p \in Peers : Parent(p) \/ Child(p) \/ User(p)

(* The scheduler runs whoever can run; the users owe nothing. *)
Fairness == \A p \in Peers : WF_vars(Parent(p)) /\ WF_vars(Child(p))

Spec == Init /\ [][Next]_vars
FairSpec == Spec /\ Fairness
-----------------------------------------------------------------------------
(* Properties *)

(* server.c, line 78, and client.c, line 73: END is to "close              *)
(* communication with server".  Once a user has typed it, the connection   *)
(* of its side is closed.                                                  *)
EndCloses == \A p \in Peers : (parent[p] = "end") ~> Closed(p)

(* A child repeats its last line only when nobody is left on the other     *)
(* side, and that takes a fault: never because the other user typed END,   *)
(* and never in an ordinary chat.                                          *)
RepeatsOnlyWhenAlone ==
    \A p \in Peers : child[p] = "reprint" => Closed(Other(p)) /\ faulty

(* What was written is read at the other side, whether or not a parent     *)
(* ends right after its write, as long as nothing fails.  It is printed    *)
(* too, unless a read was short: then printf may stop at a NUL before it   *)
(* comes to the line.                                                      *)
WrittenIsPrinted ==
    \A p \in Peers : \A n \in 1..MaxLines :
        LET q == Other(p)
            Taken == IF short[q] THEN sent[p] * FRAME - Len(net[q]) >= n * FRAME
                     ELSE got[q] >= n
        IN  (sent[p] = n /\ ~faulty) ~> (Taken \/ faulty)
=============================================================================

-------------------------------- MODULE Chat --------------------------------
(***************************************************************************)
(* The two-peer TCP chat of week0/beej/chat.  Each peer is one process     *)
(* with three threads over one connected socket:                           *)
(*   hear  prints what arrives, until "#END" arrives;                      *)
(*   talk  sends what the user types, until "#END" is typed;               *)
(*   main  polls the flags HEAR and TALK every TIMEOUT seconds and kills   *)
(*         the thread that is still blocked once the other has finished.   *)
(* END_COM, HEAR and TALK are plain globals: whatever a thread does to them *)
(* may fall between any two steps of the others.                           *)
(* The connection is a byte stream: a whole buffer is sent, but a recv     *)
(* returns any non-empty head of what is in the stream and leaves the rest *)
(* of its buffer as it was.  A unit stands for a run of bytes, short       *)
(* enough that "#END" may be made of several, so a buffer may begin with   *)
(* "#END" although no line that was typed does.                            *)
(* The test of a loop is one step with the end of the iteration before it: *)
(* between the two a thread touches nothing shared, or has itself just set *)
(* the END_COM that the test reads.  For the same reason sleep has no step.*)
(***************************************************************************)
EXTENDS Integers, Sequences

CONSTANTS
    Units,       \* what buffers and streams are made of
    Lines,       \* per peer: what its user may type, each line up to its NUL
    Word,        \* "#END"
    Junk,        \* what a buffer on a fresh thread stack holds
    BUFFER_LEN,  \* units in a buffer (BUFFER_LEN = 1: no frame is ever split)
    SockBuf,     \* units the socket buffers hold: a send that does not fit blocks
    Quitters     \* the peers whose user may close standard input or interrupt

Peers == {"client", "server"}
Other(p) == IF p = "client" THEN "server" ELSE "client"
Buffers == [1..BUFFER_LEN -> Units]

(* strncmp(buffer, "#END", 4) == 0 *)
Says(buffer) == \A k \in 1..Len(Word) : buffer[k] = Word[k]

ASSUME ChatAssumption ==
    /\ BUFFER_LEN \in Nat \ {0}
    /\ Word \in Seq(Units) /\ Len(Word) \in 1..BUFFER_LEN
    /\ \A p \in Peers : \A l \in Lines[p] : l \in Seq(Units) /\ Len(l) \in 1..BUFFER_LEN
    /\ Junk \in Buffers /\ ~Says(Junk)
    /\ SockBuf \in Nat
    /\ Quitters \subseteq Peers

VARIABLES
    END_COM, HEAR, TALK,  \* per peer: the flags of chat.c, 0 or 1
    hpc, tpc, mpc,        \* per peer: where its three threads are
    hbuf, tbuf,           \* per peer: the buffer of hear, and that of talk
    net,                  \* per peer: the units on their way to it
    rst,                  \* per peer: its connection has been reset by the other side
    fate,                 \* per peer: "running", or how the process ended
    ended,                \* per peer: its user typed a line that begins with #END (history)
    short                 \* per peer: one of its recvs returned a part of a frame (history)

flags == <<END_COM, HEAR, TALK>>
vars == <<END_COM, HEAR, TALK, hpc, tpc, mpc, hbuf, tbuf, net, rst, fate, ended, short>>

(* The first n places of a buffer take what is in s; the others keep what  *)
(* they hold.                                                              *)
Over(buffer, n, s) == [k \in 1..BUFFER_LEN |-> IF k <= n THEN s[k] ELSE buffer[k]]
Running(p) == fate[p] = "running"

TypeOK ==
    /\ END_COM \in [Peers -> {0, 1}]
    /\ HEAR \in [Peers -> {0, 1}]
    /\ TALK \in [Peers -> {0, 1}]
    /\ hpc \in [Peers -> {"start", "recv", "check", "clear", "return", "exited"}]
    /\ tpc \in [Peers -> {"start", "fgets", "send", "check", "clear", "return", "exited"}]
    /\ mpc \in [Peers -> {"poll", "kill_talk", "kill_hear", "join_talk", "join_hear", "done"}]
    /\ hbuf \in [Peers -> Buffers]
    /\ tbuf \in [Peers -> Buffers]
    /\ net \in [Peers -> Seq(Units)]
    /\ rst \in [Peers -> BOOLEAN]
    /\ fate \in [Peers -> {"running", "returned", "sigterm", "sigpipe", "interrupted"}]
    /\ ended \in [Peers -> BOOLEAN]
    /\ short \in [Peers -> BOOLEAN]

(* chat() has just created both threads on a connected socket. *)
Init ==
    /\ END_COM = [p \in Peers |-> 0]
    /\ HEAR = [p \in Peers |-> 1]
    /\ TALK = [p \in Peers |-> 1]
    /\ hpc = [p \in Peers |-> "start"]
    /\ tpc = [p \in Peers |-> "start"]
    /\ mpc = [p \in Peers |-> "poll"]
    /\ hbuf = [p \in Peers |-> Junk]
    /\ tbuf = [p \in Peers |-> Junk]
    /\ net = [p \in Peers |-> <<>>]
    /\ rst = [p \in Peers |-> FALSE]
    /\ fate = [p \in Peers |-> "running"]
    /\ ended = [p \in Peers |-> FALSE]
    /\ short = [p \in Peers |-> FALSE]

-----------------------------------------------------------------------------
(* What a reset leaves of the stream it overtakes. *)
Heads(s) == {SubSeq(s, 1, n) : n \in 0..Len(s)}

(* The end of a process: its threads and its memory are gone, and the      *)
(* kernel closes its socket: what it had not read is discarded, which      *)
(* resets the connection of the other peer and may lose what is on its way *)
(* there.                                                                  *)
Die(p, how) ==
    /\ fate' = [fate EXCEPT ![p] = how]
    /\ IF net[p] = <<>> THEN UNCHANGED <<net, rst>>
       ELSE /\ rst' = [rst EXCEPT ![Other(p)] = TRUE]
            /\ \E rest \in Heads(net[Other(p)]) :
                  net' = [net EXCEPT ![p] = <<>>, ![Other(p)] = rest]
    /\ END_COM' = [END_COM EXCEPT ![p] = 0]
    /\ HEAR' = [HEAR EXCEPT ![p] = 0]
    /\ TALK' = [TALK EXCEPT ![p] = 0]
    /\ hpc' = [hpc EXCEPT ![p] = "exited"]
    /\ tpc' = [tpc EXCEPT ![p] = "exited"]
    /\ mpc' = [mpc EXCEPT ![p] = "done"]
    /\ hbuf' = [hbuf EXCEPT ![p] = Junk]
    /\ tbuf' = [tbuf EXCEPT ![p] = Junk]
    /\ UNCHANGED <<ended, short>>

-----------------------------------------------------------------------------
(* Thread hear *)

(* VARIANT: while(1). *)
HearLoopForever(endcom) == "recv"

(* while(END_COM == 0) *)
HearLoop(endcom) == IF endcom = 0 THEN "recv" ELSE "clear"

HearStart(p) ==
    /\ Running(p) /\ hpc[p] = "start"
    /\ hpc' = [hpc EXCEPT ![p] = HearLoop(END_COM[p])]
    /\ UNCHANGED <<flags, tpc, mpc, hbuf, tbuf, net, rst, fate, ended, short>>

(* recv returned n > 0: the first n units of the buffer are overwritten,   *)
(* the rest keep what an earlier recv left there.                          *)
Recv(p) ==
    /\ Running(p) /\ hpc[p] = "recv"
    /\ \E n \in 1..BUFFER_LEN :
          /\ n <= Len(net[p])
          /\ hbuf' = [hbuf EXCEPT ![p] = Over(@, n, net[p])]
          /\ net' = [net EXCEPT ![p] = SubSeq(@, n + 1, Len(@))]
          /\ short' = [short EXCEPT ![p] = @ \/ n < BUFFER_LEN]
    /\ hpc' = [hpc EXCEPT ![p] = "check"]
    /\ UNCHANGED <<flags, tpc, mpc, tbuf, rst, fate, ended>>

(* VARIANT: the end of the stream leaves the loop like an "#END". *)
RecvNothingLeaves(p) ==
    /\ Running(p) /\ hpc[p] = "recv"
    /\ net[p] = <<>> /\ ~Running(Other(p))
    /\ hpc' = [hpc EXCEPT ![p] = "clear"]
    /\ UNCHANGED <<flags, tpc, mpc, hbuf, tbuf, net, rst, fate, ended, short>>

(* recv returned 0 or -1: neither leaves the loop nor clears the buffer.   *)
RecvNothing(p) ==
    /\ Running(p) /\ hpc[p] = "recv"
    /\ net[p] = <<>> /\ ~Running(Other(p))
    /\ hpc' = [hpc EXCEPT ![p] = "check"]
    /\ UNCHANGED <<flags, tpc, mpc, hbuf, tbuf, net, rst, fate, ended, short>>

(* VARIANTS: line 16 is left out; END_COM++ instead of END_COM = 1. *)
HearCheckDeaf(p) ==
    /\ Running(p) /\ hpc[p] = "check"
    /\ hpc' = [hpc EXCEPT ![p] = HearLoop(END_COM[p])]
    /\ UNCHANGED <<flags, tpc, mpc, hbuf, tbuf, net, rst, fate, ended, short>>
HearCheckCounts(p) ==
    /\ Running(p) /\ hpc[p] = "check"
    /\ END_COM' = [END_COM EXCEPT ![p] = IF Says(hbuf[p]) THEN @ + 1 ELSE @]
    /\ hpc' = [hpc EXCEPT ![p] = HearLoop(END_COM'[p])]
    /\ UNCHANGED <<HEAR, TALK, tpc, mpc, hbuf, tbuf, net, rst, fate, ended, short>>

HearCheck(p) ==
    /\ Running(p) /\ hpc[p] = "check"
    /\ END_COM' = [END_COM EXCEPT ![p] = IF Says(hbuf[p]) THEN 1 ELSE @]
    /\ hpc' = [hpc EXCEPT ![p] = HearLoop(END_COM'[p])]
    /\ UNCHANGED <<HEAR, TALK, tpc, mpc, hbuf, tbuf, net, rst, fate, ended, short>>

HearClear(p) ==
    /\ Running(p) /\ hpc[p] = "clear"
    /\ HEAR' = [HEAR EXCEPT ![p] = 0]
    /\ hpc' = [hpc EXCEPT ![p] = "return"]
    /\ UNCHANGED <<END_COM, TALK, tpc, mpc, hbuf, tbuf, net, rst, fate, ended, short>>

(* The thread is over, and its stack is gone with it. *)
HearReturn(p) ==
    /\ Running(p) /\ hpc[p] = "return"
    /\ hpc' = [hpc EXCEPT ![p] = "exited"]
    /\ hbuf' = [hbuf EXCEPT ![p] = Junk]
    /\ UNCHANGED <<flags, tpc, mpc, tbuf, net, rst, fate, ended, short>>

-----------------------------------------------------------------------------
(* Thread talk *)

(* while(END_COM == 0) *)
TalkLoop(endcom) == IF endcom = 0 THEN "fgets" ELSE "clear"

TalkStart(p) ==
    /\ Running(p) /\ tpc[p] = "start"
    /\ tpc' = [tpc EXCEPT ![p] = TalkLoop(END_COM[p])]
    /\ UNCHANGED <<flags, hpc, mpc, hbuf, tbuf, net, rst, fate, ended, short>>

(* The user types a line.  What it does not reach in the buffer is still   *)
(* there, and is sent with it.                                             *)
Fgets(p) ==
    /\ Running(p) /\ tpc[p] = "fgets"
    /\ \E l \in Lines[p] : tbuf' = [tbuf EXCEPT ![p] = Over(@, Len(l), l)]
    /\ ended' = [ended EXCEPT ![p] = @ \/ Says(tbuf'[p])]
    /\ tpc' = [tpc EXCEPT ![p] = "send"]
    /\ UNCHANGED <<flags, hpc, mpc, hbuf, net, rst, fate, short>>

(* fgets may return NULL (the user ends the input), which nobody looks at: *)
(* the buffer keeps the previous line and it is sent again.                *)
FgetsEof(p) ==
    /\ p \in Quitters
    /\ Running(p) /\ tpc[p] = "fgets"
    /\ tpc' = [tpc EXCEPT ![p] = "send"]
    /\ UNCHANGED <<flags, hpc, mpc, hbuf, tbuf, net, rst, fate, ended, short>>

(* send: the frame enters the stream when it fits; with the other process  *)
(* gone it is lost and may bring back a reset, which may overtake what is  *)
(* still on its way.                                                       *)
Send(p) ==
    /\ Running(p) /\ tpc[p] = "send" /\ ~rst[p]
    /\ \/ /\ Running(Other(p))
          /\ Len(net[Other(p)]) + BUFFER_LEN <= SockBuf
          /\ net' = [net EXCEPT ![Other(p)] = @ \o tbuf[p]]
          /\ UNCHANGED rst
       \/ /\ ~Running(Other(p))
          /\ \/ UNCHANGED <<net, rst>>
             \/ /\ rst' = [rst EXCEPT ![p] = TRUE]
                /\ \E rest \in Heads(net[p]) : net' = [net EXCEPT ![p] = rest]
    /\ tpc' = [tpc EXCEPT ![p] = "check"]
    /\ UNCHANGED <<flags, hpc, mpc, hbuf, tbuf, fate, ended, short>>

(* send on a connection that was reset: an error that talk only reports,   *)
(* or SIGPIPE, which nobody handles.                                       *)
SendReset(p) ==
    /\ Running(p) /\ tpc[p] = "send" /\ rst[p]
    /\ \/ /\ tpc' = [tpc EXCEPT ![p] = "check"]
          /\ UNCHANGED <<flags, hpc, mpc, hbuf, tbuf, net, rst, fate, ended, short>>
       \/ Die(p, "sigpipe")

TalkCheck(p) ==
    /\ Running(p) /\ tpc[p] = "check"
    /\ END_COM' = [END_COM EXCEPT ![p] = IF Says(tbuf[p]) THEN 1 ELSE @]
    /\ tpc' = [tpc EXCEPT ![p] = TalkLoop(END_COM'[p])]
    /\ UNCHANGED <<HEAR, TALK, hpc, mpc, hbuf, tbuf, net, rst, fate, ended, short>>

TalkClear(p) ==
    /\ Running(p) /\ tpc[p] = "clear"
    /\ TALK' = [TALK EXCEPT ![p] = 0]
    /\ tpc' = [tpc EXCEPT ![p] = "return"]
    /\ UNCHANGED <<END_COM, HEAR, hpc, mpc, hbuf, tbuf, net, rst, fate, ended, short>>

TalkReturn(p) ==
    /\ Running(p) /\ tpc[p] = "return"
    /\ tpc' = [tpc EXCEPT ![p] = "exited"]
    /\ tbuf' = [tbuf EXCEPT ![p] = Junk]
    /\ UNCHANGED <<flags, hpc, mpc, hbuf, net, rst, fate, ended, short>>

-----------------------------------------------------------------------------
(* Thread main: the polling loop of chat() *)

(* The two conditions of the loop.  They read the flags up to four times   *)
(* while the threads move, but the flags only ever fall: whatever the four *)
(* reads see, they decide what one look at the last of them decides.       *)
Poll(p) ==
    /\ Running(p) /\ mpc[p] = "poll"
    /\ \/ /\ HEAR[p] = 0 /\ TALK[p] # 0
          /\ mpc' = [mpc EXCEPT ![p] = "kill_talk"]
       \/ /\ TALK[p] = 0 /\ HEAR[p] # 0
          /\ mpc' = [mpc EXCEPT ![p] = "kill_hear"]
    /\ UNCHANGED <<flags, hpc, tpc, hbuf, tbuf, net, rst, fate, ended, short>>

(* VARIANT: SIGTERM is ignored. *)
KillIgnored(p, victim) ==
    /\ mpc' = [mpc EXCEPT ![p] = "join_talk"]
    /\ UNCHANGED <<flags, hpc, tpc, hbuf, tbuf, net, rst, fate, ended, short>>

(* pthread_kill: SIGTERM has its default disposition, so a thread that is  *)
(* still there takes the whole process with it; one that has already       *)
(* returned receives nothing, and main goes on to the joins.               *)
Kill(p, victim) ==
    /\ IF victim = "exited"
       THEN /\ mpc' = [mpc EXCEPT ![p] = "join_talk"]
            /\ UNCHANGED <<flags, hpc, tpc, hbuf, tbuf, net, rst, fate, ended, short>>
       ELSE Die(p, "sigterm")

KillTalk(p) == Running(p) /\ mpc[p] = "kill_talk" /\ Kill(p, tpc[p])
KillHear(p) == Running(p) /\ mpc[p] = "kill_hear" /\ Kill(p, hpc[p])

JoinTalk(p) ==
    /\ Running(p) /\ mpc[p] = "join_talk" /\ tpc[p] = "exited"
    /\ mpc' = [mpc EXCEPT ![p] = "join_hear"]
    /\ UNCHANGED <<flags, hpc, tpc, hbuf, tbuf, net, rst, fate, ended, short>>

(* The second join, and the return of chat() and of main. *)
JoinHear(p) ==
    /\ Running(p) /\ mpc[p] = "join_hear" /\ hpc[p] = "exited"
    /\ Die(p, "returned")

-----------------------------------------------------------------------------
(* The user may interrupt the program at any time. *)
Interrupt(p) ==
    /\ p \in Quitters
    /\ Running(p)
    /\ Die(p, "interrupted")

-----------------------------------------------------------------------------
Hear(p) == \/ HearStart(p) \/ Recv(p) \/ RecvNothing(p) \/ HearCheck(p)
           \/ HearClear(p) \/ HearReturn(p)

(* Everything talk does without waiting for its user. *)
Talk(p) == \/ TalkStart(p) \/ Send(p) \/ SendReset(p) \/ TalkCheck(p)
           \/ TalkClear(p) \/ TalkReturn(p)

Main(p) == \/ Poll(p) \/ KillTalk(p) \/ KillHear(p)
           \/ JoinTalk(p) \/ JoinHear(p)

User(p) == Fgets(p) \/ FgetsEof(p) \/ Interrupt(p)

Next == \E p \in Peers : Hear(p) \/ Talk(p) \/ Main(p) \/ User(p)

(* The scheduler runs every thread that can run; the user owes nothing. *)
Fairness == \A p \in Peers : WF_vars(Hear(p)) /\ WF_vars(Talk(p)) /\ WF_vars(Main(p))

Spec == Init /\ [][Next]_vars
FairSpec == Spec /\ Fairness
-----------------------------------------------------------------------------
(* Safety *)

(* A chat process terminates itself, by the kill of its main thread or by  *)
(* returning from main, only after one of the two users typed a line that  *)
(* begins with "#END", or after a recv of its own returned less than a     *)
(* frame: lines 16 and 34 read buffers that may hold an earlier frame,     *)
(* another end of a longer line, or nothing that was ever received, and    *)
(* none of these is taken for "#END".  After a short recv this is not so:  *)
(* the end of a line such as "bye #END" may then lie at the start.         *)
StopsOnlyAfterEnd ==
    \A p \in Peers :
        fate[p] \in {"sigterm", "returned"} => ended[p] \/ ended[Other(p)] \/ short[p]

(* main reaches the joins only when the thread it meant to kill had        *)
(* already returned, and by then both flags are down: a join never waits   *)
(* for a thread that is still reading or typing.                           *)
JoinNeverWaits ==
    \A p \in Peers :
        Running(p) /\ mpc[p] \in {"join_talk", "join_hear"} =>
            /\ HEAR[p] = 0 /\ TALK[p] = 0
            /\ "exited" \in {hpc[p], tpc[p]}

-----------------------------------------------------------------------------
(* Liveness *)

(* Both threads are over and main goes on polling: neither of its two      *)
(* conditions can ever hold again.                                         *)
Wedged(p) ==
    /\ Running(p)
    /\ hpc[p] = "exited" /\ tpc[p] = "exited"
    /\ mpc[p] = "poll"

(* Once END_COM is set, the process ends or both its threads do: no thread *)
(* keeps waiting for the user or for the other peer.                       *)
EndStopsThreads ==
    \A p \in Peers : (END_COM[p] = 1) ~> (~Running(p) \/ Wedged(p))

(* chat.h, line 17: "#END signals end of communication".  Once a peer has  *)
(* seen it, its process ends.                                              *)
EndTerminates ==
    \A p \in Peers : (END_COM[p] = 1) ~> ~Running(p)

(* An "#END" that was sent reaches the other process and stops it, even    *)
(* when the sender dies right after sending it.  There are two excuses: a  *)
(* reset, which the sender's exit brings about, at once if it left         *)
(* something unread, else as the answer to a later frame, and which may    *)
(* overtake the "#END"; and a short recv, after which the receiver looks   *)
(* for it at the wrong place for the rest of the chat.                     *)
EndSent(p) == Running(p) /\ tpc[p] = "check" /\ Says(tbuf[p])
EndReachesPeer ==
    \A p \in Peers :
        LET q == Other(p) IN
        EndSent(p) ~> (END_COM[q] = 1 \/ ~Running(q) \/ rst[q] \/ short[q])
=============================================================================

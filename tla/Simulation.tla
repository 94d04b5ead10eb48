----------------------------- MODULE Simulation -----------------------------
(***************************************************************************)
(* The ns-3 programs: main installs applications and runs the simulator,   *)
(* which takes the events of its queue by time and, among those of one     *)
(* time, in the order in which they were scheduled.  A program is the list *)
(* of its applications, in the order of their nodes, with what main gives  *)
(* them; MyApp is the repository's own, the sinks, the on-off and the      *)
(* bulk-send sources are the library's.  Times are in microseconds, rates  *)
(* in bits per second.  What packets meet on their way is left out, but    *)
(* for the SYN of a connection: it takes the time of the links it crosses, *)
(* and then finds the sink listening or is refused.  That a packet of      *)
(* another source may be ahead of it on a shared link is left out.         *)
(***************************************************************************)
EXTENDS Integers, Sequences

CONSTANTS
    Rates,      \* the --rate of dumbbell, the --bandwidth of tcpvariants
    Latencies,  \* the --latency of dumbbell, the --delay of tcpvariants
    MaxBytes,   \* the --max_bytes of tcpvariants
    Spokes,     \* the --nSpokes of star
    Programs    \* what is run, among the programs below

(* The sources of dumbbell do not fill the link they share, of 10 Mb/s.    *)
ASSUME RatesAssumption ==
    /\ \A r \in Rates : r \in Nat \ {0} /\ 2 * r <= 10000000
    /\ Latencies \subseteq Nat

Sec == 1000000
Milli == 1000
Never == -1

(* Every MyApp sends packets of 1040 bytes: the time one takes at bps.     *)
Wait(bps) == 10 * ((104 * 8 * Sec) \div bps)

(* What the SYN, 58 bytes with its headers, takes over one link.           *)
Hop(bps, latency) == latency + (58 * 8 * Sec) \div bps

Sink(start, stop) ==
    [kind |-> "sink", start |-> start, stop |-> stop, to |-> 0, delay |-> 0, n |-> 0, wait |-> 0]
Source(to, delay, start, stop) == [Sink(start, stop) EXCEPT !.kind = "source", !.to = to, !.delay = delay]

(* MyApp::Setup, and the times main gives it.  A UDP socket has nobody to  *)
(* wait for: it connects at once.                                          *)
MyApp(to, delay, start, stop, n, wait) ==
    [Source(to, delay, start, stop) EXCEPT !.kind = "myapp", !.n = n, !.wait = wait]

(* The SYN crosses the link of its source, the one in the middle and that  *)
(* of its sink; --rate and --latency are those of the first and the last.  *)
Dumbbell ==
    {LET syn == 2 * Hop(r, l) + Hop(10000000, 1)
     IN  [name |-> "dumbbell", end |-> 100 * Sec,
          apps |-> <<MyApp(4, syn, 1 * Sec, 30 * Sec, 100000, Wait(r)),
                     MyApp(5, syn, 6 * Sec, 30 * Sec, 100000, Wait(r)),
                     MyApp(0, 0, 5 * Sec, 30 * Sec, 100000, Wait(r)),
                     Sink(0, 30 * Sec), Sink(0, 30 * Sec), Sink(0, 30 * Sec)>>] :
        r \in Rates, l \in Latencies}

Fifth ==
    {[name |-> "fifth", end |-> 20 * Sec,
      apps |-> <<MyApp(2, Hop(5000000, 2 * Milli), 1 * Sec, 20 * Sec, 1000, Wait(1000000)),
                 Sink(0, 20 * Sec)>>]}

(* The copy under scratch differs in a trace. *)
FifthScratch == {[p EXCEPT !.name = "fifth_scratch"] : p \in Fifth}

(* --max_bytes is passed on as the number of packets; the second link is   *)
(* the bottleneck.                                                         *)
TcpVariants ==
    {[name |-> "tcpvariants", end |-> 35 * Sec,
      apps |-> <<MyApp(2, Hop(250000, 2 * Milli) + Hop(r, l), 1 * Sec, 30 * Sec, m, Wait(250000)),
                 Sink(0, 30 * Sec)>>] :
        r \in Rates, l \in Latencies, m \in MaxBytes}

TcpBulkSend ==
    {[name |-> "tcp-bulk-send", end |-> 10 * Sec,
      apps |-> <<Source(2, Hop(500000, 5 * Milli), 0, 10 * Sec), Sink(0, 10 * Sec)>>]}

TcpBulkSendScratch == {[p EXCEPT !.name = "tcp-bulk-send_scratch"] : p \in TcpBulkSend}

(* The second call of sinkApps.Start overwrites the time of the first, and *)
(* there is no Stop.                                                       *)
BulkSend ==
    {[name |-> "bulk-send", end |-> 10 * Sec,
      apps |-> <<Source(2, Hop(500000, 5 * Milli), 1 * Sec, 10 * Sec), Sink(10 * Sec, Never)>>]}

Spoke == Source(1, Hop(5000000, 2 * Milli), 1 * Sec, 10 * Sec)

(* VARIANT: the hub is started twice, and the second time replaces the first. *)
StarTwice ==
    {[name |-> "star", end |-> Never,
      apps |-> <<Sink(10 * Sec, Never)>> \o [i \in 1..n |-> Spoke]] : n \in Spokes}

(* Nobody stops the simulator: it runs until no event is left. *)
Star ==
    {[name |-> "star", end |-> Never,
      apps |-> <<Sink(1 * Sec, 10 * Sec)>> \o [i \in 1..n |-> Spoke]] : n \in Spokes}

(* The hub is started twice as well, and never stopped. *)
OnOff ==
    {[name |-> "onoff", end |-> Never,
      apps |-> <<Sink(10 * Sec, Never)>> \o [i \in 1..2 |-> Spoke]]}

(* All the proofs need to know of a program. *)
ASSUME SimulationAssumption ==
    \A p \in Programs :
        /\ p.end \in Nat \cup {Never}
        /\ p.apps \in Seq([kind : {"sink", "source", "myapp"}, start : Nat, stop : Nat \cup {Never},
                           to : Nat, delay : Nat, n : Nat, wait : Nat])
        /\ \A a \in DOMAIN p.apps :
              /\ p.apps[a].stop = Never \/ p.apps[a].start < p.apps[a].stop
              /\ p.apps[a].kind = "myapp" => p.apps[a].stop # Never /\ p.apps[a].wait > 0
              /\ p.apps[a].kind # "sink" =>
                    /\ p.apps[a].to \in DOMAIN p.apps \/ (p.apps[a].kind = "myapp" /\ p.apps[a].to = 0)
                    /\ p.end = Never \/ p.apps[a].start < p.end

VARIABLES
    program,     \* what is run
    queue, uid,  \* the events that are scheduled, and the number of the next one
    clock,       \* simulated time
    running,     \* m_running, per application
    sent,        \* m_packetsSent
    sendEvent,   \* m_sendEvent, the number of an event
    peer,        \* per source: "none", "connecting", "connected" or "refused"
    open,        \* per application: it has a socket that is bound, or listens
    over         \* the simulator was stopped

vars == <<program, queue, uid, clock, running, sent, sendEvent, peer, open, over>>
app == <<running, sent, sendEvent, peer, open>>

Apps == DOMAIN program.apps
App(a) == program.apps[a]

(* The first packet is sent before any count is looked at. *)
Quota(a) == IF App(a).n = 0 THEN 1 ELSE App(a).n

Events == [at : Nat, uid : Nat, what : {"end", "start", "stop", "send", "syn"}, of : Nat]

TypeOK ==
    /\ program \in Programs
    /\ queue \subseteq Events /\ uid \in Nat /\ clock \in Nat
    /\ \A e \in queue : e.uid < uid /\ e.at >= clock
    /\ running \in [Apps -> BOOLEAN]
    /\ sent \in [Apps -> Nat] /\ \A a \in Apps : sent[a] <= Quota(a)
    /\ sendEvent \in [Apps -> Nat]
    /\ peer \in [Apps -> {"none", "connecting", "connected", "refused"}]
    /\ open \in [Apps -> BOOLEAN]
    /\ over \in BOOLEAN

Event(at, u, what, a) == [at |-> at, uid |-> u, what |-> what, of |-> a]

(* Simulator::Stop is called before Run, and the applications schedule     *)
(* their start and stop when Run initialises their nodes, one by one.      *)
Scheduled(p) ==
    (IF p.end = Never THEN {} ELSE {Event(p.end, 1, "end", 0)})
    \cup {Event(p.apps[a].start, 2 * a, "start", a) : a \in DOMAIN p.apps}
    \cup {Event(p.apps[a].stop, 2 * a + 1, "stop", a) :
            a \in {b \in DOMAIN p.apps : p.apps[b].stop # Never}}

Init ==
    /\ program \in Programs
    /\ queue = Scheduled(program)
    /\ uid = 2 * Len(program.apps) + 3
    /\ clock = 0
    /\ running = [a \in Apps |-> FALSE]
    /\ sent = [a \in Apps |-> 0]
    /\ sendEvent = [a \in Apps |-> 0]
    /\ peer = [a \in Apps |-> "none"]
    /\ open = [a \in Apps |-> FALSE]
    /\ over = FALSE

-----------------------------------------------------------------------------
(* The simulator: the event it takes next *)
First(e) ==
    \A f \in queue : e.at < f.at \/ (e.at = f.at /\ e.uid <= f.uid)

Take(e, what) ==
    /\ ~over /\ e.what = what /\ First(e)
    /\ clock' = e.at
    /\ UNCHANGED program

(* A step uses uid and uid+1 for the events it schedules. *)
Schedule(e, new) ==
    /\ queue' = (queue \ {e}) \cup new
    /\ uid' = uid + 2

(* sendPkt, and scheduleTx unless it was the last one.  The packet counts  *)
(* whatever Send returns.  s is the number of packets sent before.         *)
Due(a, s, runs) == s + 1 < App(a).n /\ runs

(* VARIANT: the packets are counted from zero. *)
SendPacketOneMore(e) ==
    LET a == e.of IN
    /\ Take(e, "send")
    /\ sent' = [sent EXCEPT ![a] = @ + 1]
    /\ IF sent[a] < App(a).n /\ running[a]
       THEN /\ Schedule(e, {Event(e.at + App(a).wait, uid + 1, "send", a)})
            /\ sendEvent' = [sendEvent EXCEPT ![a] = uid + 1]
       ELSE Schedule(e, {}) /\ UNCHANGED sendEvent
    /\ UNCHANGED <<running, peer, open, over>>

SendPacket(e) ==
    LET a == e.of IN
    /\ Take(e, "send")
    /\ sent' = [sent EXCEPT ![a] = @ + 1]
    /\ IF Due(a, sent[a], running[a])
       THEN /\ Schedule(e, {Event(e.at + App(a).wait, uid + 1, "send", a)})
            /\ sendEvent' = [sendEvent EXCEPT ![a] = uid + 1]
       ELSE Schedule(e, {}) /\ UNCHANGED sendEvent
    /\ UNCHANGED <<running, peer, open, over>>

(* Connect sends a SYN, and the first packet goes out at once. *)
StartApplication(e) ==
    LET a == e.of
        syn == IF App(a).to = 0 THEN {} ELSE {Event(e.at + App(a).delay, uid, "syn", a)}
        next == IF Due(a, 0, TRUE) THEN {Event(e.at + App(a).wait, uid + 1, "send", a)} ELSE {}
    IN
    /\ Take(e, "start") /\ App(a).kind = "myapp"
    /\ running' = [running EXCEPT ![a] = TRUE]
    /\ sent' = [sent EXCEPT ![a] = 1]
    /\ open' = [open EXCEPT ![a] = TRUE]
    /\ peer' = [peer EXCEPT ![a] = IF App(a).to = 0 THEN "connected" ELSE "connecting"]
    /\ Schedule(e, syn \cup next)
    /\ sendEvent' = [sendEvent EXCEPT ![a] = IF next = {} THEN @ ELSE uid + 1]
    /\ UNCHANGED over

(* VARIANT: the pending send is not cancelled. *)
StopApplicationKeeps(e) ==
    LET a == e.of IN
    /\ Take(e, "stop") /\ App(a).kind = "myapp"
    /\ running' = [running EXCEPT ![a] = FALSE]
    /\ Schedule(e, {})
    /\ open' = [open EXCEPT ![a] = FALSE]
    /\ UNCHANGED <<sent, sendEvent, peer, over>>

StopApplication(e) ==
    LET a == e.of IN
    /\ Take(e, "stop") /\ App(a).kind = "myapp"
    /\ running' = [running EXCEPT ![a] = FALSE]
    /\ queue' = {f \in queue : f # e /\ f.uid # sendEvent[a]}
    /\ open' = [open EXCEPT ![a] = FALSE]
    /\ UNCHANGED <<uid, sent, sendEvent, peer, over>>

-----------------------------------------------------------------------------
(* The applications of the library *)
StartLibrary(e) ==
    LET a == e.of IN
    /\ Take(e, "start") /\ App(a).kind # "myapp"
    /\ open' = [open EXCEPT ![a] = TRUE]
    /\ IF App(a).kind = "source"
       THEN /\ peer' = [peer EXCEPT ![a] = "connecting"]
            /\ Schedule(e, {Event(e.at + App(a).delay, uid, "syn", a)})
       ELSE Schedule(e, {}) /\ UNCHANGED peer
    /\ UNCHANGED <<running, sent, sendEvent, over>>

StopLibrary(e) ==
    LET a == e.of IN
    /\ Take(e, "stop") /\ App(a).kind # "myapp"
    /\ open' = [open EXCEPT ![a] = FALSE]
    /\ Schedule(e, {})
    /\ UNCHANGED <<running, sent, sendEvent, peer, over>>

(* The SYN reaches the node of the sink. *)
Syn(e) ==
    LET a == e.of IN
    /\ Take(e, "syn")
    /\ peer' = [peer EXCEPT ![a] = IF open[App(a).to] THEN "connected" ELSE "refused"]
    /\ Schedule(e, {})
    /\ UNCHANGED <<running, sent, sendEvent, open, over>>

(* Simulator::Stop: whatever is left in the queue never happens. *)
EndSimulation(e) ==
    /\ Take(e, "end")
    /\ over' = TRUE
    /\ Schedule(e, {})
    /\ UNCHANGED app

Next == \E e \in queue :
    \/ StartApplication(e) \/ StopApplication(e) \/ SendPacket(e)
    \/ StartLibrary(e) \/ StopLibrary(e) \/ Syn(e) \/ EndSimulation(e)

Spec == Init /\ [][Next]_vars
-----------------------------------------------------------------------------
(* Properties *)

Done == over \/ queue = {}

(* The packets a MyApp should have sent by time t: the first at its start, *)
(* whatever n is, then one per wait, n of them, and none at or after its   *)
(* stop.                                                                   *)
Least(i, j) == IF i < j THEN i ELSE j
Planned(a, t) ==
    IF t < App(a).start THEN 0
    ELSE Least(1 + (Least(t, App(a).stop - 1) - App(a).start) \div App(a).wait,
               Quota(a))

(* The chain of sends that schedule each other keeps its pace: whenever    *)
(* the events of this instant are over, m_packetsSent is what the times    *)
(* and the rate say, also when a send and the stop fall on one instant.    *)
KeepsPace ==
    \A a \in Apps : App(a).kind = "myapp" /\ ~(\E e \in queue : e.of = a /\ e.at = clock)
                        => sent[a] = Planned(a, clock)

(* There is one chain per MyApp: at most one send is scheduled, by the     *)
(* event m_sendEvent names, and only while it runs.                        *)
OneChain ==
    \A e, f \in queue : e.what = "send" /\ f.what = "send" /\ e.of = f.of =>
        e = f /\ running[e.of] /\ sendEvent[e.of] = e.uid

(* A source reaches its sink exactly when its SYN arrives in time, before  *)
(* the sink's stop and the end of the simulation: what rate and latency    *)
(* are set to decides it, the sinks are never too late.  But bulk-send and *)
(* onoff never reach theirs, which were given a second start where a stop  *)
(* was meant: every SYN is refused and nothing is ever sent.               *)
Arrives(a) == App(a).start + App(a).delay
InTime(a) ==
    \/ App(a).to = 0
    \/ /\ program.end = Never \/ Arrives(a) < program.end
       /\ App(App(a).to).stop = Never \/ Arrives(a) < App(App(a).to).stop
SourcesReachSinks ==
    Done => \A a \in Apps : App(a).kind # "sink" =>
        (peer[a] = "connected" <=> InTime(a) /\ program.name \notin {"bulk-send", "onoff"})

=============================================================================

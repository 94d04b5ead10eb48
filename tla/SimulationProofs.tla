-------------------------- MODULE SimulationProofs --------------------------
(* Machine-checked proofs about Simulation.  The first half shows, for     *)
(* every program whose applications have times, counts and rates, that     *)
(* there is one chain of sends; the second follows the course of a         *)
(* simulation, for the pace of that chain and the fate of every SYN.       *)
EXTENDS Simulation, SequenceTheorems, TLAPS

(* The events have numbers of their own, below the next one, and           *)
(* everything but the end of the simulation concerns an application.       *)
Numbered ==
    /\ \A e, f \in queue : e.uid = f.uid => e = f
    /\ \A e \in queue : e.uid < uid
    /\ \A e \in queue : e.what # "end" => e.of \in Apps

(* An application is started once, and sends nothing before. *)
StartsOnce ==
    \A e, f \in queue : e.what = "start" /\ e.of = f.of => f.what # "send" /\ (f.what = "start" => e = f)

(* A send that is scheduled is the one m_sendEvent names, of an            *)
(* application that runs and has packets left.                             *)
Sends ==
    \A e \in queue : e.what = "send" =>
        running[e.of] /\ sendEvent[e.of] = e.uid /\ sent[e.of] < App(e.of).n

(* The inductive invariant: that there is one chain rests on Sends, and    *)
(* Sends on the numbers, by which StopApplication finds the event.         *)
IInv == TypeOK /\ Numbered /\ StartsOnce /\ Sends

-----------------------------------------------------------------------------
AppRecord == [kind : {"sink", "source", "myapp"}, start : Nat, stop : Nat \cup {Never},
              to : Nat, delay : Nat, n : Nat, wait : Nat]

LEMMA ProgramFacts ==
    ASSUME program \in Programs
    PROVE  /\ program.end \in Nat \cup {Never}
           /\ Len(program.apps) \in Nat /\ Apps = 1..Len(program.apps)
           /\ \A a \in Apps : App(a) \in AppRecord
  <1>1. program.end \in Nat \cup {Never} /\ program.apps \in Seq(AppRecord)
    BY SimulationAssumption DEF AppRecord
  <1>2. ASSUME NEW s \in Seq(AppRecord)
        PROVE  Len(s) \in Nat /\ DOMAIN s = 1..Len(s) /\ \A i \in 1..Len(s) : s[i] \in AppRecord
    OBVIOUS
  <1>3. QED
    BY <1>1, <1>2 DEF Apps, App

LEMMA EventFacts ==
    ASSUME NEW at, NEW u, NEW what, NEW a
    PROVE  /\ Event(at, u, what, a).at = at /\ Event(at, u, what, a).uid = u
           /\ Event(at, u, what, a).what = what /\ Event(at, u, what, a).of = a
           /\ at \in Nat /\ u \in Nat /\ a \in Nat /\ what \in {"end", "start", "stop", "send", "syn"}
                => Event(at, u, what, a) \in Events
  BY DEF Event, Events

(* What main schedules before the simulator runs. *)
LEMMA ScheduledFacts ==
    ASSUME program \in Programs, NEW e \in Scheduled(program)
    PROVE  /\ e \in Events
           /\ \/ e.what = "end" /\ e.uid = 1 /\ e = Event(program.end, 1, "end", 0)
              \/ e.what = "start" /\ e.of \in Apps /\ e.uid = 2 * e.of
                    /\ e = Event(App(e.of).start, 2 * e.of, "start", e.of)
              \/ e.what = "stop" /\ e.of \in Apps /\ e.uid = 2 * e.of + 1
                    /\ e = Event(App(e.of).stop, 2 * e.of + 1, "stop", e.of)
  <1>1. CASE program.end # Never /\ e = Event(program.end, 1, "end", 0)
    BY <1>1, ProgramFacts, EventFacts
  <1>2. CASE \E a \in Apps : e = Event(App(a).start, 2 * a, "start", a)
    <2>1. PICK a \in Apps : e = Event(App(a).start, 2 * a, "start", a)
      BY <1>2
    <2>2. a \in Nat /\ App(a).start \in Nat /\ 2 * a \in Nat
      BY ProgramFacts DEF AppRecord
    <2>3. QED
      BY <2>1, <2>2, EventFacts
  <1>3. CASE \E a \in Apps : App(a).stop # Never /\ e = Event(App(a).stop, 2 * a + 1, "stop", a)
    <2>1. PICK a \in Apps : App(a).stop # Never /\ e = Event(App(a).stop, 2 * a + 1, "stop", a)
      BY <1>3
    <2>2. a \in Nat /\ App(a).stop \in Nat /\ 2 * a + 1 \in Nat
      <3>1. a \in Nat /\ App(a).stop \in Nat \cup {Never}
        BY ProgramFacts DEF AppRecord
      <3>2. QED
        BY <2>1, <3>1
    <2>3. QED
      BY <2>1, <2>2, EventFacts
  <1>4. QED
    BY <1>1, <1>2, <1>3 DEF Scheduled, Apps, App

LEMMA InitInv == Init => IInv
  <1> SUFFICES ASSUME Init PROVE IInv
    OBVIOUS
  <1>p. program \in Programs /\ queue = Scheduled(program)
    BY DEF Init
  <1>u. uid = 2 * Len(program.apps) + 3 /\ uid \in Nat /\ clock = 0
    BY <1>p, ProgramFacts DEF Init
  <1>1. ASSUME NEW e \in queue
        PROVE  /\ e \in Events /\ e.uid < uid /\ e.what # "send"
               /\ e.what # "end" => e.of \in Apps
    <2>1. e \in Scheduled(program)
      BY <1>p
    <2>2. e.what # "end" => e.of \in 1..Len(program.apps)
      BY <2>1, <1>p, ScheduledFacts, ProgramFacts
    <2>3. QED
      BY <2>1, <2>2, <1>p, <1>u, ScheduledFacts, ProgramFacts
  <1>2. ASSUME NEW e \in queue, NEW f \in queue, e.uid = f.uid
        PROVE  e = f
    <2>1. e \in Scheduled(program) /\ f \in Scheduled(program)
      BY <1>p
    <2>2. (e.what # "end" => e.of \in Nat) /\ (f.what # "end" => f.of \in Nat)
      BY <2>1, <1>p, ScheduledFacts, ProgramFacts
    <2>n. \A i, j \in Nat : /\ 2 * i # 2 * j + 1 /\ 2 * i # 1 /\ (2 * i = 2 * j => i = j)
                             /\ (2 * i + 1 = 2 * j + 1 => i = j)
      OBVIOUS
    <2>o. e.of \in Apps => e.of \in Nat \ {0}
      BY <1>p, ProgramFacts
    <2>q. f.of \in Apps => f.of \in Nat \ {0}
      BY <1>p, ProgramFacts
    <2>k. \/ e.what = "end" /\ e.uid = 1
          \/ e.what = "start" /\ e.of \in Nat \ {0} /\ e.uid = 2 * e.of
          \/ e.what = "stop" /\ e.of \in Nat \ {0} /\ e.uid = 2 * e.of + 1
      BY <2>1, <2>o, <1>p, ScheduledFacts
    <2>l. \/ f.what = "end" /\ f.uid = 1
          \/ f.what = "start" /\ f.of \in Nat \ {0} /\ f.uid = 2 * f.of
          \/ f.what = "stop" /\ f.of \in Nat \ {0} /\ f.uid = 2 * f.of + 1
      BY <2>1, <2>q, <1>p, ScheduledFacts
    <2>3. e.what = f.what /\ (e.what # "end" => e.of = f.of)
      BY <2>k, <2>l, <1>2
    <2>4. QED
      BY <2>1, <2>3, <1>p, ScheduledFacts
  <1>3. TypeOK
    <2>1. queue \subseteq Events /\ \A e \in queue : e.uid < uid /\ e.at >= clock
      BY <1>1, <1>u DEF Events
    <2>2. sent \in [Apps -> Nat] /\ \A a \in Apps : sent[a] <= Quota(a)
      BY <1>p, ProgramFacts DEF Init, AppRecord, Quota
    <2>3. /\ running \in [Apps -> BOOLEAN] /\ open \in [Apps -> BOOLEAN] /\ over \in BOOLEAN
          /\ sendEvent \in [Apps -> Nat]
          /\ peer \in [Apps -> {"none", "connecting", "connected", "refused"}]
      BY DEF Init
    <2>4. QED
      BY <2>1, <2>2, <2>3, <1>p, <1>u DEF TypeOK
  <1>4. Numbered /\ Sends
    BY <1>1, <1>2 DEF Numbered, Sends
  <1>5. StartsOnce
    <2>1. ASSUME NEW e \in queue, NEW f \in queue, e.what = "start", e.of = f.of, f.what = "start"
          PROVE  e = f
      BY <2>1, <1>p, ScheduledFacts
    <2>2. QED
      BY <2>1, <1>1 DEF StartsOnce
  <1>6. QED
    BY <1>3, <1>4, <1>5 DEF IInv

-----------------------------------------------------------------------------
(* The event that is taken is the earliest. *)
LEMMA TakeFacts ==
    ASSUME IInv, NEW e \in queue, NEW what, Take(e, what)
    PROVE  /\ program' = program /\ Apps' = Apps /\ \A a : App(a)' = App(a) /\ Quota(a)' = Quota(a)
           /\ clock' = e.at /\ clock' \in Nat /\ e.what = what
           /\ \A f \in queue : f.at >= clock'
  <1>1. \A f \in queue : f.at \in Nat /\ f.uid \in Nat
    BY DEF IInv, TypeOK, Events
  <1>2. QED
    BY <1>1 DEF Take, First, Apps, App, Quota

(* A step whose new events are not sends and starts: the library's, and    *)
(* the end.  Whatever the variables of MyApp say stays true.               *)
LEMMA PlainStep ==
    ASSUME IInv, NEW e \in queue, NEW what, Take(e, what), NEW new, Schedule(e, new),
           \A f \in new : f \in Events /\ f.uid = uid /\ f.at >= e.at /\ f.what = "syn" /\ f.of \in Apps,
           \A f, g \in new : f = g,
           running' = running, sent' = sent, sendEvent' = sendEvent,
           peer' \in [Apps -> {"none", "connecting", "connected", "refused"}],
           open' \in [Apps -> BOOLEAN], over' \in BOOLEAN
    PROVE  IInv'
  <1>1. /\ program' = program /\ Apps' = Apps /\ \A a : App(a)' = App(a) /\ Quota(a)' = Quota(a)
        /\ clock' = e.at /\ clock' \in Nat
        /\ \A f \in queue : f.at >= clock'
    BY TakeFacts
  <1>2. queue' = (queue \ {e}) \cup new /\ uid' = uid + 2 /\ uid \in Nat
    BY DEF Schedule, IInv, TypeOK
  <1>3. \A f \in queue : f.uid \in Nat /\ f.uid < uid
    BY DEF IInv, TypeOK, Events
  <1>4. TypeOK'
    <2>1. \A f \in queue' : f \in Events /\ f.uid < uid' /\ f.at >= clock'
      BY <1>1, <1>2, <1>3 DEF IInv, TypeOK
    <2>2. QED
      BY <1>1, <1>2, <2>1 DEF IInv, TypeOK
  <1>5. Numbered'
    BY <1>1, <1>2, <1>3 DEF IInv, Numbered
  <1>6. StartsOnce' /\ Sends'
    BY <1>1, <1>2 DEF IInv, StartsOnce, Sends
  <1>7. QED
    BY <1>4, <1>5, <1>6 DEF IInv

(* The step of a MyApp that has a packet sent: its start, or a send.       *)
LEMMA SendingStep ==
    ASSUME IInv, NEW e \in queue, NEW what \in {"start", "send"}, Take(e, what),
           NEW syn, NEW next, Schedule(e, syn \cup next),
           \A f \in syn : f \in Events /\ f.uid = uid /\ f.at >= e.at /\ f.what = "syn" /\ f.of = e.of,
           \A f, g \in syn : f = g,
           \A f \in next : f \in Events /\ f.uid = uid + 1 /\ f.at >= e.at /\ f.what = "send" /\ f.of = e.of,
           \A f, g \in next : f = g,
           next # {} => running'[e.of] /\ sendEvent'[e.of] = uid + 1 /\ sent'[e.of] < App(e.of).n,
           running' \in [Apps -> BOOLEAN], sendEvent' \in [Apps -> Nat],
           sent' \in [Apps -> Nat], \A a \in Apps : sent'[a] <= Quota(a),
           \A a \in Apps \ {e.of} : /\ running'[a] = running[a] /\ sendEvent'[a] = sendEvent[a]
                                    /\ sent'[a] = sent[a],
           peer' \in [Apps -> {"none", "connecting", "connected", "refused"}],
           open' \in [Apps -> BOOLEAN], over' \in BOOLEAN
    PROVE  IInv'
  <1>1. /\ program' = program /\ Apps' = Apps /\ \A a : App(a)' = App(a) /\ Quota(a)' = Quota(a)
        /\ clock' = e.at /\ clock' \in Nat /\ e.what = what
        /\ \A f \in queue : f.at >= clock'
    BY TakeFacts
  <1>2. queue' = (queue \ {e}) \cup (syn \cup next) /\ uid' = uid + 2 /\ uid \in Nat
    BY DEF Schedule, IInv, TypeOK
  <1>3. \A f \in queue : f.uid \in Nat /\ f.uid < uid
    BY DEF IInv, TypeOK, Events
  <1>a. e.of \in Apps
    BY <1>1 DEF IInv, Numbered
  <1>4. TypeOK'
    <2>1. \A f \in queue' : f \in Events /\ f.uid < uid' /\ f.at >= clock'
      BY <1>1, <1>2, <1>3 DEF IInv, TypeOK
    <2>2. QED
      BY <1>1, <1>2, <2>1 DEF IInv, TypeOK
  <1>5. Numbered'
    BY <1>1, <1>2, <1>3, <1>a DEF IInv, Numbered
  <1>s. \A f \in queue \ {e} : f.of = e.of => f.what \notin {"start", "send"}
    <2>1. CASE what = "start"
      BY <1>1, <2>1 DEF IInv, StartsOnce
    <2>2. CASE what = "send"
      <3>1. \A f \in queue : f.of = e.of => f.what # "start"
        BY <1>1, <2>2 DEF IInv, StartsOnce
      <3>2. \A f \in queue : f.of = e.of /\ f.what = "send" => f.uid = e.uid
        BY <1>1, <2>2 DEF IInv, Sends
      <3>3. QED
        BY <3>1, <3>2 DEF IInv, Numbered
    <2>3. QED
      BY <2>1, <2>2
  <1>6. StartsOnce'
    BY <1>2, <1>s DEF IInv, StartsOnce
  <1>7. Sends'
    <2>1. ASSUME NEW f \in queue', f.what = "send"
          PROVE  running'[f.of] /\ sendEvent'[f.of] = f.uid /\ sent'[f.of] < App(f.of).n
      <3>1. CASE f \in next
        BY <3>1
      <3>2. CASE f \in queue \ {e}
        BY <2>1, <3>2, <1>s, <1>1 DEF IInv, Sends, Numbered
      <3>3. QED
        BY <2>1, <3>1, <3>2, <1>2
    <2>2. QED
      BY <2>1, <1>1 DEF Sends
  <1>8. QED
    BY <1>4, <1>5, <1>6, <1>7 DEF IInv

-----------------------------------------------------------------------------
LEMMA StartStep ==
    ASSUME IInv, NEW e \in queue, StartApplication(e)
    PROVE  IInv'
  <1> DEFINE a == e.of
             syn == IF App(a).to = 0 THEN {} ELSE {Event(e.at + App(a).delay, uid, "syn", a)}
             next == IF Due(a, 0, TRUE) THEN {Event(e.at + App(a).wait, uid + 1, "send", a)} ELSE {}
  <1>1. Take(e, "start") /\ Schedule(e, syn \cup next)
    BY DEF StartApplication
  <1>2. e.what = "start" /\ a \in Apps /\ a \in Nat /\ App(a) \in AppRecord
    BY <1>1, ProgramFacts DEF Take, IInv, TypeOK, Numbered
  <1>3. e.at \in Nat /\ uid \in Nat /\ App(a).delay \in Nat /\ App(a).wait \in Nat /\ App(a).n \in Nat
    BY <1>2 DEF IInv, TypeOK, Events, AppRecord
  <1>4. \A f \in syn : f \in Events /\ f.uid = uid /\ f.at >= e.at /\ f.what = "syn" /\ f.of = e.of
    <2>1. e.at + App(a).delay \in Nat /\ e.at + App(a).delay >= e.at
      BY <1>3
    <2>2. QED
      BY <2>1, <1>2, <1>3, EventFacts
  <1>5. \A f \in next : f \in Events /\ f.uid = uid + 1 /\ f.at >= e.at /\ f.what = "send" /\ f.of = e.of
    <2>1. e.at + App(a).wait \in Nat /\ e.at + App(a).wait >= e.at /\ uid + 1 \in Nat
      BY <1>3
    <2> DEFINE f == Event(e.at + App(a).wait, uid + 1, "send", a)
    <2>2. f \in Events /\ f.uid = uid + 1 /\ f.at >= e.at /\ f.what = "send" /\ f.of = a
      BY <2>1, <1>2, <1>3, EventFacts
    <2> HIDE DEF f
    <2>3. \A g \in next : g = f
      BY DEF f
    <2>4. QED
      BY <2>2, <2>3
  <1>6. (\A f, g \in syn : f = g) /\ (\A f, g \in next : f = g)
    OBVIOUS
  <1>7. /\ running' = [running EXCEPT ![a] = TRUE]
        /\ sent' = [sent EXCEPT ![a] = 1]
        /\ open' = [open EXCEPT ![a] = TRUE]
        /\ peer' = [peer EXCEPT ![a] = IF App(a).to = 0 THEN "connected" ELSE "connecting"]
        /\ sendEvent' = [sendEvent EXCEPT ![a] = IF next = {} THEN @ ELSE uid + 1]
        /\ over' = over
    BY DEF StartApplication
  <1>8. sent' \in [Apps -> Nat] /\ \A b \in Apps : sent'[b] <= Quota(b)
    BY <1>2, <1>3, <1>7 DEF IInv, TypeOK, Quota
  <1>9. next # {} => running'[a] /\ sendEvent'[a] = uid + 1 /\ sent'[a] < App(a).n
    <2>1. next # {} => 1 < App(a).n
      BY DEF Due
    <2>2. QED
      BY <2>1, <1>2, <1>7 DEF IInv, TypeOK
  <1>10. \A b \in Apps \ {a} : /\ running'[b] = running[b] /\ sendEvent'[b] = sendEvent[b]
                               /\ sent'[b] = sent[b]
    BY <1>7 DEF IInv, TypeOK
  <1>11. running' \in [Apps -> BOOLEAN] /\ open' \in [Apps -> BOOLEAN] /\ over' \in BOOLEAN
    BY <1>7 DEF IInv, TypeOK
  <1>12. sendEvent' \in [Apps -> Nat]
    <2>1. uid + 1 \in Nat
      BY <1>3
    <2>2. sendEvent' = sendEvent \/ sendEvent' = [sendEvent EXCEPT ![a] = uid + 1]
      BY <1>7 DEF IInv, TypeOK
    <2>3. QED
      BY <2>1, <2>2 DEF IInv, TypeOK
  <1>13. peer' \in [Apps -> {"none", "connecting", "connected", "refused"}]
    BY <1>7 DEF IInv, TypeOK
  <1> HIDE DEF syn, next
  <1>14. QED
    BY <1>1, <1>4, <1>5, <1>6, <1>8, <1>9, <1>10, <1>11, <1>12, <1>13, SendingStep

LEMMA SendStep ==
    ASSUME IInv, NEW e \in queue, SendPacket(e)
    PROVE  IInv'
  <1> DEFINE a == e.of
             syn == {}
             next == IF Due(a, sent[a], running[a])
                     THEN {Event(e.at + App(a).wait, uid + 1, "send", a)} ELSE {}
  <1>1. Take(e, "send") /\ Schedule(e, syn \cup next)
    BY DEF SendPacket
  <1>2. e.what = "send" /\ a \in Apps /\ a \in Nat /\ App(a) \in AppRecord
    BY <1>1, ProgramFacts DEF Take, IInv, TypeOK, Numbered
  <1>3. e.at \in Nat /\ uid \in Nat /\ App(a).wait \in Nat /\ App(a).n \in Nat /\ sent[a] \in Nat
    BY <1>2 DEF IInv, TypeOK, Events, AppRecord
  <1>4. \A f \in next : f \in Events /\ f.uid = uid + 1 /\ f.at >= e.at /\ f.what = "send" /\ f.of = e.of
    <2>1. e.at + App(a).wait \in Nat /\ e.at + App(a).wait >= e.at /\ uid + 1 \in Nat
      BY <1>3
    <2> DEFINE f == Event(e.at + App(a).wait, uid + 1, "send", a)
    <2>2. f \in Events /\ f.uid = uid + 1 /\ f.at >= e.at /\ f.what = "send" /\ f.of = a
      BY <2>1, <1>2, <1>3, EventFacts
    <2> HIDE DEF f
    <2>3. \A g \in next : g = f
      BY DEF f
    <2>4. QED
      BY <2>2, <2>3
  <1>5. \A f, g \in next : f = g
    OBVIOUS
  <1>6. /\ running' = running /\ open' = open /\ peer' = peer /\ over' = over
        /\ sent' = [sent EXCEPT ![a] = @ + 1]
        /\ sendEvent' = [sendEvent EXCEPT ![a] = IF next = {} THEN @ ELSE uid + 1]
    BY DEF SendPacket, IInv, TypeOK
  <1>7. sent[a] < App(a).n
    BY <1>2 DEF IInv, Sends
  <1>8. sent' \in [Apps -> Nat] /\ \A b \in Apps : sent'[b] <= Quota(b)
    <2>1. sent'[a] = sent[a] + 1 /\ sent' \in [Apps -> Nat]
      BY <1>2, <1>3, <1>6 DEF IInv, TypeOK
    <2>2. sent'[a] <= Quota(a)
      BY <2>1, <1>3, <1>7 DEF Quota
    <2>3. QED
      BY <2>1, <2>2, <1>6 DEF IInv, TypeOK
  <1>9. next # {} => running'[a] /\ sendEvent'[a] = uid + 1 /\ sent'[a] < App(a).n
    <2>1. next # {} => sent[a] + 1 < App(a).n /\ running[a]
      BY DEF Due
    <2>2. QED
      BY <2>1, <1>2, <1>6 DEF IInv, TypeOK
  <1>10. \A b \in Apps \ {a} : /\ running'[b] = running[b] /\ sendEvent'[b] = sendEvent[b]
                               /\ sent'[b] = sent[b]
    BY <1>6 DEF IInv, TypeOK
  <1>11. running' \in [Apps -> BOOLEAN] /\ open' \in [Apps -> BOOLEAN] /\ over' \in BOOLEAN
    BY <1>6 DEF IInv, TypeOK
  <1>12. sendEvent' \in [Apps -> Nat]
    <2>1. uid + 1 \in Nat
      BY <1>3
    <2>2. sendEvent' = sendEvent \/ sendEvent' = [sendEvent EXCEPT ![a] = uid + 1]
      BY <1>6 DEF IInv, TypeOK
    <2>3. QED
      BY <2>1, <2>2 DEF IInv, TypeOK
  <1>13. peer' \in [Apps -> {"none", "connecting", "connected", "refused"}]
    BY <1>6 DEF IInv, TypeOK
  <1>14. /\ \A f \in syn : f \in Events /\ f.uid = uid /\ f.at >= e.at /\ f.what = "syn" /\ f.of = e.of
         /\ \A f, g \in syn : f = g
    OBVIOUS
  <1> HIDE DEF syn, next
  <1>15. QED
    BY <1>1, <1>4, <1>5, <1>14, <1>8, <1>9, <1>10, <1>11, <1>12, <1>13, SendingStep, ZenonT(60)

(* The send that is scheduled goes with the flag. *)
LEMMA StopStep ==
    ASSUME IInv, NEW e \in queue, StopApplication(e)
    PROVE  IInv'
  <1> DEFINE a == e.of
  <1>1. /\ program' = program /\ Apps' = Apps /\ \A b : App(b)' = App(b) /\ Quota(b)' = Quota(b)
        /\ clock' = e.at /\ clock' \in Nat /\ \A f \in queue : f.at >= clock'
    BY TakeFacts DEF StopApplication
  <1>2. /\ queue' = {f \in queue : f # e /\ f.uid # sendEvent[a]}
        /\ running' = [running EXCEPT ![a] = FALSE] /\ open' = [open EXCEPT ![a] = FALSE]
        /\ uid' = uid /\ sent' = sent /\ sendEvent' = sendEvent /\ peer' = peer /\ over' = over
    BY DEF StopApplication
  <1>3. TypeOK'
    BY <1>1, <1>2 DEF IInv, TypeOK
  <1>4. Numbered' /\ StartsOnce'
    BY <1>1, <1>2 DEF IInv, Numbered, StartsOnce
  <1>5. Sends'
    <2>1. ASSUME NEW f \in queue', f.what = "send"
          PROVE  running'[f.of] /\ sendEvent'[f.of] = f.uid /\ sent'[f.of] < App(f.of).n
      <3>1. f \in queue /\ f.uid # sendEvent[a]
        BY <1>2
      <3>2. running[f.of] /\ sendEvent[f.of] = f.uid /\ sent[f.of] < App(f.of).n
        BY <2>1, <3>1 DEF IInv, Sends
      <3>3. f.of # a /\ f.of \in Apps
        BY <2>1, <3>1, <3>2 DEF IInv, Numbered
      <3>4. QED
        BY <3>2, <3>3, <1>2 DEF IInv, TypeOK
    <2>2. QED
      BY <2>1, <1>1 DEF Sends
  <1>6. QED
    BY <1>3, <1>4, <1>5 DEF IInv

LEMMA LibraryStep ==
    ASSUME IInv, NEW e \in queue, StartLibrary(e) \/ StopLibrary(e) \/ Syn(e) \/ EndSimulation(e)
    PROVE  IInv'
  <1>1. CASE StartLibrary(e)
    <2> DEFINE new == IF App(e.of).kind = "source"
                      THEN {Event(e.at + App(e.of).delay, uid, "syn", e.of)} ELSE {}
    <2>1. Take(e, "start") /\ Schedule(e, new)
      BY <1>1 DEF StartLibrary
    <2>2. e.of \in Apps /\ e.of \in Nat /\ App(e.of) \in AppRecord
      BY <2>1, ProgramFacts DEF Take, IInv, TypeOK, Numbered
    <2>3. e.at \in Nat /\ uid \in Nat /\ App(e.of).delay \in Nat
      BY <2>2 DEF IInv, TypeOK, Events, AppRecord
    <2>4. \A f \in new : f \in Events /\ f.uid = uid /\ f.at >= e.at /\ f.what = "syn" /\ f.of \in Apps
      <3>1. e.at + App(e.of).delay \in Nat /\ e.at + App(e.of).delay >= e.at
        BY <2>3
      <3>2. QED
        BY <3>1, <2>2, <2>3, EventFacts
    <2>5. \A f, g \in new : f = g
      OBVIOUS
    <2>6. /\ running' = running /\ sent' = sent /\ sendEvent' = sendEvent
          /\ peer' \in [Apps -> {"none", "connecting", "connected", "refused"}]
          /\ open' \in [Apps -> BOOLEAN] /\ over' \in BOOLEAN
      BY <1>1 DEF StartLibrary, IInv, TypeOK
    <2> HIDE DEF new
    <2>7. QED
      BY <2>1, <2>4, <2>5, <2>6, PlainStep
  <1>2. ASSUME Schedule(e, {}), NEW what, Take(e, what), running' = running, sent' = sent,
               sendEvent' = sendEvent,
               peer' \in [Apps -> {"none", "connecting", "connected", "refused"}],
               open' \in [Apps -> BOOLEAN], over' \in BOOLEAN
        PROVE  IInv'
    BY <1>2, PlainStep
  <1>3. CASE StopLibrary(e)
    <2>1. /\ peer' \in [Apps -> {"none", "connecting", "connected", "refused"}]
          /\ open' \in [Apps -> BOOLEAN] /\ over' \in BOOLEAN
      BY <1>3 DEF StopLibrary, IInv, TypeOK
    <2>2. QED
      BY <1>2, <1>3, <2>1 DEF StopLibrary
  <1>4. CASE Syn(e)
    <2>1. /\ peer' \in [Apps -> {"none", "connecting", "connected", "refused"}]
          /\ open' \in [Apps -> BOOLEAN] /\ over' \in BOOLEAN
      BY <1>4 DEF Syn, IInv, TypeOK
    <2>2. QED
      BY <1>2, <1>4, <2>1 DEF Syn
  <1>5. CASE EndSimulation(e)
    <2>1. /\ peer' \in [Apps -> {"none", "connecting", "connected", "refused"}]
          /\ open' \in [Apps -> BOOLEAN] /\ over' \in BOOLEAN
      BY <1>5 DEF EndSimulation, app, IInv, TypeOK
    <2>2. QED
      BY <1>2, <1>5, <2>1 DEF EndSimulation, app
  <1>6. QED
    BY <1>1, <1>3, <1>4, <1>5

-----------------------------------------------------------------------------
(* The first inductive invariant. *)
LEMMA Inductive == Spec => []IInv
  <1>1. IInv /\ [Next]_vars => IInv'
    <2>1. IInv /\ Next => IInv'
      BY StartStep, SendStep, StopStep, LibraryStep DEF Next
    <2>2. IInv /\ UNCHANGED vars => IInv'
      BY DEF vars, IInv, TypeOK, Numbered, StartsOnce, Sends, Apps, App, Quota
    <2>3. QED
      BY <2>1, <2>2
  <1>2. QED
    BY InitInv, <1>1, PTL DEF Spec

-----------------------------------------------------------------------------
(* The course of a simulation: what is in the queue and what has been      *)
(* sent, opened and answered at each time.                                 *)
Awaited(what, a) == \E e \in queue : e.what = what /\ e.of = a

(* What main and the nodes schedule first has the low numbers: of the      *)
(* events of one time, starts and stops come before sends and SYNs.        *)
FirstUid == 2 * Len(program.apps) + 3
Stamp(e) ==
    /\ e.what = "end" => e = Event(program.end, 1, "end", 0) /\ program.end # Never
    /\ e.what = "start" => e = Event(App(e.of).start, 2 * e.of, "start", e.of)
    /\ e.what = "stop" => e = Event(App(e.of).stop, 2 * e.of + 1, "stop", e.of) /\ App(e.of).stop # Never
    /\ e.what \in {"send", "syn"} => e.uid >= FirstUid
    /\ e.what = "send" => /\ App(e.of).kind = "myapp"
                          /\ e.at = App(e.of).start + sent[e.of] * App(e.of).wait
    /\ e.what = "syn" => /\ App(e.of).kind # "sink" /\ App(e.of).to \in Apps
                         /\ e.at = App(e.of).start + App(e.of).delay
Stamped == uid >= FirstUid /\ \A e \in queue : Stamp(e)

(* The number that StopApplication cancels is that of a send of its own.   *)
Owned ==
    \A a \in Apps :
        /\ sendEvent[a] < uid
        /\ \A e \in queue : e.uid = sendEvent[a] => e.what = "send" /\ e.of = a

(* An application has not started, runs, or was stopped. *)
Before(a) == Awaited("start", a) /\ (App(a).stop # Never => Awaited("stop", a)) /\ ~open[a]
During(a) ==
    /\ ~Awaited("start", a) /\ (App(a).stop # Never => Awaited("stop", a))
    /\ open[a] /\ App(a).start <= clock
After(a) ==
    /\ ~Awaited("start", a) /\ ~Awaited("stop", a) /\ ~open[a]
    /\ App(a).stop # Never /\ App(a).stop <= clock
Lives(a) == Before(a) \/ During(a) \/ After(a)

(* A MyApp that runs has sent its last packet at its time and has the next *)
(* one scheduled; one that was stopped has sent what it could.             *)
Paced(a) ==
    /\ running[a] = open[a]
    /\ Awaited("start", a) => sent[a] = 0
    /\ open[a] =>
          /\ sent[a] >= 1 /\ App(a).start + (sent[a] - 1) * App(a).wait <= clock
          /\ App(a).start + (sent[a] - 1) * App(a).wait < App(a).stop
          /\ sent[a] = Quota(a) \/ Awaited("send", a)
    /\ ~open[a] /\ ~Awaited("start", a) => sent[a] = Planned(a, App(a).stop - 1)

(* The SYN of a source finds its sink listening or not. *)
Listens(b, t) == App(b).start <= t /\ (App(b).stop = Never \/ t < App(b).stop)
Verdict(a) ==
    IF App(a).to = 0 \/ Listens(App(a).to, App(a).start + App(a).delay) THEN "connected" ELSE "refused"
Answered(a) == Awaited("start", a) \/ Awaited("syn", a) \/ peer[a] = Verdict(a)

Holds(a) ==
    /\ Lives(a)
    /\ App(a).kind = "myapp" => Paced(a)
    /\ App(a).kind # "sink" => Answered(a)

(* The second inductive invariant. *)
CourseInv ==
    /\ IInv /\ Stamped /\ Owned /\ \A a \in Apps : Holds(a)
    /\ over => program.end # Never /\ clock = program.end

LEMMA AppFacts ==
    ASSUME program \in Programs, NEW a \in Apps
    PROVE  /\ a \in Nat \ {0} /\ a <= Len(program.apps) /\ Len(program.apps) \in Nat
           /\ App(a).start \in Nat /\ App(a).stop \in Nat \cup {Never} /\ App(a).delay \in Nat
           /\ App(a).n \in Nat /\ App(a).wait \in Nat /\ App(a).to \in Nat
           /\ App(a).kind \in {"sink", "source", "myapp"}
           /\ App(a).stop = Never \/ App(a).start < App(a).stop
           /\ App(a).kind = "myapp" => App(a).stop # Never /\ App(a).wait > 0
           /\ App(a).kind # "sink" =>
                 /\ App(a).to \in Apps \/ (App(a).kind = "myapp" /\ App(a).to = 0)
                 /\ program.end = Never \/ App(a).start < program.end
  <1>1. a \in 1..Len(program.apps) /\ Len(program.apps) \in Nat /\ App(a) \in AppRecord
    BY ProgramFacts
  <1>2. /\ App(a).stop = Never \/ App(a).start < App(a).stop
        /\ App(a).kind = "myapp" => App(a).stop # Never /\ App(a).wait > 0
        /\ App(a).kind # "sink" =>
              /\ App(a).to \in Apps \/ (App(a).kind = "myapp" /\ App(a).to = 0)
              /\ program.end = Never \/ App(a).start < program.end
    BY SimulationAssumption DEF Apps, App
  <1>3. a \in Nat \ {0} /\ a <= Len(program.apps)
    BY <1>1
  <1>4. QED
    BY <1>1, <1>2, <1>3 DEF AppRecord

LEMMA DivFact ==
    ASSUME NEW x \in Nat, NEW w \in Nat, w > 0, NEW k \in Nat
    PROVE  /\ k * w <= x => k <= x \div w
           /\ k * w <= x /\ x < (k + 1) * w => x \div w = k
  OBVIOUS

LEMMA TimesNext ==
    ASSUME NEW s \in Nat, NEW w \in Nat, NEW k \in Nat
    PROVE  /\ s + k * w \in Nat /\ s + (k + 1) * w = (s + k * w) + w
           /\ (k + 1) - 1 = k /\ s + 0 * w = s /\ s + 1 * w = s + w
  OBVIOUS

(* What the step of one application leaves true of the others. *)
LEMMA OthersHold ==
    ASSUME CourseInv, NEW e \in queue, NEW what, Take(e, what), NEW a \in Apps, a # e.of,
           \A f : f.of = a => (f \in queue' <=> f \in queue),
           open'[a] = open[a], running'[a] = running[a], sent'[a] = sent[a], peer'[a] = peer[a]
    PROVE  Holds(a)'
  <1>1. /\ program' = program /\ Apps' = Apps /\ \A b : App(b)' = App(b) /\ Quota(b)' = Quota(b)
        /\ clock' = e.at /\ clock' \in Nat /\ clock \in Nat /\ e.at >= clock
    BY TakeFacts DEF CourseInv, IInv, TypeOK
  <1>2. \A w : Awaited(w, a)' <=> Awaited(w, a)
    BY DEF Awaited
  <1>3. /\ App(a).start \in Nat /\ App(a).stop \in Nat \cup {Never}
        /\ App(a).wait \in Nat /\ sent[a] \in Nat /\ Holds(a)
    BY AppFacts DEF CourseInv, IInv, TypeOK
  <1>4. \A t \in Nat \cup {Never} : t # Never /\ t <= clock => t <= clock'
    BY <1>1
  <1>5. Lives(a)'
    <2>1. App(a).start <= clock => App(a).start <= clock'
      BY <1>1, <1>3
    <2>2. App(a).stop # Never /\ App(a).stop <= clock => App(a).stop <= clock'
      BY <1>3, <1>4
    <2>3. QED
      BY <1>1, <1>2, <1>3, <2>1, <2>2 DEF Holds, Lives, Before, During, After
  <1>6. App(a).kind = "myapp" => Paced(a)'
    <2> SUFFICES ASSUME App(a).kind = "myapp" PROVE Paced(a)'
      OBVIOUS
    <2>1. Paced(a) /\ Planned(a, App(a).stop - 1)' = Planned(a, App(a).stop - 1)
      BY <1>1, <1>3 DEF Holds, Planned
    <2>2. ASSUME open[a] PROVE App(a).start + (sent[a] - 1) * App(a).wait <= clock'
      <3>1. sent[a] >= 1 /\ App(a).start + (sent[a] - 1) * App(a).wait <= clock
        BY <2>1, <2>2 DEF Paced
      <3>2. PICK k \in Nat : k = sent[a] - 1
        BY <1>3, <3>1
      <3>3. App(a).start + k * App(a).wait \in Nat
        BY <1>3, TimesNext
      <3>4. QED
        BY <1>1, <3>1, <3>2, <3>3
    <2>3. QED
      BY <1>1, <1>2, <2>1, <2>2 DEF Paced
  <1>7. App(a).kind # "sink" => Answered(a)'
    <2>1. Verdict(a)' = Verdict(a)
      BY <1>1 DEF Verdict, Listens
    <2>2. QED
      BY <1>2, <1>3, <2>1 DEF Holds, Answered
  <1>8. QED
    BY <1>1, <1>5, <1>6, <1>7 DEF Holds

(* The stamps, when the new events have theirs. *)
LEMMA StampsHold ==
    ASSUME CourseInv, NEW e \in queue, NEW what, Take(e, what), NEW new,
           queue' \subseteq (queue \ {e}) \cup new, uid' \in Nat, uid' >= uid,
           \A f \in new : Stamp(f)',
           \A a \in Apps : sent'[a] = sent[a] \/ \A f \in queue \ {e} : ~(f.what = "send" /\ f.of = a)
    PROVE  Stamped'
  <1>1. /\ program' = program /\ Apps' = Apps /\ \A b : App(b)' = App(b)
        /\ FirstUid' = FirstUid
    BY TakeFacts DEF CourseInv, FirstUid
  <1>2. uid' >= FirstUid
    <2>1. FirstUid \in Nat /\ uid \in Nat /\ uid >= FirstUid
      BY ProgramFacts DEF CourseInv, IInv, TypeOK, FirstUid, Stamped
    <2>2. QED
      BY <2>1
  <1>3. ASSUME NEW f \in queue \ {e} PROVE Stamp(f)'
    <2>1. Stamp(f)
      BY DEF CourseInv, Stamped
    <2>2. f.what = "send" => sent'[f.of] = sent[f.of]
      BY DEF CourseInv, IInv, Numbered
    <2>3. QED
      BY <1>1, <2>1, <2>2 DEF Stamp
  <1>4. QED
    BY <1>1, <1>2, <1>3 DEF Stamped

LEMMA OwnedHolds ==
    ASSUME CourseInv, NEW e \in queue, NEW what, Take(e, what), NEW new,
           queue' \subseteq (queue \ {e}) \cup new, uid' \in Nat, uid' >= uid, uid \in Nat,
           \A f \in new : f.uid \in Nat /\ f.uid >= uid,
           \A a \in Apps : \/ sendEvent'[a] = sendEvent[a]
                           \/ /\ sendEvent'[a] \in Nat /\ uid <= sendEvent'[a] /\ sendEvent'[a] < uid'
                              /\ \A f \in new : f.uid = sendEvent'[a] => f.what = "send" /\ f.of = a
    PROVE  Owned'
  <1>1. Apps' = Apps
    BY TakeFacts DEF CourseInv
  <1>2. \A f \in queue : f.uid \in Nat /\ f.uid < uid
    BY DEF CourseInv, IInv, TypeOK, Events
  <1>3. ASSUME NEW a \in Apps
        PROVE  /\ sendEvent'[a] < uid'
               /\ \A f \in queue' : f.uid = sendEvent'[a] => f.what = "send" /\ f.of = a
    <2>1. /\ sendEvent[a] \in Nat /\ sendEvent[a] < uid
          /\ \A f \in queue : f.uid = sendEvent[a] => f.what = "send" /\ f.of = a
      BY DEF CourseInv, IInv, TypeOK, Owned
    <2>2. CASE sendEvent'[a] = sendEvent[a]
      <3>1. \A f \in new : f.uid # sendEvent'[a]
        BY <2>1, <2>2
      <3>2. sendEvent'[a] < uid'
        BY <2>1, <2>2
      <3>3. QED
        BY <2>1, <2>2, <3>1, <3>2
    <2>3. CASE /\ sendEvent'[a] \in Nat /\ uid <= sendEvent'[a] /\ sendEvent'[a] < uid'
               /\ \A f \in new : f.uid = sendEvent'[a] => f.what = "send" /\ f.of = a
      <3>1. \A f \in queue : f.uid # sendEvent'[a]
        BY <1>2, <2>3
      <3>2. QED
        BY <2>3, <3>1
    <2>4. QED
      BY <2>2, <2>3
  <1>4. QED
    BY <1>1, <1>3 DEF Owned

(* One event of each kind is scheduled for an application at most, and     *)
(* what is taken comes before the starts and stops that still wait.        *)
LEMMA Alone ==
    ASSUME CourseInv, NEW e \in queue, NEW what, Take(e, what), NEW f \in queue
    PROVE  /\ what \in {"start", "stop", "send"} /\ f.what = what /\ f.of = e.of => f = e
           /\ what = "stop" /\ f.what = "start" /\ f.of = e.of => FALSE
           /\ what \in {"send", "syn"} /\ f.what \in {"start", "stop"} => e.at < f.at
           /\ e.at <= f.at
  <1>1. Stamp(e) /\ Stamp(f) /\ e.what = what
    BY TakeFacts DEF CourseInv, Stamped
  <1>2. /\ e.at \in Nat /\ f.at \in Nat /\ e.uid \in Nat /\ f.uid \in Nat
        /\ e.at < f.at \/ (e.at = f.at /\ e.uid <= f.uid)
    BY DEF CourseInv, IInv, TypeOK, Events, Take, First
  <1>3. e.at <= f.at
    BY <1>2
  <1>4. ASSUME what \in {"start", "stop", "send"}, f.what = what, f.of = e.of PROVE f = e
    <2>1. CASE what = "send"
      BY <1>1, <1>4, <2>1 DEF CourseInv, IInv, Sends, Numbered
    <2>2. CASE what = "start"
      BY <1>1, <1>4, <2>2 DEF Stamp
    <2>3. CASE what = "stop"
      BY <1>1, <1>4, <2>3 DEF Stamp
    <2>4. QED
      BY <1>4, <2>1, <2>2, <2>3
  <1>5. ASSUME f.what \in {"start", "stop"}
        PROVE  f.of \in Apps /\ f.uid <= 2 * Len(program.apps) + 1
    <2>1. f.of \in Apps
      BY <1>5 DEF CourseInv, IInv, Numbered
    <2>2. f.of \in Nat \ {0} /\ f.of <= Len(program.apps) /\ Len(program.apps) \in Nat
      BY <2>1, AppFacts DEF CourseInv, IInv, TypeOK
    <2>3. f.uid = 2 * f.of \/ f.uid = 2 * f.of + 1
      BY <1>1, <1>5, EventFacts DEF Stamp
    <2>4. QED
      BY <2>1, <2>2, <2>3
  <1>6. ASSUME what \in {"send", "syn"}, f.what \in {"start", "stop"} PROVE e.at < f.at
    <2>1. e.uid >= 2 * Len(program.apps) + 3 /\ Len(program.apps) \in Nat
      BY <1>1, <1>6, ProgramFacts DEF Stamp, FirstUid, CourseInv, IInv, TypeOK
    <2>2. ~(e.uid <= f.uid)
      BY <1>2, <1>5, <1>6, <2>1
    <2>3. QED
      BY <1>2, <2>2
  <1>7. ASSUME what = "stop", f.what = "start", f.of = e.of PROVE FALSE
    <2>1. e.of \in Apps
      BY <1>1, <1>7 DEF CourseInv, IInv, Numbered
    <2>2. e.at = App(e.of).stop /\ App(e.of).stop # Never /\ f.at = App(e.of).start
      BY <1>1, <1>7, EventFacts DEF Stamp
    <2>3. App(e.of).start < App(e.of).stop
      BY <2>1, <2>2, AppFacts DEF CourseInv, IInv, TypeOK
    <2>4. QED
      BY <1>2, <1>3, <2>2, <2>3
  <1>8. QED
    BY <1>3, <1>4, <1>6, <1>7

(* The start of an application, with its SYN and its second packet.        *)
LEMMA StartCourse ==
    ASSUME CourseInv, NEW e \in queue, StartApplication(e) \/ StartLibrary(e)
    PROVE  Stamped' /\ Owned' /\ (\A a \in Apps' : Holds(a)') /\ ~over'
  <1> DEFINE a == e.of
  <1>1. Take(e, "start") /\ e.what = "start" /\ ~over /\ over' = over
    BY DEF StartApplication, StartLibrary, Take
  <1>2. a \in Apps /\ program \in Programs /\ uid \in Nat /\ e.at \in Nat /\ IInv
    BY <1>1 DEF CourseInv, IInv, Numbered, TypeOK, Events
  <1>3. /\ App(a).start \in Nat /\ App(a).stop \in Nat \cup {Never} /\ App(a).delay \in Nat
        /\ App(a).n \in Nat /\ App(a).wait \in Nat /\ App(a).to \in Nat
        /\ App(a).kind \in {"sink", "source", "myapp"}
        /\ App(a).stop = Never \/ App(a).start < App(a).stop
        /\ App(a).kind = "myapp" => App(a).stop # Never /\ App(a).wait > 0
        /\ App(a).kind = "source" => App(a).to \in Apps
        /\ App(a).kind = "myapp" => App(a).to \in Apps \/ App(a).to = 0
        /\ a \in Nat
    BY <1>2, AppFacts
  <1>4. /\ program' = program /\ Apps' = Apps /\ \A b : App(b)' = App(b) /\ Quota(b)' = Quota(b)
        /\ FirstUid' = FirstUid /\ clock' = e.at
    BY <1>1, <1>2, TakeFacts DEF FirstUid
  <1>5. e.at = App(a).start
    <2>1. e = Event(App(a).start, 2 * a, "start", a)
      BY <1>1 DEF CourseInv, Stamped, Stamp
    <2>2. QED
      BY <2>1, EventFacts
  <1>6. PICK syn, next :
           /\ queue' = (queue \ {e}) \cup (syn \cup next) /\ uid' = uid + 2
           /\ syn = IF App(a).kind # "sink" /\ (App(a).kind = "source" \/ App(a).to # 0)
                    THEN {Event(e.at + App(a).delay, uid, "syn", a)} ELSE {}
           /\ next = IF App(a).kind = "myapp" /\ 1 < App(a).n
                     THEN {Event(e.at + App(a).wait, uid + 1, "send", a)} ELSE {}
           /\ App(a).kind = "myapp" => sendEvent' = [sendEvent EXCEPT ![a] = IF next = {} THEN @ ELSE uid + 1]
    <2>1. CASE StartApplication(e)
      <3> DEFINE syn == IF App(a).to = 0 THEN {} ELSE {Event(e.at + App(a).delay, uid, "syn", a)}
                 next == IF Due(a, 0, TRUE) THEN {Event(e.at + App(a).wait, uid + 1, "send", a)} ELSE {}
      <3>1. /\ App(a).kind = "myapp" /\ Schedule(e, syn \cup next)
            /\ sendEvent' = [sendEvent EXCEPT ![a] = IF next = {} THEN @ ELSE uid + 1]
        BY <2>1 DEF StartApplication
      <3>2. Due(a, 0, TRUE) <=> 1 < App(a).n
        BY <1>3 DEF Due
      <3>3. syn = IF App(a).kind # "sink" /\ (App(a).kind = "source" \/ App(a).to # 0)
                  THEN {Event(e.at + App(a).delay, uid, "syn", a)} ELSE {}
        BY <3>1
      <3>4. next = IF App(a).kind = "myapp" /\ 1 < App(a).n
                   THEN {Event(e.at + App(a).wait, uid + 1, "send", a)} ELSE {}
        BY <3>1, <3>2
      <3> HIDE DEF syn, next
      <3>5. QED
        BY <3>1, <3>3, <3>4 DEF Schedule
    <2>2. CASE StartLibrary(e)
      <3> DEFINE syn == IF App(a).kind = "source"
                        THEN {Event(e.at + App(a).delay, uid, "syn", a)} ELSE {}
                 next == {}
      <3>1. App(a).kind # "myapp" /\ Schedule(e, syn)
        BY <2>2 DEF StartLibrary
      <3>2. /\ syn = IF App(a).kind # "sink" /\ (App(a).kind = "source" \/ App(a).to # 0)
                     THEN {Event(e.at + App(a).delay, uid, "syn", a)} ELSE {}
            /\ next = IF App(a).kind = "myapp" /\ 1 < App(a).n
                      THEN {Event(e.at + App(a).wait, uid + 1, "send", a)} ELSE {}
            /\ syn \cup next = syn
        BY <1>3, <3>1
      <3> HIDE DEF syn, next
      <3>3. QED
        BY <3>1, <3>2 DEF Schedule
    <2>3. QED
      BY <2>1, <2>2
  <1>7. /\ open' = [open EXCEPT ![a] = TRUE]
        /\ App(a).kind = "myapp" =>
              /\ running' = [running EXCEPT ![a] = TRUE] /\ sent' = [sent EXCEPT ![a] = 1]
              /\ peer' = [peer EXCEPT ![a] = IF App(a).to = 0 THEN "connected" ELSE "connecting"]
        /\ App(a).kind # "myapp" =>
              /\ running' = running /\ sent' = sent /\ sendEvent' = sendEvent
              /\ peer' = peer \/ peer' = [peer EXCEPT ![a] = "connecting"]
    BY DEF StartApplication, StartLibrary
  <1>8. /\ open'[a] = TRUE
        /\ App(a).kind = "myapp" => running'[a] = TRUE /\ sent'[a] = 1
        /\ App(a).kind = "myapp" /\ App(a).to = 0 => peer'[a] = "connected"
        /\ \A b \in Apps \ {a} : /\ open'[b] = open[b] /\ running'[b] = running[b] /\ sent'[b] = sent[b]
                                 /\ peer'[b] = peer[b] /\ sendEvent'[b] = sendEvent[b]
        /\ sendEvent'[a] = sendEvent[a] \/ (next # {} /\ sendEvent'[a] = uid + 1)
    BY <1>2, <1>6, <1>7 DEF IInv, TypeOK
  <1>9. \A f \in syn : /\ f.uid = uid /\ f.what = "syn" /\ f.of = a
                       /\ f.at = App(a).start + App(a).delay /\ App(a).to \in Apps /\ App(a).kind # "sink"
    BY <1>3, <1>5, <1>6, EventFacts
  <1>10. \A f \in next : /\ f.uid = uid + 1 /\ f.what = "send" /\ f.of = a
                         /\ f.at = App(a).start + App(a).wait /\ App(a).kind = "myapp"
    BY <1>5, <1>6, EventFacts
  <1>11. Before(a)
    <2>1. Awaited("start", a) /\ Lives(a)
      BY <1>1, <1>2 DEF Awaited, CourseInv, Holds
    <2>2. QED
      BY <2>1 DEF Lives, During, After
  <1>12. Stamped'
    <2>1. uid + 1 \in Nat /\ uid >= FirstUid /\ FirstUid \in Nat /\ uid + 1 >= FirstUid /\ uid' \in Nat /\ uid' >= uid
      <3>1. uid >= FirstUid /\ FirstUid \in Nat
        BY <1>2, ProgramFacts DEF CourseInv, Stamped, FirstUid
      <3>2. QED
        BY <1>2, <1>6, <3>1
    <2>2. ASSUME NEW f \in syn PROVE Stamp(f)'
      BY <1>4, <1>9, <2>1, <2>2 DEF Stamp
    <2>3. ASSUME NEW f \in next PROVE Stamp(f)'
      <3>1. sent'[a] = 1 /\ App(a).start + 1 * App(a).wait = App(a).start + App(a).wait
        BY <1>3, <1>8, <1>10, TimesNext
      <3>2. QED
        BY <1>4, <1>10, <2>1, <3>1 DEF Stamp
    <2>4. \A f \in queue \ {e} : ~(f.what = "send" /\ f.of = a)
      BY <1>1, <1>2 DEF IInv, StartsOnce
    <2>5. \A b \in Apps : sent'[b] = sent[b] \/ \A f \in queue \ {e} : ~(f.what = "send" /\ f.of = b)
      BY <1>8, <2>4
    <2>6. \A f \in syn \cup next : Stamp(f)'
      BY <2>2, <2>3
    <2>7. queue' \subseteq (queue \ {e}) \cup (syn \cup next) /\ Take(e, "start")
      BY <1>1, <1>6
    <2> DEFINE new == syn \cup next
    <2> HIDE DEF new
    <2>8. /\ \A f \in new : Stamp(f)'
          /\ queue' \subseteq (queue \ {e}) \cup new
      BY <2>6, <2>7 DEF new
    <2>9. QED
      BY <2>1, <2>5, <2>7, <2>8, StampsHold
  <1>13. Owned'
    <2>1. \A f \in syn \cup next : f.uid \in Nat /\ f.uid >= uid /\ (f.uid = uid + 1 => f.what = "send" /\ f.of = a)
      <3>1. uid + 1 \in Nat /\ uid + 1 >= uid /\ uid >= uid /\ uid # uid + 1
        BY <1>2
      <3>2. QED
        BY <1>2, <1>9, <1>10, <3>1
    <2>2. uid' \in Nat /\ uid' >= uid /\ uid + 1 < uid' /\ uid <= uid + 1 /\ uid + 1 \in Nat
      BY <1>2, <1>6
    <2>3. \A b \in Apps : \/ sendEvent'[b] = sendEvent[b]
                          \/ /\ sendEvent'[b] \in Nat /\ uid <= sendEvent'[b] /\ sendEvent'[b] < uid'
                             /\ \A f \in syn \cup next : f.uid = sendEvent'[b] => f.what = "send" /\ f.of = b
      BY <1>8, <2>1, <2>2
    <2>4. Take(e, "start") /\ queue' \subseteq (queue \ {e}) \cup (syn \cup next) /\ uid \in Nat
      BY <1>1, <1>2, <1>6
    <2> DEFINE new == syn \cup next
    <2> HIDE DEF new
    <2>5. /\ queue' \subseteq (queue \ {e}) \cup new
          /\ \A f \in new : f.uid \in Nat /\ f.uid >= uid
      BY <2>1, <2>4 DEF new
    <2>6. \A b \in Apps : \/ sendEvent'[b] = sendEvent[b]
                          \/ /\ sendEvent'[b] \in Nat /\ uid <= sendEvent'[b] /\ sendEvent'[b] < uid'
                             /\ \A f \in new : f.uid = sendEvent'[b] => f.what = "send" /\ f.of = b
      BY <2>3 DEF new
    <2>7. QED
      BY <2>2, <2>4, <2>5, <2>6, OwnedHolds
  <1>14. Holds(a)'
    <2>1. ~Awaited("start", a)'
      BY <1>1, <1>6, <1>9, <1>10, Alone DEF Awaited
    <2>2. App(a).stop # Never => Awaited("stop", a)'
      BY <1>1, <1>6, <1>11 DEF Before, Awaited
    <2>3. Lives(a)'
      <3>1. App(a).start <= clock'
        BY <1>3, <1>4, <1>5
      <3>2. QED
        BY <1>4, <1>8, <2>1, <2>2, <3>1 DEF Lives, During
    <2>4. ASSUME App(a).kind = "myapp" PROVE Paced(a)'
      <3>1. sent'[a] = 1 /\ running'[a] = TRUE
        BY <1>8, <2>4
      <3>2. App(a).start + (1 - 1) * App(a).wait = App(a).start
        BY <1>3
      <3>3. App(a).start <= clock' /\ App(a).start < App(a).stop /\ 1 >= 1
        BY <1>3, <1>4, <1>5, <2>4
      <3>4. 1 = Quota(a) \/ Awaited("send", a)'
        <4>1. CASE 1 < App(a).n
          <5>1. Event(e.at + App(a).wait, uid + 1, "send", a) \in queue'
            BY <1>6, <2>4, <4>1
          <5>2. QED
            BY <5>1, EventFacts DEF Awaited
        <4>2. CASE ~(1 < App(a).n)
          BY <1>3, <4>2 DEF Quota
        <4>3. QED
          BY <4>1, <4>2
      <3>5. QED
        BY <1>4, <1>8, <2>1, <3>1, <3>2, <3>3, <3>4 DEF Paced
    <2>5. ASSUME App(a).kind # "sink" PROVE Answered(a)'
      <3>1. CASE App(a).kind = "myapp" /\ App(a).to = 0
        BY <1>4, <1>8, <3>1 DEF Answered, Verdict
      <3>2. CASE ~(App(a).kind = "myapp" /\ App(a).to = 0)
        <4>1. Event(e.at + App(a).delay, uid, "syn", a) \in queue'
          BY <1>3, <1>6, <2>5, <3>2
        <4>2. QED
          BY <4>1, EventFacts DEF Answered, Awaited
      <3>3. QED
        BY <3>1, <3>2
    <2>6. QED
      BY <1>4, <2>3, <2>4, <2>5 DEF Holds
  <1>15. ASSUME NEW b \in Apps, b # a PROVE Holds(b)'
    <2>1. \A f : f.of = b => (f \in queue' <=> f \in queue)
      BY <1>6, <1>9, <1>10, <1>15
    <2>2. QED
      BY <1>1, <1>8, <1>15, <2>1, OthersHold
  <1>16. QED
    BY <1>1, <1>4, <1>12, <1>13, <1>14, <1>15

(* A packet that is sent keeps the pace: it goes out before the stop, and  *)
(* the next one is scheduled one wait later.                               *)
LEMMA SendCourse ==
    ASSUME CourseInv, NEW e \in queue, SendPacket(e)
    PROVE  Stamped' /\ Owned' /\ (\A a \in Apps' : Holds(a)') /\ ~over'
  <1> DEFINE a == e.of
             next == IF Due(a, sent[a], running[a])
                     THEN {Event(e.at + App(a).wait, uid + 1, "send", a)} ELSE {}
  <1>1. Take(e, "send") /\ e.what = "send" /\ ~over /\ over' = over
    BY DEF SendPacket, Take
  <1>2. a \in Apps /\ program \in Programs /\ uid \in Nat /\ e.at \in Nat /\ IInv
    BY <1>1 DEF CourseInv, IInv, Numbered, TypeOK, Events
  <1>3. /\ App(a).start \in Nat /\ App(a).stop \in Nat \cup {Never} /\ App(a).n \in Nat
        /\ App(a).wait \in Nat /\ sent[a] \in Nat /\ sent[a] < App(a).n
        /\ App(a).kind = "myapp" /\ running[a] /\ App(a).stop # Never
        /\ e.at = App(a).start + sent[a] * App(a).wait
    BY <1>1, <1>2, AppFacts DEF CourseInv, Stamped, Stamp, IInv, TypeOK, Sends
  <1>4. /\ program' = program /\ Apps' = Apps /\ \A b : App(b)' = App(b) /\ Quota(b)' = Quota(b)
        /\ FirstUid' = FirstUid /\ clock' = e.at
    BY <1>1, <1>2, TakeFacts DEF FirstUid
  <1>5. /\ queue' = (queue \ {e}) \cup next /\ uid' = uid + 2
        /\ sent' = [sent EXCEPT ![a] = @ + 1]
        /\ sendEvent' = [sendEvent EXCEPT ![a] = IF next = {} THEN @ ELSE uid + 1]
        /\ running' = running /\ peer' = peer /\ open' = open
    BY DEF SendPacket, Schedule, CourseInv, IInv, TypeOK
  <1>6. /\ sent'[a] = sent[a] + 1
        /\ \A b \in Apps \ {a} : sent'[b] = sent[b] /\ sendEvent'[b] = sendEvent[b]
        /\ sendEvent'[a] = sendEvent[a] \/ (next # {} /\ sendEvent'[a] = uid + 1)
    BY <1>2, <1>5 DEF IInv, TypeOK
  <1>7. \A f \in next : /\ f.uid = uid + 1 /\ f.what = "send" /\ f.of = a
                        /\ f.at = e.at + App(a).wait
    BY EventFacts
  <1>8. Paced(a) /\ open[a] /\ During(a) /\ Awaited("stop", a)
    <2>1. Paced(a) /\ open[a] /\ Lives(a)
      BY <1>2, <1>3 DEF CourseInv, Holds, Paced
    <2>2. During(a)
      BY <2>1 DEF Lives, Before, After
    <2>3. QED
      BY <1>3, <2>1, <2>2 DEF During
  <1>9. next # {} <=> sent[a] + 1 < App(a).n
    BY <1>3 DEF Due
  <1>10. next # {} => Event(e.at + App(a).wait, uid + 1, "send", a) \in next
    OBVIOUS
  <1> HIDE DEF next
  <1>11. Stamped'
    <2>1. uid + 1 \in Nat /\ uid + 1 >= FirstUid /\ uid' \in Nat /\ uid' >= uid
      <3>1. uid >= FirstUid /\ FirstUid \in Nat
        BY <1>2, ProgramFacts DEF CourseInv, Stamped, FirstUid
      <3>2. QED
        BY <1>2, <1>5, <3>1
    <2>2. ASSUME NEW f \in next PROVE Stamp(f)'
      <3>1. f.at = App(a).start + (sent[a] + 1) * App(a).wait
        <4>1. App(a).start + (sent[a] + 1) * App(a).wait = (App(a).start + sent[a] * App(a).wait) + App(a).wait
          <5>1. PICK s \in Nat, w \in Nat, k \in Nat : s = App(a).start /\ w = App(a).wait /\ k = sent[a]
            BY <1>3
          <5>2. s + (k + 1) * w = (s + k * w) + w
            BY TimesNext
          <5>3. QED
            BY <5>1, <5>2
        <4>2. QED
          BY <1>3, <1>7, <4>1
      <3>2. QED
        BY <1>3, <1>4, <1>6, <1>7, <2>1, <3>1 DEF Stamp
    <2>3. \A f \in queue \ {e} : ~(f.what = "send" /\ f.of = a)
      BY <1>1, Alone
    <2>4. \A b \in Apps : sent'[b] = sent[b] \/ \A f \in queue \ {e} : ~(f.what = "send" /\ f.of = b)
      BY <1>6, <2>3
    <2>5. QED
      BY <1>1, <1>5, <2>1, <2>2, <2>4, StampsHold
  <1>12. Owned'
    <2>1. uid + 1 \in Nat /\ uid + 1 >= uid /\ uid' \in Nat /\ uid' >= uid /\ uid + 1 < uid' /\ uid <= uid + 1
      BY <1>2, <1>5
    <2>2. \A f \in next : f.uid \in Nat /\ f.uid >= uid
      BY <1>7, <2>1
    <2>3. \A b \in Apps : \/ sendEvent'[b] = sendEvent[b]
                          \/ /\ sendEvent'[b] \in Nat /\ uid <= sendEvent'[b] /\ sendEvent'[b] < uid'
                             /\ \A f \in next : f.uid = sendEvent'[b] => f.what = "send" /\ f.of = b
      BY <1>6, <1>7, <2>1
    <2>4. QED
      BY <1>1, <1>2, <1>5, <2>1, <2>2, <2>3, OwnedHolds
  <1>13. Holds(a)'
    <2>1. \A w : w # "send" => (Awaited(w, a)' <=> Awaited(w, a))
      BY <1>1, <1>5, <1>7 DEF Awaited
    <2>2. /\ ~Awaited("start", a)' /\ Awaited("stop", a)' /\ open'[a]
      BY <1>5, <1>8, <2>1 DEF During
    <2>3. App(a).start <= clock'
      <3>1. App(a).start <= App(a).start + sent[a] * App(a).wait
        <4>1. sent[a] * App(a).wait \in Nat
          BY <1>3
        <4>2. QED
          BY <1>3, <4>1
      <3>2. QED
        BY <1>3, <1>4, <3>1
    <2>4. Lives(a)'
      BY <1>4, <2>2, <2>3 DEF Lives, During
    <2>5. e.at < App(a).stop
      <3>1. PICK f \in queue : f.what = "stop" /\ f.of = a
        BY <1>8 DEF Awaited
      <3>2. f.at = App(a).stop
        <4>1. f = Event(App(a).stop, 2 * a + 1, "stop", a)
          BY <3>1 DEF CourseInv, Stamped, Stamp
        <4>2. QED
          BY <4>1, EventFacts
      <3>3. QED
        BY <1>1, <3>1, <3>2, Alone
    <2>6. Paced(a)'
      <3>1. PICK k \in Nat : k = sent[a]
        BY <1>3
      <3>2. sent'[a] = k + 1 /\ (k + 1) - 1 = k /\ k + 1 >= 1
        BY <1>6, <3>1
      <3>3. /\ App(a).start + ((k + 1) - 1) * App(a).wait <= clock'
            /\ App(a).start + ((k + 1) - 1) * App(a).wait < App(a).stop
        <4>1. App(a).start + ((k + 1) - 1) * App(a).wait = e.at
          BY <1>3, <3>1, <3>2
        <4>2. e.at <= clock'
          BY <1>2, <1>4
        <4>3. QED
          BY <2>5, <4>1, <4>2
      <3>4. k + 1 = Quota(a) \/ Awaited("send", a)'
        <4>1. CASE next = {}
          <5>1. PICK n \in Nat : n = App(a).n
            BY <1>3
          <5>2. k < n /\ ~(k + 1 < n)
            BY <1>3, <1>9, <3>1, <4>1, <5>1
          <5>3. k + 1 = n /\ n # 0
            BY <5>2
          <5>4. QED
            BY <5>1, <5>3 DEF Quota
        <4>2. CASE next # {}
          <5>1. Event(e.at + App(a).wait, uid + 1, "send", a) \in queue'
            BY <1>5, <1>10, <4>2
          <5>2. QED
            BY <5>1, EventFacts DEF Awaited
        <4>3. QED
          BY <4>1, <4>2
      <3>5. running'[a] = open'[a]
        BY <1>5, <1>8 DEF Paced
      <3>6. QED
        BY <1>4, <2>2, <3>2, <3>3, <3>4, <3>5 DEF Paced
    <2>7. Answered(a)'
      <3>1. Answered(a)
        BY <1>2, <1>3 DEF CourseInv, Holds
      <3>2. Verdict(a)' = Verdict(a)
        BY <1>4 DEF Verdict, Listens
      <3>3. QED
        BY <1>5, <2>1, <3>1, <3>2 DEF Answered
    <2>8. QED
      BY <2>4, <2>6, <2>7 DEF Holds
  <1>14. ASSUME NEW b \in Apps, b # a PROVE Holds(b)'
    <2>1. \A f : f.of = b => (f \in queue' <=> f \in queue)
      BY <1>5, <1>7, <1>14
    <2>2. QED
      BY <1>1, <1>5, <1>6, <1>14, <2>1, OthersHold
  <1>15. QED
    BY <1>1, <1>4, <1>11, <1>12, <1>13, <1>14

(* What a MyApp has sent when it is stopped is what it could send.         *)
LEMMA StoppedInPace ==
    ASSUME CourseInv, NEW e \in queue, StopApplication(e)
    PROVE  sent[e.of] = Planned(e.of, App(e.of).stop - 1)
  <1> DEFINE a == e.of
  <1>1. Take(e, "stop") /\ e.what = "stop" /\ App(a).kind = "myapp"
    BY DEF StopApplication, Take
  <1>2. a \in Apps /\ program \in Programs /\ IInv
    BY <1>1 DEF CourseInv, IInv, Numbered, TypeOK
  <1>3. PICK s \in Nat, t \in Nat, w \in Nat :
           s = App(a).start /\ t = App(a).stop /\ w = App(a).wait /\ s < t /\ w > 0
    BY <1>1, <1>2, AppFacts
  <1>4. e.at = t
    <2>1. e = Event(App(a).stop, 2 * a + 1, "stop", a)
      BY <1>1 DEF CourseInv, Stamped, Stamp
    <2>2. QED
      BY <1>3, <2>1, EventFacts
  <1>5. open[a] /\ Paced(a) /\ App(a).n \in Nat
    <2>1. Lives(a) /\ Paced(a) /\ Awaited("stop", a) /\ ~Awaited("start", a)
      BY <1>1, <1>2, Alone DEF CourseInv, Holds, Awaited
    <2>2. QED
      BY <1>2, <2>1, AppFacts DEF Lives, Before, During, After
  <1>6. PICK k \in Nat : k = sent[a] - 1 /\ sent[a] = k + 1
    BY <1>2, <1>5 DEF IInv, TypeOK, Paced
  <1>7. s + k * w < t /\ k + 1 <= Quota(a) /\ Quota(a) \in Nat
    <2>1. s + k * w < t
      BY <1>3, <1>5, <1>6 DEF Paced
    <2>2. sent[a] <= Quota(a)
      BY <1>2 DEF IInv, TypeOK
    <2>3. QED
      BY <1>5, <1>6, <2>1, <2>2 DEF Quota
  <1>8. k + 1 = Quota(a) \/ t <= s + (k + 1) * w
    <2>1. CASE Awaited("send", a)
      <3>1. PICK f \in queue : f.what = "send" /\ f.of = a
        BY <2>1 DEF Awaited
      <3>2. f.at = s + (k + 1) * w
        BY <1>3, <1>6, <3>1 DEF CourseInv, Stamped, Stamp
      <3>3. QED
        BY <1>1, <1>4, <3>2, Alone
    <2>2. QED
      BY <1>5, <1>6, <2>1 DEF Paced
  <1>9. PICK x \in Nat : x = (t - 1) - s
    BY <1>3
  <1>10. Least(1 + x \div w, Quota(a)) = k + 1
    <2>1. k * w \in Nat /\ (k + 1) * w \in Nat
      OBVIOUS
    <2>2. k * w <= x /\ (t <= s + (k + 1) * w => x < (k + 1) * w)
      BY <1>3, <1>7, <1>9, <2>1
    <2>3. PICK q \in Nat : q = Quota(a)
      BY <1>7
    <2>4. k + 1 = q \/ (k + 1 <= q /\ x < (k + 1) * w)
      BY <1>7, <1>8, <2>2, <2>3
    <2>5. PICK d \in Nat : d = x \div w
      BY <1>3
    <2>6. k <= d /\ (x < (k + 1) * w => d = k)
      BY <1>3, <2>2, <2>5, DivFact
    <2>7. Least(1 + d, q) = k + 1
      BY <2>4, <2>6 DEF Least
    <2>8. QED
      BY <2>3, <2>5, <2>7
  <1>11. ~(t - 1 < s) /\ Least(t - 1, t - 1) = t - 1
    BY <1>3 DEF Least
  <1>12. QED
    BY <1>3, <1>6, <1>9, <1>10, <1>11 DEF Planned

(* An application stops. *)
LEMMA StopCourse ==
    ASSUME CourseInv, NEW e \in queue, StopApplication(e) \/ StopLibrary(e)
    PROVE  Stamped' /\ Owned' /\ (\A a \in Apps' : Holds(a)') /\ ~over'
  <1> DEFINE a == e.of
  <1>1. Take(e, "stop") /\ e.what = "stop" /\ ~over /\ over' = over
    BY DEF StopApplication, StopLibrary, Take
  <1>2. a \in Apps /\ program \in Programs /\ uid \in Nat /\ e.at \in Nat /\ IInv
    BY <1>1 DEF CourseInv, IInv, Numbered, TypeOK, Events
  <1>3. /\ program' = program /\ Apps' = Apps /\ \A b : App(b)' = App(b) /\ Quota(b)' = Quota(b)
        /\ clock' = e.at
    BY <1>1, <1>2, TakeFacts
  <1>4. e.at = App(a).stop /\ App(a).stop # Never
    <2>1. e = Event(App(a).stop, 2 * a + 1, "stop", a) /\ App(a).stop # Never
      BY <1>1 DEF CourseInv, Stamped, Stamp
    <2>2. QED
      BY <2>1, EventFacts
  <1>5. /\ queue' \subseteq queue \ {e} /\ uid' \in Nat /\ uid' >= uid
        /\ \A f \in queue \ {e} : f \notin queue' => f.what = "send" /\ f.of = a
    <2>1. CASE StopApplication(e)
      <3>1. queue' = {f \in queue : f # e /\ f.uid # sendEvent[a]} /\ uid' = uid
        BY <2>1 DEF StopApplication
      <3>2. \A f \in queue : f.uid = sendEvent[a] => f.what = "send" /\ f.of = a
        BY <1>2 DEF CourseInv, Owned
      <3>3. uid >= uid
        BY <1>2
      <3>4. QED
        BY <1>2, <3>1, <3>2, <3>3
    <2>2. CASE StopLibrary(e)
      <3>1. queue' = queue \ {e} /\ uid' = uid + 2
        BY <2>2 DEF StopLibrary, Schedule
      <3>2. uid' \in Nat /\ uid' >= uid
        BY <1>2, <3>1
      <3>3. QED
        BY <3>1, <3>2
    <2>3. QED
      BY <2>1, <2>2
  <1>6. /\ open' = [open EXCEPT ![a] = FALSE] /\ sent' = sent /\ sendEvent' = sendEvent /\ peer' = peer
        /\ App(a).kind = "myapp" => running' = [running EXCEPT ![a] = FALSE]
        /\ App(a).kind # "myapp" => running' = running
    BY DEF StopApplication, StopLibrary
  <1>7. /\ ~open'[a] /\ (App(a).kind = "myapp" => ~running'[a])
        /\ \A b \in Apps \ {a} : open'[b] = open[b] /\ running'[b] = running[b]
    BY <1>2, <1>6 DEF IInv, TypeOK
  <1>8. Stamped' /\ Owned'
    <2> DEFINE new == {}
    <2>1. queue' \subseteq (queue \ {e}) \cup new /\ \A f \in new : FALSE
      BY <1>5
    <2> HIDE DEF new
    <2>2. /\ Take(e, "stop") /\ uid \in Nat /\ uid' \in Nat /\ uid' >= uid
          /\ sent' = sent /\ sendEvent' = sendEvent
      BY <1>1, <1>2, <1>5, <1>6
    <2>3. Stamped'
      BY <2>1, <2>2, StampsHold
    <2>4. Owned'
      BY <2>1, <2>2, OwnedHolds
    <2>5. QED
      BY <2>3, <2>4
  <1>9. Holds(a)'
    <2>1. /\ ~Awaited("start", a)' /\ ~Awaited("stop", a)'
          /\ Awaited("syn", a)' <=> Awaited("syn", a)
      BY <1>1, <1>5, Alone DEF Awaited
    <2>2. Lives(a)'
      <3>1. App(a).stop <= clock'
        BY <1>2, <1>3, <1>4
      <3>2. QED
        BY <1>3, <1>4, <1>7, <2>1, <3>1 DEF Lives, After
    <2>3. ASSUME App(a).kind = "myapp" PROVE Paced(a)'
      <3>1. StopApplication(e)
        BY <2>3 DEF StopLibrary
      <3>2. sent[a] = Planned(a, App(a).stop - 1)
        BY <3>1, StoppedInPace
      <3>3. Planned(a, App(a).stop - 1)' = Planned(a, App(a).stop - 1)
        BY <1>3 DEF Planned
      <3>4. ~running'[a] /\ running' \in [Apps -> BOOLEAN] /\ open' \in [Apps -> BOOLEAN]
        BY <1>2, <1>6, <1>7, <2>3 DEF IInv, TypeOK
      <3>5. running'[a] = open'[a]
        BY <1>2, <1>7, <3>4
      <3>6. QED
        BY <1>3, <1>6, <1>7, <2>1, <3>2, <3>3, <3>5 DEF Paced
    <2>4. ASSUME App(a).kind # "sink" PROVE Answered(a)'
      <3>1. Answered(a) /\ ~Awaited("start", a)
        BY <1>1, <1>2, <2>4, Alone DEF CourseInv, Holds, Awaited
      <3>2. Verdict(a)' = Verdict(a)
        BY <1>3 DEF Verdict, Listens
      <3>3. QED
        BY <1>6, <2>1, <3>1, <3>2 DEF Answered
    <2>5. QED
      BY <1>3, <2>2, <2>3, <2>4 DEF Holds
  <1>10. ASSUME NEW b \in Apps, b # a PROVE Holds(b)'
    <2>1. \A f : f.of = b => (f \in queue' <=> f \in queue)
      BY <1>5, <1>10
    <2>2. QED
      BY <1>1, <1>6, <1>7, <1>10, <2>1, OthersHold
  <1>11. QED
    BY <1>1, <1>3, <1>8, <1>9, <1>10

(* A SYN finds the sink as its own times say: starts and stops of the same *)
(* instant come before it.                                                 *)
LEMMA SynCourse ==
    ASSUME CourseInv, NEW e \in queue, Syn(e)
    PROVE  Stamped' /\ Owned' /\ (\A a \in Apps' : Holds(a)') /\ ~over'
  <1> DEFINE a == e.of
             b == App(a).to
  <1>1. Take(e, "syn") /\ e.what = "syn" /\ ~over /\ over' = over
    BY DEF Syn, Take
  <1>2. a \in Apps /\ program \in Programs /\ uid \in Nat /\ e.at \in Nat /\ IInv
    BY <1>1 DEF CourseInv, IInv, Numbered, TypeOK, Events
  <1>3. /\ program' = program /\ Apps' = Apps /\ \A d : App(d)' = App(d) /\ Quota(d)' = Quota(d)
        /\ clock' = e.at
    BY <1>1, <1>2, TakeFacts
  <1>4. /\ queue' = queue \ {e} /\ uid' = uid + 2
        /\ peer' = [peer EXCEPT ![a] = IF open[b] THEN "connected" ELSE "refused"]
        /\ running' = running /\ sent' = sent /\ sendEvent' = sendEvent /\ open' = open
    BY DEF Syn, Schedule
  <1>5. b \in Apps /\ e.at = App(a).start + App(a).delay /\ b # 0
    <2>1. b \in Apps /\ e.at = App(a).start + App(a).delay
      BY <1>1 DEF CourseInv, Stamped, Stamp
    <2>2. QED
      BY <1>2, <2>1, AppFacts
  <1>6. open[b] <=> Listens(b, e.at)
    <2>1. /\ App(b).start \in Nat /\ App(b).stop \in Nat \cup {Never} /\ Lives(b)
          /\ clock \in Nat /\ clock <= e.at
      BY <1>2, <1>5, AppFacts DEF CourseInv, Holds, IInv, TypeOK
    <2>2. ASSUME Awaited("start", b) PROVE e.at < App(b).start
      <3>1. PICK f \in queue : f.what = "start" /\ f.of = b
        BY <2>2 DEF Awaited
      <3>2. f = Event(App(b).start, 2 * b, "start", b)
        BY <3>1 DEF CourseInv, Stamped, Stamp
      <3>3. QED
        BY <1>1, <3>1, <3>2, EventFacts, Alone
    <2>3. ASSUME Awaited("stop", b) PROVE e.at < App(b).stop
      <3>1. PICK f \in queue : f.what = "stop" /\ f.of = b
        BY <2>3 DEF Awaited
      <3>2. f = Event(App(b).stop, 2 * b + 1, "stop", b)
        BY <3>1 DEF CourseInv, Stamped, Stamp
      <3>3. QED
        BY <1>1, <3>1, <3>2, EventFacts, Alone
    <2>4. CASE Before(b)
      <3>1. ~(App(b).start <= e.at)
        BY <1>2, <2>1, <2>2, <2>4 DEF Before
      <3>2. QED
        BY <2>4, <3>1 DEF Before, Listens
    <2>5. CASE During(b)
      <3>1. App(b).start <= e.at
        BY <1>2, <2>1, <2>5 DEF During
      <3>2. QED
        BY <2>3, <2>5, <3>1 DEF During, Listens
    <2>6. CASE After(b)
      <3>1. App(b).stop # Never /\ ~(e.at < App(b).stop)
        BY <1>2, <2>1, <2>6 DEF After
      <3>2. QED
        BY <2>6, <3>1 DEF After, Listens
    <2>7. QED
      BY <2>1, <2>4, <2>5, <2>6 DEF Lives
  <1>7. peer'[a] = Verdict(a) /\ \A d \in Apps \ {a} : peer'[d] = peer[d]
    BY <1>2, <1>4, <1>5, <1>6 DEF Verdict, IInv, TypeOK
  <1>8. Stamped' /\ Owned'
    <2> DEFINE new == {}
    <2>1. queue' \subseteq (queue \ {e}) \cup new /\ \A f \in new : FALSE
      BY <1>4
    <2> HIDE DEF new
    <2>2. /\ Take(e, "syn") /\ uid \in Nat /\ uid' \in Nat /\ uid' >= uid
          /\ sent' = sent /\ sendEvent' = sendEvent
      BY <1>1, <1>2, <1>4
    <2>3. Stamped'
      BY <2>1, <2>2, StampsHold
    <2>4. Owned'
      BY <2>1, <2>2, OwnedHolds
    <2>5. QED
      BY <2>3, <2>4
  <1>9. Holds(a)'
    <2>1. \A w : w # "syn" => (Awaited(w, a)' <=> Awaited(w, a))
      BY <1>1, <1>4 DEF Awaited
    <2>2. Holds(a) /\ clock \in Nat /\ clock <= clock' /\ clock' \in Nat
      BY <1>2, <1>3 DEF CourseInv, IInv, TypeOK
    <2>3. /\ App(a).start \in Nat /\ App(a).stop \in Nat \cup {Never} /\ App(a).wait \in Nat /\ sent[a] \in Nat
      BY <1>2, AppFacts DEF IInv, TypeOK
    <2>4. Lives(a)'
      <3>1. /\ App(a).start <= clock => App(a).start <= clock'
            /\ App(a).stop # Never /\ App(a).stop <= clock => App(a).stop <= clock'
        BY <2>2, <2>3
      <3>2. QED
        BY <1>3, <1>4, <2>1, <2>2, <3>1 DEF Holds, Lives, Before, During, After
    <2>5. ASSUME App(a).kind = "myapp" PROVE Paced(a)'
      <3>1. Paced(a) /\ Planned(a, App(a).stop - 1)' = Planned(a, App(a).stop - 1)
        BY <1>3, <2>2, <2>5 DEF Holds, Planned
      <3>2. ASSUME open[a] PROVE App(a).start + (sent[a] - 1) * App(a).wait <= clock'
        <4>1. sent[a] >= 1 /\ App(a).start + (sent[a] - 1) * App(a).wait <= clock
          BY <3>1, <3>2 DEF Paced
        <4>2. PICK k \in Nat : k = sent[a] - 1
          BY <2>3, <4>1
        <4>3. App(a).start + k * App(a).wait \in Nat
          BY <2>3, TimesNext
        <4>4. QED
          BY <2>2, <4>1, <4>2, <4>3
      <3>3. QED
        BY <1>3, <1>4, <2>1, <3>1, <3>2 DEF Paced
    <2>6. Answered(a)'
      <3>1. Verdict(a)' = Verdict(a)
        BY <1>3 DEF Verdict, Listens
      <3>2. QED
        BY <1>7, <3>1 DEF Answered
    <2>7. QED
      BY <1>3, <2>4, <2>5, <2>6 DEF Holds
  <1>10. ASSUME NEW d \in Apps, d # a PROVE Holds(d)'
    <2>1. \A f : f.of = d => (f \in queue' <=> f \in queue)
      BY <1>4, <1>10
    <2>2. QED
      BY <1>1, <1>4, <1>7, <1>10, <2>1, OthersHold
  <1>11. QED
    BY <1>1, <1>3, <1>8, <1>9, <1>10

LEMMA EndCourse ==
    ASSUME CourseInv, NEW e \in queue, EndSimulation(e)
    PROVE  /\ Stamped' /\ Owned' /\ (\A a \in Apps' : Holds(a)')
           /\ (program.end)' # Never /\ clock' = (program.end)'
  <1>1. Take(e, "end") /\ e.what = "end" /\ Schedule(e, {}) /\ UNCHANGED app
    BY DEF EndSimulation, Take
  <1>2. IInv /\ uid \in Nat
    BY DEF CourseInv, IInv, TypeOK
  <1>3. program' = program /\ Apps' = Apps /\ clock' = e.at
    BY <1>1, <1>2, TakeFacts
  <1>4. e.at = program.end /\ e.of = 0 /\ program.end # Never
    <2>1. e = Event(program.end, 1, "end", 0) /\ program.end # Never
      BY <1>1 DEF CourseInv, Stamped, Stamp
    <2>2. QED
      BY <2>1, EventFacts
  <1>5. queue' = queue \ {e} /\ uid' \in Nat /\ uid' >= uid
    BY <1>1, <1>2 DEF Schedule
  <1>6. UNCHANGED <<running, sent, sendEvent, peer, open>>
    BY <1>1 DEF app
  <1>7. Stamped' /\ Owned'
    <2>1. queue' \subseteq (queue \ {e}) \cup {}
      BY <1>5
    <2>2. QED
      BY <1>1, <1>2, <1>5, <1>6, <2>1, StampsHold, OwnedHolds
  <1>8. ASSUME NEW a \in Apps PROVE Holds(a)'
    <2>1. a # e.of
      BY <1>2, <1>4, AppFacts DEF IInv, TypeOK
    <2>2. \A f : f.of = a => (f \in queue' <=> f \in queue)
      BY <1>5, <2>1
    <2>3. QED
      BY <1>1, <1>6, <2>1, <2>2, OthersHold
  <1>9. QED
    BY <1>3, <1>4, <1>7, <1>8

(* Nothing has happened: every start and every stop is scheduled. *)
LEMMA CourseInit == Init => CourseInv
  <1> SUFFICES ASSUME Init PROVE CourseInv
    OBVIOUS
  <1>1. /\ program \in Programs /\ queue = Scheduled(program) /\ IInv
        /\ uid = FirstUid /\ ~over
    BY InitInv DEF Init, FirstUid
  <1>2. uid \in Nat /\ uid > 0
    BY <1>1, ProgramFacts DEF FirstUid
  <1>3. ASSUME NEW e \in queue PROVE Stamp(e) /\ e.uid \in Nat /\ e.uid # 0
    <2>1. e \in Events /\ e.at # Never
      BY <1>1, ScheduledFacts DEF Events, Never
    <2>2. CASE e.what = "end"
      <3>1. e = Event(program.end, 1, "end", 0)
        BY <1>1, <2>2, ScheduledFacts
      <3>2. e.at = program.end /\ e.uid = 1
        BY <3>1, EventFacts
      <3>3. QED
        BY <2>1, <2>2, <3>1, <3>2 DEF Stamp
    <2>3. CASE e.what = "start"
      <3>1. e = Event(App(e.of).start, 2 * e.of, "start", e.of) /\ e.of \in Apps /\ e.uid = 2 * e.of
        BY <1>1, <2>3, ScheduledFacts
      <3>2. e.of \in Nat \ {0}
        BY <1>1, <3>1, AppFacts
      <3>3. QED
        BY <2>3, <3>1, <3>2 DEF Stamp
    <2>4. CASE e.what = "stop"
      <3>1. e = Event(App(e.of).stop, 2 * e.of + 1, "stop", e.of) /\ e.of \in Apps /\ e.uid = 2 * e.of + 1
        BY <1>1, <2>4, ScheduledFacts
      <3>2. e.of \in Nat \ {0} /\ e.at = App(e.of).stop
        BY <1>1, <3>1, AppFacts, EventFacts
      <3>3. QED
        BY <2>1, <2>4, <3>1, <3>2 DEF Stamp
    <2>5. QED
      BY <1>1, <2>2, <2>3, <2>4, ScheduledFacts
  <1>4. Stamped
    BY <1>1, <1>2, <1>3 DEF Stamped
  <1>5. Owned
    <2>1. \A a \in Apps : sendEvent[a] = 0
      BY DEF Init
    <2>2. QED
      BY <1>2, <1>3, <2>1 DEF Owned
  <1>6. ASSUME NEW a \in Apps PROVE Holds(a)
    <2>1. ~open[a] /\ ~running[a] /\ running[a] = open[a] /\ sent[a] = 0
      BY DEF Init
    <2>2. Awaited("start", a)
      <3>1. Event(App(a).start, 2 * a, "start", a) \in queue
        BY <1>1 DEF Scheduled, Apps, App
      <3>2. QED
        BY <3>1, EventFacts DEF Awaited
    <2>3. App(a).stop # Never => Awaited("stop", a)
      <3>1. App(a).stop # Never => Event(App(a).stop, 2 * a + 1, "stop", a) \in queue
        BY <1>1 DEF Scheduled, Apps, App
      <3>2. QED
        BY <3>1, EventFacts DEF Awaited
    <2>4. QED
      BY <2>1, <2>2, <2>3 DEF Holds, Lives, Before, Paced, Answered
  <1>7. QED
    BY <1>1, <1>4, <1>5, <1>6 DEF CourseInv

LEMMA Course == Spec => []CourseInv
  <1>1. CourseInv /\ Next => CourseInv'
    <2> SUFFICES ASSUME CourseInv, NEW e \in queue,
                        \/ StartApplication(e) \/ StopApplication(e) \/ SendPacket(e)
                        \/ StartLibrary(e) \/ StopLibrary(e) \/ Syn(e) \/ EndSimulation(e)
                 PROVE  CourseInv'
      BY DEF Next
    <2>1. IInv'
      BY StartStep, SendStep, StopStep, LibraryStep DEF CourseInv
    <2>2. CASE EndSimulation(e)
      BY <2>1, <2>2, EndCourse DEF CourseInv
    <2>3. CASE StartApplication(e) \/ StartLibrary(e)
      BY <2>1, <2>3, StartCourse DEF CourseInv
    <2>4. CASE StopApplication(e) \/ StopLibrary(e)
      BY <2>1, <2>4, StopCourse DEF CourseInv
    <2>5. CASE SendPacket(e)
      BY <2>1, <2>5, SendCourse DEF CourseInv
    <2>6. CASE Syn(e)
      BY <2>1, <2>6, SynCourse DEF CourseInv
    <2>7. QED
      BY <2>2, <2>3, <2>4, <2>5, <2>6
  <1>2. CourseInv /\ UNCHANGED vars => CourseInv'
    <2> SUFFICES ASSUME CourseInv, UNCHANGED vars PROVE CourseInv'
      OBVIOUS
    <2>1. /\ program' = program /\ queue' = queue /\ uid' = uid /\ clock' = clock /\ running' = running
          /\ sent' = sent /\ sendEvent' = sendEvent /\ peer' = peer /\ open' = open /\ over' = over
      BY DEF vars
    <2>2. /\ Apps' = Apps /\ FirstUid' = FirstUid
          /\ \A a : App(a)' = App(a) /\ Quota(a)' = Quota(a)
          /\ \A w, a : Awaited(w, a)' <=> Awaited(w, a)
      BY <2>1 DEF Apps, FirstUid, App, Quota, Awaited
    <2>3. IInv'
      BY <2>1, <2>2 DEF CourseInv, IInv, TypeOK, Numbered, StartsOnce, Sends
    <2>4. Stamped' /\ Owned'
      BY <2>1, <2>2 DEF CourseInv, Stamped, Stamp, Owned
    <2>5. ASSUME NEW a \in Apps PROVE Holds(a)'
      <3>1. Holds(a) /\ Planned(a, App(a).stop - 1)' = Planned(a, App(a).stop - 1) /\ Verdict(a)' = Verdict(a)
        BY <2>1, <2>2 DEF CourseInv, Planned, Verdict, Listens
      <3>2. QED
        BY <2>1, <2>2, <3>1 DEF Holds, Lives, Before, During, After, Paced, Answered
    <2>6. QED
      BY <2>1, <2>2, <2>3, <2>4, <2>5 DEF CourseInv
  <1>3. QED
    BY CourseInit, <1>1, <1>2, PTL DEF Spec

(* The pace follows from the course: an application whose events of this   *)
(* instant are over has not started, runs, or was stopped.                 *)
LEMMA InPace == CourseInv => KeepsPace
  <1> SUFFICES ASSUME CourseInv, NEW a \in Apps, App(a).kind = "myapp",
                      ~(\E e \in queue : e.of = a /\ e.at = clock)
               PROVE  sent[a] = Planned(a, clock)
    BY DEF KeepsPace
  <1>1. program \in Programs /\ clock \in Nat /\ sent[a] \in Nat /\ Lives(a) /\ Paced(a)
    BY DEF CourseInv, IInv, TypeOK, Holds
  <1>2. PICK s \in Nat, t \in Nat, w \in Nat, c \in Nat :
           s = App(a).start /\ t = App(a).stop /\ w = App(a).wait /\ c = clock /\ s < t /\ w > 0
    BY <1>1, AppFacts
  <1>3. \A e \in queue : e.of = a => e.at \in Nat /\ c < e.at
    <2>1. \A e \in queue : e.of = a => e.at \in Nat /\ e.at >= c /\ e.at # c
      BY <1>2 DEF CourseInv, IInv, TypeOK, Events
    <2>2. QED
      BY <2>1
  <1>4. Awaited("stop", a) => c < t
    <2> SUFFICES ASSUME NEW e \in queue, e.what = "stop", e.of = a PROVE c < t
      BY DEF Awaited
    <2>1. e = Event(App(a).stop, 2 * a + 1, "stop", a)
      BY DEF CourseInv, Stamped, Stamp
    <2>2. QED
      BY <1>2, <1>3, <2>1, EventFacts
  <1>5. CASE Before(a)
    <2>1. PICK e \in queue : e.what = "start" /\ e.of = a
      BY <1>5 DEF Before, Awaited
    <2>2. e = Event(App(a).start, 2 * a, "start", a)
      BY <2>1 DEF CourseInv, Stamped, Stamp
    <2>3. c < s
      BY <1>2, <1>3, <2>1, <2>2, EventFacts
    <2>4. QED
      BY <1>1, <1>2, <1>5, <2>3 DEF Before, Paced, Planned
  <1>6. CASE During(a)
    <2>1. s <= c /\ c < t /\ open[a]
      BY <1>2, <1>4, <1>6 DEF During, Never
    <2>2. PICK k \in Nat : k = sent[a] - 1 /\ sent[a] = k + 1
      BY <1>1, <2>1 DEF Paced
    <2>3. s + k * w <= c /\ Quota(a) \in Nat /\ k + 1 <= Quota(a)
      <3>1. s + k * w <= c
        BY <1>1, <1>2, <2>1, <2>2 DEF Paced
      <3>2. Quota(a) \in Nat
        BY <1>1, AppFacts DEF Quota
      <3>3. QED
        BY <2>2, <3>1, <3>2 DEF CourseInv, IInv, TypeOK
    <2>4. k + 1 = Quota(a) \/ c < s + (k + 1) * w
      <3>1. CASE Awaited("send", a)
        <4>1. PICK f \in queue : f.what = "send" /\ f.of = a
          BY <3>1 DEF Awaited
        <4>2. f.at = s + (k + 1) * w
          BY <1>2, <2>2, <4>1 DEF CourseInv, Stamped, Stamp
        <4>3. QED
          BY <1>3, <4>1, <4>2
      <3>2. QED
        BY <1>1, <2>1, <2>2, <3>1 DEF Paced
    <2>5. PICK x \in Nat : x = c - s
      BY <2>1
    <2>6. Least(1 + x \div w, Quota(a)) = k + 1
      <3>1. k * w \in Nat /\ (k + 1) * w \in Nat
        OBVIOUS
      <3>2. k * w <= x /\ (c < s + (k + 1) * w => x < (k + 1) * w)
        BY <2>1, <2>3, <2>5, <3>1
      <3>3. PICK q \in Nat : q = Quota(a)
        BY <2>3
      <3>4. k + 1 = q \/ (k + 1 <= q /\ x < (k + 1) * w)
        BY <2>3, <2>4, <3>2, <3>3
      <3>5. PICK d \in Nat : d = x \div w
        BY <1>2
      <3>6. k <= d /\ (x < (k + 1) * w => d = k)
        BY <1>2, <3>2, <3>5, DivFact
      <3>7. Least(1 + d, q) = k + 1
        BY <3>4, <3>6 DEF Least
      <3>8. QED
        BY <3>3, <3>5, <3>7
    <2>7. ~(c < s) /\ Least(c, t - 1) = c
      BY <2>1 DEF Least
    <2>8. QED
      BY <1>2, <2>2, <2>5, <2>6, <2>7 DEF Planned
  <1>7. CASE After(a)
    <2>1. t <= c
      BY <1>2, <1>7 DEF After
    <2>2. sent[a] = Planned(a, t - 1)
      BY <1>1, <1>2, <1>7 DEF After, Paced
    <2>3. ~(c < s) /\ ~(t - 1 < s) /\ Least(c, t - 1) = t - 1 /\ Least(t - 1, t - 1) = t - 1
      BY <1>2, <2>1 DEF Least
    <2>4. QED
      BY <1>2, <2>2, <2>3 DEF Planned
  <1>8. QED
    BY <1>1, <1>5, <1>6, <1>7 DEF Lives

-----------------------------------------------------------------------------
(* The end of the simulation stays scheduled until it comes, and a SYN     *)
(* that would come later never arrives.                                    *)
EndQueued == ~over /\ program.end # Never => Event(program.end, 1, "end", 0) \in queue
Waits(a) ==
    \/ Awaited("start", a) /\ peer[a] = "none"
    \/ Awaited("syn", a) /\ peer[a] = "connecting"
    \/ program.end = Never \/ Arrives(a) < program.end
EndInv ==
    /\ EndQueued
    /\ \A a \in Apps : App(a).kind # "sink" /\ App(a).to # 0 => Waits(a)

LEMMA EndInit == Init => EndInv
  <1> SUFFICES ASSUME Init PROVE EndInv
    OBVIOUS
  <1>1. program \in Programs /\ queue = Scheduled(program)
    BY DEF Init
  <1>2. EndQueued
    BY <1>1 DEF EndQueued, Scheduled
  <1>3. ASSUME NEW a \in Apps
        PROVE  Awaited("start", a) /\ peer[a] = "none"
    <2>1. Event(App(a).start, 2 * a, "start", a) \in queue
      BY <1>1 DEF Scheduled, Apps, App
    <2>2. Event(App(a).start, 2 * a, "start", a).what = "start"
          /\ Event(App(a).start, 2 * a, "start", a).of = a
      BY EventFacts
    <2>3. QED
      BY <2>1, <2>2 DEF Awaited, Init
  <1>4. QED
    BY <1>2, <1>3 DEF EndInv, Waits

(* Only sends are ever taken out of the queue before their time. *)
LEMMA OthersStay ==
    ASSUME CourseInv, NEW e \in queue,
           \/ StartApplication(e) \/ StopApplication(e) \/ SendPacket(e)
           \/ StartLibrary(e) \/ StopLibrary(e) \/ Syn(e) \/ EndSimulation(e)
    PROVE  \A f \in queue : f # e /\ f.what # "send" => f \in queue'
  <1>1. CASE StopApplication(e)
    <2>1. queue' = {f \in queue : f # e /\ f.uid # sendEvent[e.of]} /\ e.what = "stop"
      BY <1>1 DEF StopApplication, Take
    <2>2. e.of \in Apps
      BY <2>1 DEF CourseInv, IInv, Numbered
    <2>3. QED
      BY <2>1, <2>2 DEF CourseInv, Owned
  <1>2. CASE ~StopApplication(e)
    <2>1. \E new : queue' = (queue \ {e}) \cup new
      BY <1>2 DEF StartApplication, SendPacket, StartLibrary, StopLibrary, Syn, EndSimulation, Schedule
    <2>2. QED
      BY <2>1
  <1>3. QED
    BY <1>1, <1>2

LEMMA EndStep ==
    ASSUME CourseInv, EndInv, NEW e \in queue,
           \/ StartApplication(e) \/ StopApplication(e) \/ SendPacket(e)
           \/ StartLibrary(e) \/ StopLibrary(e) \/ Syn(e) \/ EndSimulation(e)
    PROVE  EndInv'
  <1>1. PICK what : Take(e, what) /\ e.what = what
    BY DEF StartApplication, StopApplication, SendPacket, StartLibrary, StopLibrary, Syn,
           EndSimulation, Take
  <1>2. IInv /\ ~over /\ program' = program /\ program \in Programs
    BY <1>1 DEF CourseInv, IInv, TypeOK, Take
  <1>3. Apps' = Apps /\ \A b : App(b)' = App(b) /\ Arrives(b)' = Arrives(b)
    BY <1>2 DEF Apps, App, Arrives
  <1>4. EndQueued'
    <2>1. CASE EndSimulation(e)
      BY <2>1 DEF EndSimulation, EndQueued
    <2>2. CASE e.what # "end"
      <3> DEFINE f == Event(program.end, 1, "end", 0)
      <3>1. f.what = "end"
        BY EventFacts
      <3> HIDE DEF f
      <3>2. f # e /\ f.what # "send"
        BY <2>2, <3>1
      <3>3. program.end # Never => f \in queue
        BY <1>2 DEF EndInv, EndQueued, f
      <3>4. program.end # Never => f \in queue'
        BY <3>2, <3>3, OthersStay
      <3>5. QED
        BY <1>2, <3>4 DEF EndQueued, f
    <2>3. QED
      BY <2>1, <2>2 DEF StartApplication, StopApplication, SendPacket, StartLibrary, StopLibrary,
                        Syn, Take
  <1>5. ASSUME NEW a \in Apps, App(a).kind # "sink", App(a).to # 0,
               peer'[a] = peer[a], \A f \in queue : f.of = a /\ f.what \in {"start", "syn"} => f # e
        PROVE  Waits(a)'
    <2>1. Waits(a)
      BY <1>5 DEF EndInv
    <2>2. ASSUME NEW w \in {"start", "syn"}, Awaited(w, a) PROVE Awaited(w, a)'
      <3>1. PICK f \in queue : f.what = w /\ f.of = a
        BY <2>2 DEF Awaited
      <3>2. f \in queue'
        BY <1>5, <3>1, OthersStay
      <3>3. QED
        BY <3>1, <3>2 DEF Awaited
    <2>3. QED
      BY <1>2, <1>3, <1>5, <2>1, <2>2 DEF Waits
  <1>6. ASSUME NEW a \in Apps, App(a).kind # "sink", App(a).to # 0
        PROVE  Waits(a)'
    <2>1. CASE a # e.of
      <3>1. peer'[a] = peer[a]
        BY <2>1 DEF StartApplication, StopApplication, SendPacket, StartLibrary, StopLibrary, Syn,
                    EndSimulation, app, CourseInv, IInv, TypeOK
      <3>2. QED
        BY <1>5, <1>6, <2>1, <3>1
    <2>2. CASE a = e.of /\ e.what \notin {"start", "syn"}
      <3>1. peer'[a] = peer[a]
        BY <2>2 DEF StartApplication, StopApplication, SendPacket, StartLibrary, StopLibrary, Syn,
                    EndSimulation, app, Take
      <3>2. QED
        BY <1>5, <1>6, <2>2, <3>1
    <2>3. CASE a = e.of /\ e.what = "start"
      <3> DEFINE f == Event(e.at + App(a).delay, uid, "syn", a)
      <3>1. CASE StartApplication(e)
        <4>1. f \in queue'
          BY <1>6, <2>3, <3>1 DEF StartApplication, Schedule
        <4>2. peer'[a] = "connecting"
          BY <1>6, <2>3, <3>1 DEF StartApplication, CourseInv, IInv, TypeOK
        <4>3. QED
          BY <4>1, <4>2, EventFacts DEF Waits, Awaited
      <3>2. CASE StartLibrary(e)
        <4>1. App(a).kind = "source"
          BY <1>2, <1>6, <2>3, <3>2, AppFacts DEF StartLibrary
        <4>2. f \in queue'
          BY <2>3, <3>2, <4>1 DEF StartLibrary, Schedule
        <4>3. peer'[a] = "connecting"
          BY <2>3, <3>2, <4>1 DEF StartLibrary, CourseInv, IInv, TypeOK
        <4>4. QED
          BY <4>2, <4>3, EventFacts DEF Waits, Awaited
      <3>3. QED
        BY <2>3, <3>1, <3>2 DEF StopApplication, SendPacket, StopLibrary, Syn, EndSimulation, Take
    <2>4. CASE a = e.of /\ e.what = "syn"
      <3>1. ASSUME program.end # Never PROVE Arrives(a) < program.end
        <4> DEFINE f == Event(program.end, 1, "end", 0)
        <4>1. f \in queue
          BY <1>2, <3>1 DEF EndInv, EndQueued
        <4>2. f.at = program.end /\ f.uid = 1
          BY EventFacts
        <4> HIDE DEF f
        <4>3. e.at < f.at \/ (e.at = f.at /\ e.uid <= f.uid)
          BY <1>1, <4>1 DEF Take, First
        <4>4. e.uid >= 2 * Len(program.apps) + 3 /\ Len(program.apps) \in Nat /\ e.uid \in Nat
          BY <1>2, <2>4, ProgramFacts DEF CourseInv, Stamped, Stamp, FirstUid, IInv, TypeOK, Events
        <4>5. e.at = Arrives(a)
          BY <2>4 DEF CourseInv, Stamped, Stamp, Arrives
        <4>6. ~(e.uid <= 1)
          BY <4>4
        <4>7. QED
          BY <4>2, <4>3, <4>5, <4>6
      <3>2. QED
        BY <1>2, <1>3, <3>1 DEF Waits
    <2>5. QED
      BY <2>1, <2>2, <2>3, <2>4
  <1>7. QED
    BY <1>3, <1>4, <1>6 DEF EndInv

LEMMA Ending == Spec => []EndInv
  <1>1. CourseInv /\ EndInv /\ [Next]_vars => EndInv'
    <2> SUFFICES ASSUME CourseInv, EndInv, [Next]_vars PROVE EndInv'
      OBVIOUS
    <2>1. CASE UNCHANGED vars
      BY <2>1 DEF vars, EndInv, EndQueued, Waits, Awaited, Arrives, Apps, App
    <2>2. CASE Next
      BY <2>2, EndStep DEF Next
    <2>3. QED
      BY <2>1, <2>2
  <1>2. QED
    BY EndInit, Course, <1>1, PTL DEF Spec

(* A simulation that is over has answered every source whose SYN came      *)
(* before its end, ...                                                     *)
LEMMA AllAnswered ==
    ASSUME CourseInv, Done, NEW a \in Apps, App(a).kind # "sink",
           program.end = Never \/ Arrives(a) < program.end \/ App(a).to = 0
    PROVE  peer[a] = Verdict(a)
  <1>1. program \in Programs /\ Answered(a)
    BY DEF CourseInv, IInv, TypeOK, Holds
  <1>2. /\ App(a).start \in Nat /\ App(a).delay \in Nat
        /\ program.end = Never \/ App(a).start < program.end
        /\ App(a).to \in Nat
    BY <1>1, AppFacts
  <1>3. ASSUME NEW e \in queue, e.of = a, e.what \in {"start", "syn"} PROVE FALSE
    <2>1. program.end # Never /\ clock = program.end /\ e.at >= clock /\ e.at \in Nat /\ clock \in Nat
      BY DEF Done, CourseInv, IInv, TypeOK, Events
    <2>2. e.at = App(a).start \/ (e.at = Arrives(a) /\ App(a).to \in Apps)
      BY <1>3, EventFacts DEF CourseInv, Stamped, Stamp, Arrives
    <2>3. App(a).to \in Apps => App(a).to # 0
      BY <1>1, AppFacts
    <2>4. QED
      BY <1>2, <2>1, <2>2, <2>3
  <1>4. QED
    BY <1>1, <1>3 DEF Answered, Awaited

(* ... and no other source has reached its sink. *)
LEMMA TooLate ==
    ASSUME EndInv, NEW a \in Apps, App(a).kind # "sink", App(a).to # 0,
           ~(program.end = Never \/ Arrives(a) < program.end)
    PROVE  peer[a] # "connected"
  BY DEF EndInv, Waits

-----------------------------------------------------------------------------
(* Whose sink is there: by the times that main gives, a sink is started no *)
(* later than the sources it serves, or after all their SYNs.              *)
Punctual(a) == App(a).to # 0 => App(App(a).to).start <= App(a).start
Tardy(a) == App(a).to # 0 /\ ~(App(App(a).to).start <= Arrives(a))

LEMMA FieldFacts ==
    ASSUME NEW start, NEW stop, NEW to, NEW delay, NEW n, NEW wait
    PROVE  /\ Sink(start, stop).kind = "sink" /\ Sink(start, stop).start = start /\ Sink(start, stop).stop = stop
           /\ Source(to, delay, start, stop).kind = "source" /\ Source(to, delay, start, stop).to = to
           /\ Source(to, delay, start, stop).delay = delay /\ Source(to, delay, start, stop).start = start
           /\ MyApp(to, delay, start, stop, n, wait).kind = "myapp"
           /\ MyApp(to, delay, start, stop, n, wait).to = to
           /\ MyApp(to, delay, start, stop, n, wait).delay = delay
           /\ MyApp(to, delay, start, stop, n, wait).start = start
  BY DEF Sink, Source, MyApp

(* When the sources start, and when the SYNs of the two programs arrive.   *)
LEMMA Times ==
    /\ 0 <= 1 * Sec /\ 0 <= 6 * Sec /\ 1 * Sec <= 1 * Sec
    /\ ~(10 * Sec <= 1 * Sec + Hop(500000, 5 * Milli))
    /\ ~(10 * Sec <= 1 * Sec + Hop(5000000, 2 * Milli))
  BY SMTT(30) DEF Sec, Milli, Hop

LEMMA DumbbellSinks ==
    ASSUME program \in Dumbbell, NEW a \in Apps, App(a).kind # "sink"
    PROVE  program.name = "dumbbell" /\ Punctual(a)
  <1>1. PICK n, w, d :
           program.apps = <<MyApp(4, d, 1 * Sec, 30 * Sec, n, w), MyApp(5, d, 6 * Sec, 30 * Sec, n, w),
                            MyApp(0, 0, 5 * Sec, 30 * Sec, n, w),
                            Sink(0, 30 * Sec), Sink(0, 30 * Sec), Sink(0, 30 * Sec)>>
    BY SMTT(30) DEF Dumbbell
  <1>n. program.name = "dumbbell"
    BY SMTT(30) DEF Dumbbell
  <1>2. /\ Apps = 1..6
        /\ App(1) = MyApp(4, d, 1 * Sec, 30 * Sec, n, w)
        /\ App(2) = MyApp(5, d, 6 * Sec, 30 * Sec, n, w)
        /\ App(3) = MyApp(0, 0, 5 * Sec, 30 * Sec, n, w)
        /\ App(4) = Sink(0, 30 * Sec) /\ App(5) = Sink(0, 30 * Sec) /\ App(6) = Sink(0, 30 * Sec)
    BY <1>1 DEF Apps, App
  <1>3. a = 1 \/ a = 2 \/ a = 3
    <2>1. a \in {1, 2, 3, 4, 5, 6}
      BY <1>2
    <2>2. QED
      BY <1>2, <2>1, FieldFacts
  <1>4. Punctual(1) /\ Punctual(2) /\ Punctual(3)
    BY <1>2, FieldFacts, Times DEF Punctual
  <1>5. QED
    BY <1>n, <1>3, <1>4

(* The programs of one source, the first application, and its sink. *)
LEMMA PairSinks ==
    ASSUME NEW source, NEW sink, program.apps = <<source, sink>>,
           source.to = 2, sink.kind = "sink", NEW a \in Apps, App(a).kind # "sink"
    PROVE  /\ sink.start <= source.start => Punctual(a)
           /\ ~(sink.start <= source.start + source.delay) => Tardy(a)
  <1>1. a \in {1, 2} /\ App(1) = source /\ App(2) = sink
    BY DEF Apps, App
  <1>2. QED
    BY <1>1 DEF Punctual, Tardy, Arrives

LEMMA FifthSinks ==
    ASSUME program \in Fifth \cup FifthScratch, NEW a \in Apps, App(a).kind # "sink"
    PROVE  program.name \notin {"bulk-send", "onoff"} /\ Punctual(a)
  <1> DEFINE source == MyApp(2, Hop(5000000, 2 * Milli), 1 * Sec, 20 * Sec, 1000, Wait(1000000))
             sink == Sink(0, 20 * Sec)
  <1>1. program.apps = <<source, sink>> /\ program.name \in {"fifth", "fifth_scratch"}
    BY DEF Fifth, FifthScratch
  <1>2. source.to = 2 /\ sink.kind = "sink" /\ sink.start <= source.start
    BY FieldFacts, Times
  <1> HIDE DEF source, sink
  <1>3. QED
    BY <1>1, <1>2, PairSinks

LEMMA TcpVariantsSinks ==
    ASSUME program \in TcpVariants, NEW a \in Apps, App(a).kind # "sink"
    PROVE  program.name \notin {"bulk-send", "onoff"} /\ Punctual(a)
  <1>1. PICK m \in MaxBytes, r \in Rates, l \in Latencies :
           program = [name |-> "tcpvariants", end |-> 35 * Sec,
                      apps |-> <<MyApp(2, Hop(250000, 2 * Milli) + Hop(r, l), 1 * Sec, 30 * Sec, m,
                                       Wait(250000)), Sink(0, 30 * Sec)>>]
    BY DEF TcpVariants
  <1> DEFINE source == MyApp(2, Hop(250000, 2 * Milli) + Hop(r, l), 1 * Sec, 30 * Sec, m, Wait(250000))
             sink == Sink(0, 30 * Sec)
  <1>2. program.apps = <<source, sink>> /\ program.name = "tcpvariants"
    BY <1>1
  <1>3. source.to = 2 /\ sink.kind = "sink" /\ sink.start <= source.start
    BY FieldFacts, Times
  <1> HIDE DEF source, sink
  <1>4. QED
    BY <1>2, <1>3, PairSinks

LEMMA TcpBulkSendSinks ==
    ASSUME program \in TcpBulkSend \cup TcpBulkSendScratch, NEW a \in Apps, App(a).kind # "sink"
    PROVE  program.name \notin {"bulk-send", "onoff"} /\ Punctual(a)
  <1> DEFINE source == Source(2, Hop(500000, 5 * Milli), 0, 10 * Sec)
             sink == Sink(0, 10 * Sec)
  <1>1. program.apps = <<source, sink>> /\ program.name \in {"tcp-bulk-send", "tcp-bulk-send_scratch"}
    BY DEF TcpBulkSend, TcpBulkSendScratch
  <1>2. source.to = 2 /\ sink.kind = "sink" /\ sink.start <= source.start
    BY FieldFacts
  <1> HIDE DEF source, sink
  <1>3. QED
    BY <1>1, <1>2, PairSinks

(* The sink is to start when the simulation ends. *)
LEMMA BulkSendSinks ==
    ASSUME program \in BulkSend, NEW a \in Apps, App(a).kind # "sink"
    PROVE  program.name = "bulk-send" /\ Tardy(a)
  <1> DEFINE source == Source(2, Hop(500000, 5 * Milli), 1 * Sec, 10 * Sec)
             sink == Sink(10 * Sec, Never)
  <1>1. program.apps = <<source, sink>> /\ program.name = "bulk-send"
    BY DEF BulkSend
  <1>2. source.to = 2 /\ sink.kind = "sink" /\ ~(sink.start <= source.start + source.delay)
    BY FieldFacts, Times
  <1> HIDE DEF source, sink
  <1>3. QED
    BY <1>1, <1>2, PairSinks

(* One sink, the first application, and any number of sources. *)
LEMMA HubSinks ==
    ASSUME NEW sink, NEW source, NEW n \in Nat, program.apps = <<sink>> \o [i \in 1..n |-> source],
           source.to = 1, sink.kind = "sink", NEW a \in Apps, App(a).kind # "sink"
    PROVE  /\ sink.start <= source.start => Punctual(a)
           /\ ~(sink.start <= source.start + source.delay) => Tardy(a)
  <1> DEFINE one == <<sink>>
             rest == [i \in 1..n |-> source]
  <1>1. /\ one \in Seq({sink, source}) /\ Len(one) = 1 /\ one[1] = sink
        /\ rest \in Seq({sink, source}) /\ Len(rest) = n /\ \A i \in 1..n : rest[i] = source
    OBVIOUS
  <1>2. program.apps = one \o rest
    OBVIOUS
  <1> HIDE DEF one, rest
  <1>3. /\ Len(one \o rest) = 1 + n
        /\ \A i \in 1..(1 + n) : (one \o rest)[i] = IF i <= 1 THEN one[i] ELSE rest[i - 1]
        /\ DOMAIN (one \o rest) = 1..Len(one \o rest)
    <2>1. /\ one \o rest \in Seq({sink, source}) /\ Len(one \o rest) = Len(one) + Len(rest)
          /\ \A i \in 1..(Len(one) + Len(rest)) :
                (one \o rest)[i] = IF i <= Len(one) THEN one[i] ELSE rest[i - Len(one)]
      BY <1>1, ConcatProperties
    <2> DEFINE all == one \o rest
    <2> HIDE DEF all
    <2>2. all \in Seq({sink, source}) /\ DOMAIN all = 1..Len(all)
      <3>1. all \in Seq({sink, source})
        BY <2>1 DEF all
      <3>2. QED
        BY <3>1, LenProperties
    <2>3. QED
      BY <1>1, <2>1, <2>2 DEF all
  <1>4. Apps = 1..(1 + n)
    BY <1>2, <1>3 DEF Apps
  <1>5. App(1) = sink /\ \A i \in 1..(1 + n) : i # 1 => App(i) = source
    <2>1. 1 \in 1..(1 + n) /\ \A i \in 1..(1 + n) : i # 1 => ~(i <= 1) /\ i - 1 \in 1..n
      OBVIOUS
    <2>2. QED
      BY <1>1, <1>2, <1>3, <2>1 DEF App
  <1>6. App(a) = source
    BY <1>4, <1>5
  <1>7. QED
    BY <1>5, <1>6 DEF Punctual, Tardy, Arrives

LEMMA StarSinks ==
    ASSUME Spokes \subseteq Nat, program \in Star, NEW a \in Apps, App(a).kind # "sink"
    PROVE  program.name \notin {"bulk-send", "onoff"} /\ Punctual(a)
  <1> DEFINE sink == Sink(1 * Sec, 10 * Sec)
  <1>1. PICK n \in Spokes : program = [name |-> "star", end |-> Never,
                                       apps |-> <<sink>> \o [i \in 1..n |-> Spoke]]
    BY DEF Star
  <1>2. program.apps = <<sink>> \o [i \in 1..n |-> Spoke] /\ program.name = "star" /\ n \in Nat
    BY <1>1
  <1>3. Spoke.to = 1 /\ sink.kind = "sink" /\ sink.start <= Spoke.start
    BY FieldFacts, Times DEF Spoke
  <1> HIDE DEF sink
  <1>4. QED
    BY <1>2, <1>3, HubSinks

LEMMA OnOffSinks ==
    ASSUME program \in OnOff, NEW a \in Apps, App(a).kind # "sink"
    PROVE  program.name = "onoff" /\ Tardy(a)
  <1> DEFINE sink == Sink(10 * Sec, Never)
  <1>1. program.apps = <<sink>> \o [i \in 1..2 |-> Spoke] /\ program.name = "onoff"
    BY DEF OnOff
  <1>2. Spoke.to = 1 /\ sink.kind = "sink" /\ ~(sink.start <= Spoke.start + Spoke.delay)
    BY FieldFacts, Times DEF Spoke
  <1> HIDE DEF sink
  <1>3. QED
    BY <1>1, <1>2, HubSinks

-----------------------------------------------------------------------------
(* The theorems. *)

(* Every variable keeps its type, time never runs backwards, and no        *)
(* application sends more than it was told to, or one if that is none.     *)
THEOREM SimulationTypeOK == Spec => []TypeOK
  <1>1. IInv => TypeOK
    BY DEF IInv
  <1>2. QED
    BY Inductive, <1>1, PTL

(* A MyApp never has two sends scheduled, nor one after its stop, at any   *)
(* rate and for any times of its start and its stop.                       *)
THEOREM SimulationOneChain == Spec => []OneChain
  <1>1. IInv => OneChain
    BY DEF IInv, Numbered, Sends, OneChain
  <1>2. QED
    BY Inductive, <1>1, PTL

(* Whatever the rate and the times, m_packetsSent is what they say as soon *)
(* as the events of an instant are over, a stop among them or not.         *)
THEOREM SimulationKeepsPace == Spec => []KeepsPace
  BY Course, InPace, PTL

(* The programs of the repository. *)
Repository ==
    Dumbbell \cup Fifth \cup FifthScratch \cup TcpVariants \cup TcpBulkSend
        \cup TcpBulkSendScratch \cup BulkSend \cup Star \cup OnOff

(* At every rate that leaves room on the shared link and at every latency, *)
(* for every number of packets and of spokes, the sources of bulk-send and *)
(* onoff never reach their sinks, and all others do exactly if their SYN   *)
(* arrives before their sink stops and before the simulation ends: no      *)
(* other program starts a sink too late.                                   *)
THEOREM SimulationSourcesReachSinks ==
    ASSUME Programs \subseteq Repository, Spokes \subseteq Nat
    PROVE  Spec => []SourcesReachSinks
  <1>1. CourseInv /\ EndInv => SourcesReachSinks
    <2> SUFFICES ASSUME CourseInv, EndInv, Done, NEW a \in Apps, App(a).kind # "sink"
                 PROVE  peer[a] = "connected" <=> InTime(a) /\ program.name \notin {"bulk-send", "onoff"}
      BY DEF SourcesReachSinks
    <2>1. program \in Repository /\ program \in Programs
      BY DEF CourseInv, IInv, TypeOK
    <2>2. \/ program.name \notin {"bulk-send", "onoff"} /\ Punctual(a)
          \/ program.name \in {"bulk-send", "onoff"} /\ Tardy(a)
      <3>1. CASE program \in Dumbbell
        BY <3>1, DumbbellSinks
      <3>2. CASE program \in Fifth \cup FifthScratch
        BY <3>2, FifthSinks
      <3>3. CASE program \in TcpVariants
        BY <3>3, TcpVariantsSinks
      <3>4. CASE program \in TcpBulkSend \cup TcpBulkSendScratch
        BY <3>4, TcpBulkSendSinks
      <3>5. CASE program \in BulkSend
        BY <3>5, BulkSendSinks
      <3>6. CASE program \in Star
        BY <3>6, StarSinks
      <3>7. CASE program \in OnOff
        BY <3>7, OnOffSinks
      <3>8. QED
        BY <2>1, <3>1, <3>2, <3>3, <3>4, <3>5, <3>6, <3>7 DEF Repository
    <2>3. CASE App(a).to # 0 /\ ~(program.end = Never \/ Arrives(a) < program.end)
      BY <2>3, TooLate DEF InTime
    <2>4. CASE App(a).to = 0
      <3>1. peer[a] = "connected"
        BY <2>4, AllAnswered DEF Verdict
      <3>2. InTime(a) /\ ~Tardy(a)
        BY <2>4 DEF InTime, Tardy
      <3>3. QED
        BY <2>2, <3>1, <3>2
    <2>5. CASE App(a).to # 0 /\ (program.end = Never \/ Arrives(a) < program.end)
      <3> DEFINE b == App(a).to
      <3>1. /\ b \in Apps /\ App(b).start \in Nat /\ App(a).start \in Nat /\ App(a).delay \in Nat
        BY <2>1, <2>5, AppFacts
      <3>2. Punctual(a) => App(b).start <= Arrives(a)
        BY <2>5, <3>1 DEF Punctual, Arrives
      <3>3. peer[a] = "connected" <=> Listens(b, Arrives(a))
        BY <2>5, AllAnswered DEF Verdict, Arrives
      <3>4. InTime(a) <=> App(b).stop = Never \/ Arrives(a) < App(b).stop
        BY <2>5 DEF InTime
      <3>5. QED
        BY <2>2, <3>2, <3>3, <3>4 DEF Listens, Tardy
    <2>6. QED
      BY <2>3, <2>4, <2>5
  <1>2. QED
    BY Course, Ending, <1>1, PTL
=============================================================================

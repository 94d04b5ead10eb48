--------------------------- MODULE ForkChatProofs ---------------------------
(* Machine-checked proofs about ForkChat, for every set of units and       *)
(* lines, every length of a frame, every splitting of the stream by read,  *)
(* every size of the socket buffers and every number of frames.            *)
EXTENDS ForkChat, SequenceTheorems, TLAPS

(* What is on its way to p is at most m frames long, and p's child has     *)
(* printed m frames less than were written to it, one more while it prints.*)
Backlog(p, m) ==
    /\ Len(net[p]) <= m * FRAME
    /\ got[p] + m <= sent[Other(p)]
    /\ PrintsFrame(p) => got[p] + m < sent[Other(p)]

(* No frame is printed, read or on its way that was not written. *)
Counts ==
    \A p \in Peers :
        /\ parent[p] = "write" => sent[p] < MaxLines
        /\ \E m \in Nat : Backlog(p, m)

(* As long as nothing has failed every child lives from its fork on, and   *)
(* so no side of the connection is ever closed, reset or at its end.       *)
Unbroken ==
    ~faulty => \A p \in Peers :
        /\ parent[p] = "fork" \/ ChildRuns(p)
        /\ child[p] # "reprint"
        /\ ~rst[p]

(* A child at the end of the stream is alone, and stays so. *)
Alone == \A p \in Peers : child[p] = "reprint" => Closed(Other(p))

(* A process is forked once. *)
ForkedOnce == \A p \in Peers : parent[p] = "fork" => child[p] = "none"

(* The inductive invariant: that children outlive their parents rests on   *)
(* the absence of resets, which rests on the children of the other side.   *)
IInv == TypeOK /\ Counts /\ Unbroken /\ Alone /\ ForkedOnce

(* END ends only the parent: its child keeps the connection open for as    *)
(* long as no fork fails and nobody sends a signal.  The run that finds    *)
(* EndCloses violated shows one such connection; this is all of them.      *)
ChildrenOutlive ==
    ~faulty => \A p \in Peers : parent[p] # "fork" => ChildRuns(p) /\ ~Closed(p)

-----------------------------------------------------------------------------
LEMMA OtherFacts ==
    ASSUME NEW p \in Peers
    PROVE  Other(p) \in Peers /\ Other(p) # p /\ Other(Other(p)) = p
  BY DEF Peers, Other

LEMMA ConstantFacts ==
    /\ FRAME \in Nat /\ FRAME > 0 /\ SockBuf \in Nat /\ MaxLines \in Nat
    /\ 0 * FRAME = 0
    /\ \A m \in Nat : m * FRAME \in Nat
    /\ \A m \in Nat : (m + 1) * FRAME = m * FRAME + FRAME
  BY ForkChatAssumption

LEMMA BufferFacts ==
    ASSUME NEW b \in Buffers
    PROVE  b \in Seq(Units) /\ Len(b) = FRAME
  BY ForkChatAssumption DEF Buffers

(* A buffer that takes the head of a sequence is a buffer. *)
LEMMA OverFacts ==
    ASSUME NEW b \in Buffers, NEW s \in Seq(Units), NEW n \in 1..FRAME, n <= Len(s)
    PROVE  Over(b, n, s) \in Buffers
  <1>1. \A k \in 1..FRAME : k <= n => s[k] \in Units
    BY ConstantFacts, LenProperties
  <1>2. QED
    BY <1>1 DEF Over, Buffers

(* What is left of a stream after its first n units. *)
LEMMA TailFacts ==
    ASSUME NEW s \in Seq(Units), NEW n \in 1..Len(s)
    PROVE  /\ SubSeq(s, n + 1, Len(s)) \in Seq(Units)
           /\ Len(SubSeq(s, n + 1, Len(s))) = Len(s) - n
  <1>1. Len(s) \in Nat /\ \A i \in n + 1..Len(s) : s[i] \in Units
    BY LenProperties
  <1>2. /\ SubSeq(s, n + 1, Len(s)) \in Seq(Units)
        /\ Len(SubSeq(s, n + 1, Len(s))) = (IF n + 1 <= Len(s) THEN Len(s) - (n + 1) + 1 ELSE 0)
    BY <1>1, SubSeqProperties
  <1>3. QED
    BY <1>1, <1>2

LEMMA HeadFacts ==
    ASSUME NEW s \in Seq(Units), NEW h \in Heads(s)
    PROVE  h \in Seq(Units) /\ Len(h) <= Len(s)
  <1>1. PICK n \in 0..Len(s) : h = SubSeq(s, 1, n)
    BY DEF Heads
  <1>2. Len(s) \in Nat /\ \A i \in 1..n : s[i] \in Units
    BY LenProperties
  <1>3. h \in Seq(Units) /\ Len(h) = (IF 1 <= n THEN n - 1 + 1 ELSE 0)
    BY <1>1, <1>2, SubSeqProperties
  <1>4. QED
    BY <1>2, <1>3

LEMMA InitInv == Init => IInv
  <1> SUFFICES ASSUME Init PROVE IInv
    OBVIOUS
  <1>1. Len(<<>>) = 0 /\ <<>> \in Seq(Units)
    OBVIOUS
  <1>2. Blank \in Buffers
    BY ForkChatAssumption DEF Blank, Buffers
  <1>a. /\ typed \in [Peers -> Buffers] /\ buf \in [Peers -> Buffers]
        /\ net \in [Peers -> Seq(Units)] /\ \A p \in Peers : Len(net[p]) <= SockBuf
    BY <1>1, <1>2, ConstantFacts DEF Init
  <1>b. /\ parent \in [Peers -> {"fork", "fgets", "write", "end", "error", "sigpipe", "killed"}]
        /\ child \in [Peers -> {"none", "read", "print", "reprint", "error", "killed"}]
        /\ rst \in [Peers -> BOOLEAN] /\ eof \in [Peers -> BOOLEAN]
        /\ short \in [Peers -> BOOLEAN] /\ faulty \in BOOLEAN
    BY DEF Init
  <1>c. sent \in [Peers -> 0..MaxLines] /\ got \in [Peers -> 0..MaxLines]
    BY ConstantFacts DEF Init
  <1>3. TypeOK
    BY <1>a, <1>b, <1>c DEF TypeOK
  <1>4. \A p \in Peers : Backlog(p, 0)
    BY <1>1, OtherFacts, ConstantFacts DEF Init, Backlog, PrintsFrame
  <1>5. Counts
    BY <1>4 DEF Init, Counts
  <1>6. Unbroken /\ Alone /\ ForkedOnce
    BY DEF Init, Unbroken, Alone, ForkedOnce
  <1>7. QED
    BY <1>3, <1>5, <1>6 DEF IInv

-----------------------------------------------------------------------------
(* What the steps do to the streams. *)

(* The streams and the resets after a step that puts nothing into them. *)
Drains ==
    /\ net' \in [Peers -> Seq(Units)]
    /\ rst' \in [Peers -> BOOLEAN]
    /\ \A q \in Peers : Len(net'[q]) \in Nat /\ Len(net'[q]) <= Len(net[q])

(* A step that leaves them alone, ... *)
LEMMA SameDrains ==
    ASSUME TypeOK, UNCHANGED <<net, rst>>
    PROVE  Drains
  BY LenProperties DEF TypeOK, Drains

(* ... one that cuts a stream, ... *)
LEMMA CutDrains ==
    ASSUME TypeOK, NEW p \in Peers, NEW r \in Seq(Units), Len(r) <= Len(net[p]),
           net' = [net EXCEPT ![p] = r], rst' \in [Peers -> BOOLEAN]
    PROVE  Drains
  <1>1. \A q \in Peers : net[q] \in Seq(Units) /\ Len(net[q]) \in Nat
    BY LenProperties DEF TypeOK
  <1>2. Len(r) \in Nat
    BY LenProperties
  <1>3. net' \in [Peers -> Seq(Units)] /\ \A q \in Peers : net'[q] = IF q = p THEN r ELSE net[q]
    BY DEF TypeOK
  <1>4. QED
    BY <1>1, <1>2, <1>3 DEF Drains

(* ... and the end of a process: its socket is closed with the last one. *)
LEMMA CloseDrains ==
    ASSUME TypeOK, NEW p \in Peers, NEW last, Close(p, last)
    PROVE  Drains
  <1>1. CASE UNCHANGED <<net, rst>>
    BY <1>1, SameDrains
  <1>2. CASE ~UNCHANGED <<net, rst>>
    <2>1. PICK rest \in Heads(net[Other(p)]) :
             net' = [net EXCEPT ![p] = <<>>, ![Other(p)] = rest]
      BY <1>2 DEF Close
    <2>2. rst' \in [Peers -> BOOLEAN]
      BY <1>2 DEF Close, TypeOK
    <2>3. \A q \in Peers : net[q] \in Seq(Units) /\ Len(net[q]) \in Nat
      BY LenProperties DEF TypeOK
    <2>4. /\ rest \in Seq(Units) /\ Len(rest) \in Nat /\ Len(rest) <= Len(net[Other(p)])
          /\ <<>> \in Seq(Units) /\ Len(<<>>) = 0
      BY <2>3, OtherFacts, HeadFacts, LenProperties
    <2>5. net' \in [Peers -> Seq(Units)]
      BY <2>1, <2>4 DEF TypeOK
    <2>6. \A q \in Peers :
             net'[q] = IF q = Other(p) THEN rest ELSE IF q = p THEN <<>> ELSE net[q]
      BY <2>1, OtherFacts DEF TypeOK
    <2>7. \A q \in Peers : Len(net'[q]) \in Nat /\ Len(net'[q]) <= Len(net[q])
      BY <2>3, <2>4, <2>6
    <2>8. QED
      BY <2>2, <2>5, <2>7 DEF Drains
  <1>3. QED
    BY <1>1, <1>2

(* A write puts one frame into the other side's stream, or cuts its own. *)
Puts(p) ==
    /\ Len(net[Other(p)]) + FRAME <= SockBuf
    /\ rst' = rst
    /\ net' = [net EXCEPT ![Other(p)] = @ \o typed[p]]

LEMMA WriteFacts ==
    ASSUME TypeOK, NEW p \in Peers, Write(p)
    PROVE  Puts(p) \/ Drains
  <1>1. CASE Closed(Other(p))
    <2>1. PICK rest \in Heads(net[p]) : net' = [net EXCEPT ![p] = rest]
      BY <1>1 DEF Write
    <2>2. rest \in Seq(Units) /\ Len(rest) <= Len(net[p])
      BY HeadFacts DEF TypeOK
    <2>3. rst' \in [Peers -> BOOLEAN]
      BY <1>1 DEF Write, TypeOK
    <2>4. QED
      BY <2>1, <2>2, <2>3, CutDrains
  <1>2. CASE ~Closed(Other(p))
    BY <1>2 DEF Write, Puts
  <1>3. QED
    BY <1>1, <1>2

LEMMA PutsFacts ==
    ASSUME TypeOK, NEW p \in Peers, Puts(p)
    PROVE  /\ net' \in [Peers -> Seq(Units)]
           /\ \A q \in Peers : Len(net'[q]) \in Nat /\ Len(net'[q]) <= SockBuf
           /\ Len(net'[Other(p)]) = Len(net[Other(p)]) + FRAME
           /\ net'[p] = net[p]
  <1>1. \A q \in Peers : net[q] \in Seq(Units) /\ Len(net[q]) \in Nat /\ Len(net[q]) <= SockBuf
    BY LenProperties DEF TypeOK
  <1>2. typed[p] \in Seq(Units) /\ Len(typed[p]) = FRAME
    BY BufferFacts DEF TypeOK
  <1> DEFINE s == net[Other(p)] \o typed[p]
  <1>3. s \in Seq(Units) /\ Len(s) = Len(net[Other(p)]) + FRAME
    BY <1>1, <1>2, OtherFacts, ConcatProperties
  <1>4. net' = [net EXCEPT ![Other(p)] = s]
    BY DEF Puts
  <1> HIDE DEF s
  <1>5. /\ net' \in [Peers -> Seq(Units)]
        /\ \A q \in Peers : net'[q] = IF q = Other(p) THEN s ELSE net[q]
    BY <1>3, <1>4, OtherFacts DEF TypeOK
  <1>6. Len(s) \in Nat /\ Len(s) <= SockBuf
    BY <1>1, <1>3, OtherFacts, ConstantFacts DEF Puts
  <1>7. QED
    BY <1>1, <1>3, <1>5, <1>6, OtherFacts

(* A read takes n units off the head of the stream. *)
LEMMA ReadFacts ==
    ASSUME TypeOK, NEW p \in Peers, Read(p)
    PROVE  \E n \in 1..FRAME :
              /\ Drains
              /\ buf' \in [Peers -> Buffers]
              /\ short' = [short EXCEPT ![p] = @ \/ n < FRAME]
              /\ n <= Len(net[p]) /\ Len(net'[p]) = Len(net[p]) - n
              /\ \A q \in Peers : q # p => net'[q] = net[q]
  <1>1. PICK n \in 1..FRAME :
           /\ n <= Len(net[p])
           /\ buf' = [buf EXCEPT ![p] = Over(@, n, net[p])]
           /\ net' = [net EXCEPT ![p] = SubSeq(@, n + 1, Len(@))]
           /\ short' = [short EXCEPT ![p] = @ \/ n < FRAME]
    BY DEF Read
  <1>2. net[p] \in Seq(Units) /\ Len(net[p]) \in Nat /\ n \in 1..Len(net[p])
    BY <1>1, LenProperties, ConstantFacts DEF TypeOK
  <1> DEFINE r == SubSeq(net[p], n + 1, Len(net[p]))
  <1>3. r \in Seq(Units) /\ Len(r) = Len(net[p]) - n
    BY <1>2, TailFacts
  <1>4. net' = [net EXCEPT ![p] = r]
    BY <1>1
  <1> HIDE DEF r
  <1>5. Len(r) <= Len(net[p]) /\ rst' \in [Peers -> BOOLEAN]
    BY <1>2, <1>3 DEF Read, TypeOK
  <1>6. Drains
    BY <1>3, <1>4, <1>5, CutDrains
  <1>7. Over(buf[p], n, net[p]) \in Buffers
    BY <1>1, <1>2, OverFacts DEF TypeOK
  <1>8. buf' \in [Peers -> Buffers]
    BY <1>1, <1>7 DEF TypeOK
  <1>9. Len(net'[p]) = Len(net[p]) - n /\ \A q \in Peers : q # p => net'[q] = net[q]
    BY <1>3, <1>4 DEF TypeOK
  <1>10. QED
    BY <1>1, <1>6, <1>8, <1>9

-----------------------------------------------------------------------------
(* Types. *)

LEMMA DrainsFit ==
    ASSUME TypeOK, Drains
    PROVE  \A q \in Peers : Len(net'[q]) <= SockBuf
  <1>1. \A q \in Peers : Len(net[q]) \in Nat /\ Len(net[q]) <= SockBuf
    BY LenProperties DEF TypeOK
  <1>2. QED
    BY <1>1, ConstantFacts DEF Drains

(* The counters stay in range because of Counts. *)
LEMMA StepTypeOK == IInv /\ [Next]_vars => TypeOK'
  <1> SUFFICES ASSUME IInv, [Next]_vars PROVE TypeOK'
    OBVIOUS
  <1>t. TypeOK /\ Counts
    BY DEF IInv
  <1>0. CASE UNCHANGED vars
    BY <1>0, <1>t DEF vars, TypeOK
  <1>1. ASSUME NEW p \in Peers, Parent(p) \/ Child(p) \/ User(p)
        PROVE  TypeOK'
    <2>1. CASE Fork(p)
      BY <2>1, <1>t DEF Fork, TypeOK
    <2>2. CASE ForkFails(p)
      <3>1. Drains
        BY <2>2, <1>t, CloseDrains DEF ForkFails, ParentEnds
      <3>2. \A q \in Peers : Len(net'[q]) <= SockBuf
        BY <3>1, <1>t, DrainsFit
      <3>3. /\ parent' \in [Peers -> {"fork", "fgets", "write", "end", "error", "sigpipe", "killed"}]
            /\ child' \in [Peers -> {"none", "read", "print", "reprint", "error", "killed"}]
            /\ faulty' \in BOOLEAN
        BY <2>2, <1>t DEF ForkFails, ParentEnds, TypeOK
      <3>4. UNCHANGED <<typed, buf, eof, sent, got, short>>
        BY <2>2 DEF ForkFails
      <3>5. QED
        BY <3>1, <3>2, <3>3, <3>4, <1>t DEF TypeOK, Drains
    <2>3. CASE Fgets(p)
      <3>1. ASSUME NEW l \in Lines
            PROVE  Over(typed[p], Len(l), l) \in Buffers
        <4>1. l \in Seq(Units) /\ Len(l) \in 1..FRAME /\ Len(l) <= Len(l)
          BY ForkChatAssumption
        <4>2. QED
          BY <4>1, <1>t, OverFacts DEF TypeOK
      <3>2. typed' \in [Peers -> Buffers]
        BY <2>3, <3>1, <1>t DEF Fgets, TypeOK
      <3>3. parent' \in [Peers -> {"fork", "fgets", "write", "end", "error", "sigpipe", "killed"}]
        BY <2>3, <1>t DEF Fgets, TypeOK
      <3>4. UNCHANGED <<child, buf, net, rst, eof, sent, got, short, faulty>>
        BY <2>3 DEF Fgets
      <3>5. QED
        BY <3>2, <3>3, <3>4, <1>t DEF TypeOK
    <2>4. CASE FgetsEnd(p)
      <3>1. Drains
        BY <2>4, <1>t, CloseDrains DEF FgetsEnd, ParentEnds
      <3>2. \A q \in Peers : Len(net'[q]) <= SockBuf
        BY <3>1, <1>t, DrainsFit
      <3>3. /\ parent' \in [Peers -> {"fork", "fgets", "write", "end", "error", "sigpipe", "killed"}]
            /\ child' \in [Peers -> {"none", "read", "print", "reprint", "error", "killed"}]
            /\ faulty' \in BOOLEAN
        BY <2>4, <1>t DEF FgetsEnd, ParentEnds, TypeOK
      <3>4. UNCHANGED <<typed, buf, eof, sent, got, short>>
        BY <2>4 DEF FgetsEnd
      <3>5. QED
        BY <3>1, <3>2, <3>3, <3>4, <1>t DEF TypeOK, Drains
    <2>5. CASE Write(p)
      <3>1. /\ net' \in [Peers -> Seq(Units)] /\ rst' \in [Peers -> BOOLEAN]
            /\ \A q \in Peers : Len(net'[q]) <= SockBuf
        <4>1. CASE Puts(p)
          BY <4>1, <1>t, PutsFacts DEF Puts, TypeOK
        <4>2. CASE Drains
          BY <4>2, <1>t, DrainsFit DEF Drains
        <4>3. QED
          BY <2>5, <1>t, <4>1, <4>2, WriteFacts
      <3>2. sent[p] + 1 \in 0..MaxLines
        BY <2>5, <1>t, ConstantFacts DEF Write, TypeOK, Counts
      <3>3. sent' \in [Peers -> 0..MaxLines]
        BY <2>5, <3>2, <1>t DEF Write, TypeOK
      <3>4. parent' \in [Peers -> {"fork", "fgets", "write", "end", "error", "sigpipe", "killed"}]
        BY <2>5, <1>t DEF Write, TypeOK
      <3>5. UNCHANGED <<child, typed, buf, eof, got, short, faulty>>
        BY <2>5 DEF Write
      <3>6. QED
        BY <3>1, <3>3, <3>4, <3>5, <1>t DEF TypeOK
    <2>6. CASE WriteReset(p)
      <3>1. Drains
        BY <2>6, <1>t, CloseDrains DEF WriteReset, ParentEnds
      <3>2. \A q \in Peers : Len(net'[q]) <= SockBuf
        BY <3>1, <1>t, DrainsFit
      <3>3. /\ parent' \in [Peers -> {"fork", "fgets", "write", "end", "error", "sigpipe", "killed"}]
            /\ child' \in [Peers -> {"none", "read", "print", "reprint", "error", "killed"}]
            /\ faulty' \in BOOLEAN
        BY <2>6, <1>t DEF WriteReset, ParentEnds, TypeOK
      <3>4. UNCHANGED <<typed, buf, eof, sent, got, short>>
        BY <2>6 DEF WriteReset
      <3>5. QED
        BY <3>1, <3>2, <3>3, <3>4, <1>t DEF TypeOK, Drains
    <2>7. CASE Read(p)
      <3>1. PICK n \in 1..FRAME :
               /\ Drains
               /\ buf' \in [Peers -> Buffers]
               /\ short' = [short EXCEPT ![p] = @ \/ n < FRAME]
        BY <2>7, <1>t, ReadFacts
      <3>2. \A q \in Peers : Len(net'[q]) <= SockBuf
        BY <3>1, <1>t, DrainsFit
      <3>3. /\ child' \in [Peers -> {"none", "read", "print", "reprint", "error", "killed"}]
            /\ short' \in [Peers -> BOOLEAN]
        BY <2>7, <3>1, <1>t DEF Read, TypeOK
      <3>4. UNCHANGED <<parent, typed, rst, eof, sent, got, faulty>>
        BY <2>7 DEF Read
      <3>5. QED
        BY <3>1, <3>2, <3>3, <3>4, <1>t DEF TypeOK, Drains
    <2>8. CASE ReadEof(p)
      BY <2>8, <1>t DEF ReadEof, TypeOK
    <2>9. CASE ReadReset(p)
      <3>1. Drains
        BY <2>9, <1>t, CloseDrains DEF ReadReset, ChildEnds
      <3>2. \A q \in Peers : Len(net'[q]) <= SockBuf
        BY <3>1, <1>t, DrainsFit
      <3>3. /\ parent' \in [Peers -> {"fork", "fgets", "write", "end", "error", "sigpipe", "killed"}]
            /\ child' \in [Peers -> {"none", "read", "print", "reprint", "error", "killed"}]
            /\ faulty' \in BOOLEAN
        BY <2>9, <1>t DEF ReadReset, ChildEnds, TypeOK
      <3>4. UNCHANGED <<typed, buf, eof, sent, got, short>>
        BY <2>9 DEF ReadReset
      <3>5. QED
        BY <3>1, <3>2, <3>3, <3>4, <1>t DEF TypeOK, Drains
    <2>10. CASE Printf(p)
      <3>1. PrintsFrame(p) => got[p] + 1 \in 0..MaxLines
        <4>1. PICK m \in Nat : Backlog(p, m)
          BY <1>t DEF Counts
        <4>2. PrintsFrame(p) => got[p] + m < sent[Other(p)]
          BY <4>1 DEF Backlog
        <4>3. got[p] \in 0..MaxLines /\ sent[Other(p)] \in 0..MaxLines
          BY <1>t, OtherFacts DEF TypeOK
        <4>4. QED
          BY <4>2, <4>3, ConstantFacts
      <3>2. got' \in [Peers -> 0..MaxLines]
        BY <2>10, <3>1, <1>t DEF Printf, TypeOK
      <3>3. child' \in [Peers -> {"none", "read", "print", "reprint", "error", "killed"}]
        BY <2>10, <1>t DEF Printf, TypeOK
      <3>4. UNCHANGED <<parent, typed, buf, net, rst, eof, sent, short, faulty>>
        BY <2>10 DEF Printf
      <3>5. QED
        BY <3>2, <3>3, <3>4, <1>t DEF TypeOK
    <2>11. CASE CloseStdin(p)
      BY <2>11, <1>t DEF CloseStdin, TypeOK
    <2>12. CASE Signal(p)
      <3>1. Drains
        BY <2>12, <1>t, CloseDrains DEF Signal
      <3>2. \A q \in Peers : Len(net'[q]) <= SockBuf
        BY <3>1, <1>t, DrainsFit
      <3>3. /\ parent' \in [Peers -> {"fork", "fgets", "write", "end", "error", "sigpipe", "killed"}]
            /\ child' \in [Peers -> {"none", "read", "print", "reprint", "error", "killed"}]
            /\ faulty' \in BOOLEAN
        BY <2>12, <1>t DEF Signal, TypeOK
      <3>4. UNCHANGED <<typed, buf, eof, sent, got, short>>
        BY <2>12 DEF Signal
      <3>5. QED
        BY <3>1, <3>2, <3>3, <3>4, <1>t DEF TypeOK, Drains
    <2>13. QED
      BY <1>1, <2>1, <2>2, <2>3, <2>4, <2>5, <2>6, <2>7, <2>8, <2>9, <2>10, <2>11, <2>12 DEF Parent, Child, User
  <1>2. QED
    BY <1>0, <1>1 DEF Next

-----------------------------------------------------------------------------
(* What is printed was written. *)

(* The backlog of q stays what it is while nothing is printed at q, its    *)
(* stream only shrinks, and no frame is about to be printed that was not.  *)
LEMMA BacklogKept ==
    ASSUME TypeOK, TypeOK', NEW q \in Peers, NEW m \in Nat, Backlog(q, m),
           Len(net'[q]) \in Nat, Len(net'[q]) <= Len(net[q]),
           got'[q] = got[q], sent'[Other(q)] >= sent[Other(q)],
           PrintsFrame(q)' => PrintsFrame(q)
    PROVE  Backlog(q, m)'
  <1>1. Len(net[q]) \in Nat /\ m * FRAME \in Nat
    BY LenProperties, ConstantFacts DEF TypeOK
  <1>2. got[q] \in Nat /\ sent[Other(q)] \in Nat /\ sent'[Other(q)] \in Nat
    BY OtherFacts, ConstantFacts DEF TypeOK
  <1>3. QED
    BY <1>1, <1>2 DEF Backlog

(* A step that prints and writes nothing, and at most takes units away.    *)
LEMMA CountsKept ==
    ASSUME TypeOK, TypeOK', Counts, Drains, UNCHANGED <<sent, got, short>>,
           \A q \in Peers : parent'[q] = "write" => sent[q] < MaxLines,
           \A q \in Peers : child'[q] = "print" => child[q] = "print"
    PROVE  Counts'
  <1>1. ASSUME NEW q \in Peers
        PROVE  \E m \in Nat : Backlog(q, m)'
    <2>1. PICK m \in Nat : Backlog(q, m)
      BY DEF Counts
    <2>2. /\ got'[q] = got[q] /\ sent'[Other(q)] >= sent[Other(q)]
          /\ Len(net'[q]) \in Nat /\ Len(net'[q]) <= Len(net[q])
      BY OtherFacts, ConstantFacts DEF Drains, TypeOK
    <2>3. PrintsFrame(q)' => PrintsFrame(q)
      BY DEF PrintsFrame
    <2>4. QED
      BY <2>1, <2>2, <2>3, BacklogKept
  <1>2. QED
    BY <1>1 DEF Counts

LEMMA StepCounts == IInv /\ [Next]_vars => Counts'
  <1> SUFFICES ASSUME IInv, [Next]_vars PROVE Counts'
    OBVIOUS
  <1>t. TypeOK /\ Counts /\ TypeOK'
    BY StepTypeOK DEF IInv
  <1>w. \A q \in Peers : parent[q] = "write" => sent[q] < MaxLines
    BY <1>t DEF Counts
  <1>0. CASE UNCHANGED vars
    BY <1>0, <1>t, <1>w, SameDrains, CountsKept DEF vars
  <1>1. ASSUME NEW p \in Peers, Parent(p) \/ Child(p) \/ User(p)
        PROVE  Counts'
    <2>1. CASE Fork(p)
      <3>1. Drains /\ UNCHANGED <<sent, got, short>>
        BY <2>1, <1>t, SameDrains DEF Fork
      <3>2. /\ \A q \in Peers : parent'[q] = "write" => sent[q] < MaxLines
            /\ \A q \in Peers : child'[q] = "print" => child[q] = "print"
        BY <2>1, <1>t, <1>w DEF Fork, TypeOK
      <3>3. QED
        BY <3>1, <3>2, <1>t, CountsKept
    <2>2. CASE ForkFails(p)
      <3>1. Drains /\ UNCHANGED <<sent, got, short>>
        BY <2>2, <1>t, CloseDrains DEF ForkFails, ParentEnds
      <3>2. /\ \A q \in Peers : parent'[q] = "write" => sent[q] < MaxLines
            /\ \A q \in Peers : child'[q] = "print" => child[q] = "print"
        BY <2>2, <1>t, <1>w DEF ForkFails, ParentEnds, TypeOK
      <3>3. QED
        BY <3>1, <3>2, <1>t, CountsKept
    <2>3. CASE Fgets(p)
      <3>1. Drains /\ UNCHANGED <<sent, got, short>>
        BY <2>3, <1>t, SameDrains DEF Fgets
      <3>2. /\ \A q \in Peers : parent'[q] = "write" => sent[q] < MaxLines
            /\ \A q \in Peers : child'[q] = "print" => child[q] = "print"
        BY <2>3, <1>t, <1>w DEF Fgets, TypeOK
      <3>3. QED
        BY <3>1, <3>2, <1>t, CountsKept
    <2>4. CASE FgetsEnd(p)
      <3>1. Drains /\ UNCHANGED <<sent, got, short>>
        BY <2>4, <1>t, CloseDrains DEF FgetsEnd, ParentEnds
      <3>2. /\ \A q \in Peers : parent'[q] = "write" => sent[q] < MaxLines
            /\ \A q \in Peers : child'[q] = "print" => child[q] = "print"
        BY <2>4, <1>t, <1>w DEF FgetsEnd, ParentEnds, TypeOK
      <3>3. QED
        BY <3>1, <3>2, <1>t, CountsKept
    <2>5. CASE Write(p)
      <3>1. /\ UNCHANGED <<child, got, short>>
            /\ \A q \in Peers : sent'[q] = IF q = p THEN sent[p] + 1 ELSE sent[q]
            /\ \A q \in Peers : parent'[q] = "write" => q # p /\ parent[q] = "write"
        BY <2>5, <1>t DEF Write, TypeOK
      <3>2. \A q \in Peers : sent[q] \in Nat /\ got[q] \in Nat
        BY <1>t, ConstantFacts DEF TypeOK
      <3>3. ASSUME NEW q \in Peers
            PROVE  \E m \in Nat : Backlog(q, m)'
        <4>1. PICK m \in Nat : Backlog(q, m)
          BY <1>t DEF Counts
        <4>2. sent'[Other(q)] >= sent[Other(q)] /\ (PrintsFrame(q)' <=> PrintsFrame(q)) /\ got'[q] = got[q]
          BY <3>1, <3>2, OtherFacts DEF PrintsFrame
        <4>3. CASE Len(net'[q]) \in Nat /\ Len(net'[q]) <= Len(net[q])
          BY <4>1, <4>2, <4>3, <1>t, BacklogKept
        <4>4. CASE Puts(p) /\ q = Other(p)
          <5>1. Len(net'[q]) = Len(net[q]) + FRAME /\ Len(net[q]) \in Nat
            BY <4>4, <1>t, PutsFacts, LenProperties DEF TypeOK
          <5>2. (m + 1) * FRAME = m * FRAME + FRAME /\ m * FRAME \in Nat /\ FRAME \in Nat
            BY ConstantFacts
          <5>3. Len(net[q]) <= m * FRAME /\ got[q] + m <= sent[p]
                /\ (PrintsFrame(q) => got[q] + m < sent[p])
            BY <4>1, <4>4, OtherFacts DEF Backlog
          <5>4. sent'[Other(q)] = sent[p] + 1 /\ sent[p] \in Nat /\ got[q] \in Nat
            BY <3>1, <3>2, <4>4, OtherFacts
          <5>5. Len(net'[q]) <= (m + 1) * FRAME
            BY <5>1, <5>2, <5>3
          <5>6. got[q] + (m + 1) <= sent'[Other(q)]
                /\ (PrintsFrame(q) => got[q] + (m + 1) < sent'[Other(q)])
            BY <5>3, <5>4
          <5>7. Backlog(q, m + 1)'
            BY <4>2, <5>5, <5>6 DEF Backlog
          <5>8. QED
            BY <5>7
        <4>5. QED
          <5>1. CASE Puts(p) /\ q = p
            <6>1. net'[q] = net[q] /\ net[q] \in Seq(Units)
              BY <5>1, <1>t, PutsFacts DEF TypeOK
            <6>2. QED
              BY <4>3, <6>1, LenProperties
          <5>2. CASE Drains
            BY <4>3, <5>2 DEF Drains
          <5>3. q = p \/ q = Other(p)
            BY DEF Peers, Other
          <5>4. QED
            BY <2>5, <1>t, <4>4, <5>1, <5>2, <5>3, WriteFacts
      <3>4. \A q \in Peers : parent'[q] = "write" => sent'[q] < MaxLines
        BY <3>1, <1>w
      <3>5. QED
        BY <3>3, <3>4 DEF Counts
    <2>6. CASE WriteReset(p)
      <3>1. Drains /\ UNCHANGED <<sent, got, short>>
        BY <2>6, <1>t, CloseDrains DEF WriteReset, ParentEnds
      <3>2. /\ \A q \in Peers : parent'[q] = "write" => sent[q] < MaxLines
            /\ \A q \in Peers : child'[q] = "print" => child[q] = "print"
        BY <2>6, <1>t, <1>w DEF WriteReset, ParentEnds, TypeOK
      <3>3. QED
        BY <3>1, <3>2, <1>t, CountsKept
    <2>7. CASE Read(p)
      <3>1. PICK n \in 1..FRAME :
               /\ Drains
               /\ short' = [short EXCEPT ![p] = @ \/ n < FRAME]
               /\ n <= Len(net[p]) /\ Len(net'[p]) = Len(net[p]) - n
               /\ \A q \in Peers : q # p => net'[q] = net[q]
        BY <2>7, <1>t, ReadFacts
      <3>2. /\ UNCHANGED <<parent, sent, got>> /\ child[p] = "read"
            /\ \A q \in Peers : q # p => child'[q] = child[q]
        BY <2>7, <1>t DEF Read, TypeOK
      <3>3. \A q \in Peers : sent[q] \in Nat /\ got[q] \in Nat
        BY <1>t, ConstantFacts DEF TypeOK
      <3>4. ASSUME NEW q \in Peers
            PROVE  \E m \in Nat : Backlog(q, m)'
        <4>1. PICK m \in Nat : Backlog(q, m)
          BY <1>t DEF Counts
        <4>2. /\ Len(net'[q]) \in Nat /\ Len(net'[q]) <= Len(net[q])
              /\ got'[q] = got[q] /\ sent'[Other(q)] >= sent[Other(q)]
          BY <3>1, <3>2, <3>3, OtherFacts DEF Drains
        <4>3. CASE PrintsFrame(q)' => PrintsFrame(q)
          BY <4>1, <4>2, <4>3, <1>t, BacklogKept
        <4>4. CASE PrintsFrame(q)' /\ ~PrintsFrame(q)
          <5>1. q = p
            <6>1. CASE q # p
              <7>1. short'[q] = short[q] /\ child'[q] = child[q]
                BY <6>1, <3>1, <3>2, <1>t DEF TypeOK
              <7>2. QED
                BY <7>1, <4>4 DEF PrintsFrame
            <6>2. QED
              BY <6>1
          <5>2. n = FRAME
            <6>1. short'[p] = (short[p] \/ n < FRAME)
              BY <3>1, <1>t DEF TypeOK
            <6>2. ~short'[p]
              BY <4>4, <5>1 DEF PrintsFrame
            <6>3. ~(n < FRAME)
              BY <6>1, <6>2
            <6>4. QED
              BY <6>3, ConstantFacts
          <5>3. Len(net[q]) \in Nat /\ FRAME <= Len(net[q]) /\ Len(net'[q]) = Len(net[q]) - FRAME
            BY <3>1, <5>1, <5>2, <1>t, LenProperties DEF TypeOK
          <5>4. Len(net[q]) <= m * FRAME /\ got[q] + m <= sent[Other(q)]
            BY <4>1 DEF Backlog
          <5>5. m # 0
            BY <5>3, <5>4, ConstantFacts
          <5>6. PICK k \in Nat : m = k + 1
            <6>1. m - 1 \in Nat /\ m = (m - 1) + 1
              BY <5>5
            <6>2. QED
              BY <6>1
          <5>7. m * FRAME = k * FRAME + FRAME /\ k * FRAME \in Nat /\ FRAME \in Nat
            BY <5>6, ConstantFacts
          <5>8. Len(net'[q]) <= k * FRAME
            BY <5>3, <5>4, <5>7
          <5>9. got'[q] + k < sent'[Other(q)]
            BY <3>2, <3>3, <5>4, <5>6, OtherFacts
          <5>10. got'[q] + k <= sent'[Other(q)]
            BY <3>2, <3>3, <5>9, OtherFacts
          <5>11. QED
            BY <5>8, <5>9, <5>10 DEF Backlog
        <4>5. QED
          BY <4>3, <4>4
      <3>5. QED
        BY <3>2, <3>4, <1>w DEF Counts
    <2>8. CASE ReadEof(p)
      <3>1. Drains /\ UNCHANGED <<sent, got, short>>
        BY <2>8, <1>t, SameDrains DEF ReadEof
      <3>2. /\ \A q \in Peers : parent'[q] = "write" => sent[q] < MaxLines
            /\ \A q \in Peers : child'[q] = "print" => child[q] = "print"
        BY <2>8, <1>t, <1>w DEF ReadEof, TypeOK
      <3>3. QED
        BY <3>1, <3>2, <1>t, CountsKept
    <2>9. CASE ReadReset(p)
      <3>1. Drains /\ UNCHANGED <<sent, got, short>>
        BY <2>9, <1>t, CloseDrains DEF ReadReset, ChildEnds
      <3>2. /\ \A q \in Peers : parent'[q] = "write" => sent[q] < MaxLines
            /\ \A q \in Peers : child'[q] = "print" => child[q] = "print"
        BY <2>9, <1>t, <1>w DEF ReadReset, ChildEnds, TypeOK
      <3>3. QED
        BY <3>1, <3>2, <1>t, CountsKept
    <2>10. CASE Printf(p)
      <3>1. UNCHANGED <<parent, net, rst, sent, short>> /\ Drains
        BY <2>10, <1>t, SameDrains DEF Printf
      <3>2. /\ child'[p] = "read" /\ got'[p] = IF PrintsFrame(p) THEN got[p] + 1 ELSE got[p]
            /\ \A q \in Peers : q # p => child'[q] = child[q] /\ got'[q] = got[q]
        BY <2>10, <1>t DEF Printf, TypeOK
      <3>3. \A q \in Peers : sent[q] \in Nat /\ got[q] \in Nat
        BY <1>t, ConstantFacts DEF TypeOK
      <3>4. ASSUME NEW q \in Peers
            PROVE  \E m \in Nat : Backlog(q, m)'
        <4>1. PICK m \in Nat : Backlog(q, m)
          BY <1>t DEF Counts
        <4>2. CASE q = p
          <5>1. ~PrintsFrame(q)'
            BY <4>2, <3>2 DEF PrintsFrame
          <5>2. got'[q] + m <= sent[Other(q)]
            BY <4>1, <4>2, <3>2, <3>3, OtherFacts DEF Backlog
          <5>3. QED
            BY <4>1, <5>1, <5>2, <3>1 DEF Backlog
        <4>3. CASE q # p
          <5>1. /\ PrintsFrame(q)' <=> PrintsFrame(q)
                /\ got'[q] = got[q] /\ sent' = sent /\ net' = net
            BY <4>3, <3>1, <3>2 DEF PrintsFrame
          <5>2. QED
            BY <4>1, <5>1 DEF Backlog
        <4>4. QED
          BY <4>2, <4>3
      <3>5. QED
        BY <3>1, <3>4, <1>w DEF Counts
    <2>11. CASE CloseStdin(p)
      <3>1. Drains /\ UNCHANGED <<sent, got, short>>
        BY <2>11, <1>t, SameDrains DEF CloseStdin
      <3>2. /\ \A q \in Peers : parent'[q] = "write" => sent[q] < MaxLines
            /\ \A q \in Peers : child'[q] = "print" => child[q] = "print"
        BY <2>11, <1>t, <1>w DEF CloseStdin, TypeOK
      <3>3. QED
        BY <3>1, <3>2, <1>t, CountsKept
    <2>12. CASE Signal(p)
      <3>1. Drains /\ UNCHANGED <<sent, got, short>>
        BY <2>12, <1>t, CloseDrains DEF Signal
      <3>2. /\ \A q \in Peers : parent'[q] = "write" => sent[q] < MaxLines
            /\ \A q \in Peers : child'[q] = "print" => child[q] = "print"
        BY <2>12, <1>t, <1>w DEF Signal, TypeOK
      <3>3. QED
        BY <3>1, <3>2, <1>t, CountsKept
    <2>13. QED
      BY <1>1, <2>1, <2>2, <2>3, <2>4, <2>5, <2>6, <2>7, <2>8, <2>9, <2>10, <2>11, <2>12 DEF Parent, Child, User
  <1>2. QED
    BY <1>0, <1>1 DEF Next

-----------------------------------------------------------------------------
(* What can end. *)

(* Only a fault breaks the connection. *)
LEMMA StepUnbroken == IInv /\ [Next]_vars => Unbroken'
  <1> SUFFICES ASSUME IInv, [Next]_vars PROVE Unbroken'
    OBVIOUS
  <1> USE ForkChatAssumption
  <1>0. CASE UNCHANGED vars
    BY <1>0 DEF IInv, vars, TypeOK, Unbroken, Alone, ForkedOnce, ChildRuns
  <1>1. ASSUME NEW p \in Peers, Parent(p) \/ Child(p) \/ User(p)
        PROVE  Unbroken'
    <2>0. Other(p) \in Peers /\ Other(p) # p /\ Other(Other(p)) = p
      BY OtherFacts
    <2>1. CASE Fork(p)
      BY <2>0, <2>1, OtherFacts DEF IInv, TypeOK, Unbroken, Alone, ForkedOnce, ChildRuns, Fork
    <2>2. CASE ForkFails(p)
      BY <2>0, <2>2, OtherFacts DEF IInv, TypeOK, Unbroken, Alone, ForkedOnce, ChildRuns, ForkFails, ParentEnds, Close
    <2>3. CASE Fgets(p)
      BY <2>0, <2>3, OtherFacts DEF IInv, TypeOK, Unbroken, Alone, ForkedOnce, ChildRuns, Fgets
    <2>4. CASE FgetsEnd(p)
      BY <2>0, <2>4, OtherFacts DEF IInv, TypeOK, Unbroken, Alone, ForkedOnce, ChildRuns, FgetsEnd, ParentEnds, Close
    <2>5. CASE Write(p)
      BY <2>0, <2>5, OtherFacts DEF IInv, TypeOK, Unbroken, Alone, ForkedOnce, ChildRuns, Write, Closed, ParentRuns
    <2>6. CASE WriteReset(p)
      BY <2>0, <2>6, OtherFacts DEF IInv, TypeOK, Unbroken, Alone, ForkedOnce, ChildRuns, WriteReset, ParentEnds, Close
    <2>7. CASE Read(p)
      BY <2>0, <2>7, OtherFacts DEF IInv, TypeOK, Unbroken, Alone, ForkedOnce, ChildRuns, Read
    <2>8. CASE ReadEof(p)
      BY <2>0, <2>8, OtherFacts DEF IInv, TypeOK, Unbroken, Alone, ForkedOnce, ChildRuns, ReadEof, Closed, ParentRuns
    <2>9. CASE ReadReset(p)
      BY <2>0, <2>9, OtherFacts DEF IInv, TypeOK, Unbroken, Alone, ForkedOnce, ChildRuns, ReadReset, ChildEnds, Close, ParentRuns
    <2>10. CASE Printf(p)
      BY <2>0, <2>10, OtherFacts DEF IInv, TypeOK, Unbroken, Alone, ForkedOnce, ChildRuns, Printf
    <2>11. CASE CloseStdin(p)
      BY <2>0, <2>11, OtherFacts DEF IInv, TypeOK, Unbroken, Alone, ForkedOnce, ChildRuns, CloseStdin
    <2>12. CASE Signal(p)
      BY <2>0, <2>12, OtherFacts DEF IInv, TypeOK, Unbroken, Alone, ForkedOnce, ChildRuns, Signal, Closed, Close, ParentRuns
    <2>13. QED
      BY <1>1, <2>1, <2>2, <2>3, <2>4, <2>5, <2>6, <2>7, <2>8, <2>9, <2>10, <2>11, <2>12 DEF Parent, Child, User
  <1>2. QED
    BY <1>0, <1>1 DEF Next

(* Who is gone does not come back. *)
LEMMA StepAlone == IInv /\ [Next]_vars => Alone'
  <1> SUFFICES ASSUME IInv, [Next]_vars PROVE Alone'
    OBVIOUS
  <1> USE ForkChatAssumption
  <1>0. CASE UNCHANGED vars
    BY <1>0 DEF IInv, vars, TypeOK, Alone, ForkedOnce, Closed, ParentRuns, ChildRuns
  <1>1. ASSUME NEW p \in Peers, Parent(p) \/ Child(p) \/ User(p)
        PROVE  Alone'
    <2>0. Other(p) \in Peers /\ Other(p) # p /\ Other(Other(p)) = p
      BY OtherFacts
    <2>1. CASE Fork(p)
      BY <2>0, <2>1, OtherFacts DEF IInv, TypeOK, Alone, ForkedOnce, Closed, ParentRuns, ChildRuns, Fork
    <2>2. CASE ForkFails(p)
      BY <2>0, <2>2, OtherFacts DEF IInv, TypeOK, Alone, ForkedOnce, Closed, ParentRuns, ChildRuns, ForkFails, ParentEnds, Close
    <2>3. CASE Fgets(p)
      BY <2>0, <2>3, OtherFacts DEF IInv, TypeOK, Alone, ForkedOnce, Closed, ParentRuns, ChildRuns, Fgets
    <2>4. CASE FgetsEnd(p)
      BY <2>0, <2>4, OtherFacts DEF IInv, TypeOK, Alone, ForkedOnce, Closed, ParentRuns, ChildRuns, FgetsEnd, ParentEnds, Close
    <2>5. CASE Write(p)
      BY <2>0, <2>5, OtherFacts DEF IInv, TypeOK, Alone, ForkedOnce, Closed, ParentRuns, ChildRuns, Write
    <2>6. CASE WriteReset(p)
      BY <2>0, <2>6, OtherFacts DEF IInv, TypeOK, Alone, ForkedOnce, Closed, ParentRuns, ChildRuns, WriteReset, ParentEnds, Close
    <2>7. CASE Read(p)
      BY <2>0, <2>7, OtherFacts DEF IInv, TypeOK, Alone, ForkedOnce, Closed, ParentRuns, ChildRuns, Read
    <2>8. CASE ReadEof(p)
      BY <2>0, <2>8, OtherFacts DEF IInv, TypeOK, Alone, ForkedOnce, Closed, ParentRuns, ChildRuns, ReadEof
    <2>9. CASE ReadReset(p)
      BY <2>0, <2>9, OtherFacts DEF IInv, TypeOK, Alone, ForkedOnce, Closed, ParentRuns, ChildRuns, ReadReset, ChildEnds, Close
    <2>10. CASE Printf(p)
      BY <2>0, <2>10, OtherFacts DEF IInv, TypeOK, Alone, ForkedOnce, Closed, ParentRuns, ChildRuns, Printf
    <2>11. CASE CloseStdin(p)
      BY <2>0, <2>11, OtherFacts DEF IInv, TypeOK, Alone, ForkedOnce, Closed, ParentRuns, ChildRuns, CloseStdin
    <2>12. CASE Signal(p)
      BY <2>0, <2>12, OtherFacts DEF IInv, TypeOK, Alone, ForkedOnce, Closed, ParentRuns, ChildRuns, Signal, Close
    <2>13. QED
      BY <1>1, <2>1, <2>2, <2>3, <2>4, <2>5, <2>6, <2>7, <2>8, <2>9, <2>10, <2>11, <2>12 DEF Parent, Child, User
  <1>2. QED
    BY <1>0, <1>1 DEF Next

(* The fork is the first step of both programs. *)
LEMMA StepForkedOnce == IInv /\ [Next]_vars => ForkedOnce'
  <1> SUFFICES ASSUME IInv, [Next]_vars PROVE ForkedOnce'
    OBVIOUS
  <1> USE ForkChatAssumption
  <1>0. CASE UNCHANGED vars
    BY <1>0 DEF IInv, vars, TypeOK, ForkedOnce
  <1>1. ASSUME NEW p \in Peers, Parent(p) \/ Child(p) \/ User(p)
        PROVE  ForkedOnce'
    <2>0. Other(p) \in Peers /\ Other(p) # p /\ Other(Other(p)) = p
      BY OtherFacts
    <2>1. CASE Fork(p)
      BY <2>0, <2>1, OtherFacts DEF IInv, TypeOK, ForkedOnce, Fork
    <2>2. CASE ForkFails(p)
      BY <2>0, <2>2, OtherFacts DEF IInv, TypeOK, ForkedOnce, ForkFails, ParentEnds, Close, ChildRuns
    <2>3. CASE Fgets(p)
      BY <2>0, <2>3, OtherFacts DEF IInv, TypeOK, ForkedOnce, Fgets
    <2>4. CASE FgetsEnd(p)
      BY <2>0, <2>4, OtherFacts DEF IInv, TypeOK, ForkedOnce, FgetsEnd, ParentEnds, Close, ChildRuns
    <2>5. CASE Write(p)
      BY <2>0, <2>5, OtherFacts DEF IInv, TypeOK, ForkedOnce, Write, Closed, ParentRuns, ChildRuns
    <2>6. CASE WriteReset(p)
      BY <2>0, <2>6, OtherFacts DEF IInv, TypeOK, ForkedOnce, WriteReset, ParentEnds, Close, ChildRuns
    <2>7. CASE Read(p)
      BY <2>0, <2>7, OtherFacts DEF IInv, TypeOK, ForkedOnce, Read
    <2>8. CASE ReadEof(p)
      BY <2>0, <2>8, OtherFacts DEF IInv, TypeOK, ForkedOnce, ReadEof, Closed, ParentRuns, ChildRuns
    <2>9. CASE ReadReset(p)
      BY <2>0, <2>9, OtherFacts DEF IInv, TypeOK, ForkedOnce, ReadReset, ChildEnds, Close, ParentRuns
    <2>10. CASE Printf(p)
      BY <2>0, <2>10, OtherFacts DEF IInv, TypeOK, ForkedOnce, Printf
    <2>11. CASE CloseStdin(p)
      BY <2>0, <2>11, OtherFacts DEF IInv, TypeOK, ForkedOnce, CloseStdin
    <2>12. CASE Signal(p)
      BY <2>0, <2>12, OtherFacts DEF IInv, TypeOK, ForkedOnce, Signal, Closed, Close, ParentRuns, ChildRuns
    <2>13. QED
      BY <1>1, <2>1, <2>2, <2>3, <2>4, <2>5, <2>6, <2>7, <2>8, <2>9, <2>10, <2>11, <2>12 DEF Parent, Child, User
  <1>2. QED
    BY <1>0, <1>1 DEF Next

-----------------------------------------------------------------------------
(* The theorems. *)

LEMMA Inductive == Spec => []IInv
  <1>1. IInv /\ [Next]_vars => IInv'
    BY StepTypeOK, StepCounts, StepUnbroken, StepAlone, StepForkedOnce DEF IInv
  <1>2. QED
    BY InitInv, <1>1, PTL DEF Spec

(* Every variable keeps its type; in particular no child prints more       *)
(* frames than the other parent may write, however reads split them.       *)
THEOREM ForkChatTypeOK == Spec => []TypeOK
  <1>1. IInv => TypeOK
    BY DEF IInv
  <1>2. QED
    BY Inductive, <1>1, PTL

(* Without a failed fork or a signal no child ever ends and no connection  *)
(* is ever closed, however many of the users have typed END: "close        *)
(* communication with server" (server.c, line 78) is what END never does.  *)
THEOREM ForkChatChildrenOutlive == Spec => []ChildrenOutlive
  <1>1. IInv => ChildrenOutlive
    BY DEF IInv, Unbroken, ChildrenOutlive, Closed
  <1>2. QED
    BY Inductive, <1>1, PTL

(* A child prints its last line again only when the other side is gone,    *)
(* and only after a fault.                                                 *)
THEOREM ForkChatRepeatsOnlyWhenAlone == Spec => []RepeatsOnlyWhenAlone
  <1>1. IInv => RepeatsOnlyWhenAlone
    BY DEF IInv, TypeOK, Unbroken, Alone, RepeatsOnlyWhenAlone
  <1>2. QED
    BY Inductive, <1>1, PTL
=============================================================================

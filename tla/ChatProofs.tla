----------------------------- MODULE ChatProofs -----------------------------
(* Machine-checked proofs about Chat, for every set of units and lines,    *)
(* every buffer length, every splitting of the stream by recv and every    *)
(* socket buffer.                                                          *)
EXTENDS Chat, SequenceTheorems, TLAPS

(* The i-th frame of a stream that starts with a frame begins with "#END". *)
EndAt(s, i) ==
    /\ i * BUFFER_LEN + Len(Word) <= Len(s)
    /\ \A k \in 1..Len(Word) : s[i * BUFFER_LEN + k] = Word[k]

(* As long as no recv was short, "#END" at the start of a buffer or of a   *)
(* frame on its way was typed by its author.                               *)
EndsHaveAuthors ==
    \A p \in Peers :
        /\ Says(tbuf[p]) => ended[p]
        /\ ~short[p] =>
               /\ Says(hbuf[p]) => ended[Other(p)]
               /\ \A i \in Nat : EndAt(net[p], i) => ended[Other(p)]
        /\ END_COM[p] = 1 => ended[p] \/ ended[Other(p)] \/ short[p]

(* Until then a stream between two running peers consists of whole frames. *)
WholeFrames ==
    \A p \in Peers :
        Running(p) /\ Running(Other(p)) /\ ~short[p] =>
            \E m \in Nat : Len(net[p]) = m * BUFFER_LEN

(* What the flags say about the threads. *)
FlagsMatchThreads ==
    \A p \in Peers : Running(p) =>
        /\ hpc[p] \in {"clear", "return", "exited"} => END_COM[p] = 1
        /\ tpc[p] \in {"clear", "return", "exited"} => END_COM[p] = 1
        /\ (HEAR[p] = 0) <=> (hpc[p] \in {"return", "exited"})
        /\ (TALK[p] = 0) <=> (tpc[p] \in {"return", "exited"})

(* What main knows by the time it is where it is. *)
MainKnows ==
    \A p \in Peers : Running(p) =>
        /\ mpc[p] = "kill_talk" => HEAR[p] = 0
        /\ mpc[p] = "kill_hear" => TALK[p] = 0
        /\ mpc[p] \in {"join_talk", "join_hear", "done"} =>
               HEAR[p] = 0 /\ TALK[p] = 0 /\ "exited" \in {hpc[p], tpc[p]}

(* The inductive invariant.  None of the properties of Chat is inductive   *)
(* alone: that a process stops itself only after an "#END" rests on what   *)
(* main knew when it decided, that on what the flags say of the threads,   *)
(* and END_COM itself on where the frames begin in the stream.             *)
IInv == /\ TypeOK
        /\ WholeFrames
        /\ EndsHaveAuthors
        /\ FlagsMatchThreads
        /\ MainKnows
        /\ StopsOnlyAfterEnd

-----------------------------------------------------------------------------
LEMMA OtherFacts ==
    ASSUME NEW p \in Peers
    PROVE  /\ Other(p) \in Peers /\ Other(p) # p /\ Other(Other(p)) = p
           /\ \A r \in Peers : r = p \/ r = Other(p)
  BY DEF Peers, Other

LEMMA BufferFacts ==
    ASSUME NEW b \in Buffers
    PROVE  b \in Seq(Units) /\ Len(b) = BUFFER_LEN
  BY ChatAssumption DEF Buffers

(* What is left of a stream after its first n units. *)
LEMMA TailFacts ==
    ASSUME NEW s \in Seq(Units), NEW n \in 1..Len(s)
    PROVE  /\ SubSeq(s, n + 1, Len(s)) \in Seq(Units)
           /\ Len(SubSeq(s, n + 1, Len(s))) = Len(s) - n
           /\ \A k \in 1..(Len(s) - n) : SubSeq(s, n + 1, Len(s))[k] = s[n + k]
  <1>1. Len(s) \in Nat /\ \A i \in n + 1..Len(s) : s[i] \in Units
    BY LenProperties
  <1>2. /\ SubSeq(s, n + 1, Len(s)) \in Seq(Units)
        /\ Len(SubSeq(s, n + 1, Len(s))) = (IF n + 1 <= Len(s) THEN Len(s) - (n + 1) + 1 ELSE 0)
        /\ \A k \in 1..(Len(s) - (n + 1) + 1) : SubSeq(s, n + 1, Len(s))[k] = s[(n + 1) + k - 1]
    BY <1>1, SubSeqProperties
  <1>3. QED
    BY <1>1, <1>2

LEMMA HeadFacts ==
    ASSUME NEW s \in Seq(Units), NEW h \in Heads(s)
    PROVE  /\ h \in Seq(Units)
           /\ Len(h) <= Len(s)
           /\ \A k \in 1..Len(h) : h[k] = s[k]
  <1>1. PICK n \in 0..Len(s) : h = SubSeq(s, 1, n)
    BY DEF Heads
  <1>2. Len(s) \in Nat /\ \A i \in 1..n : s[i] \in Units
    BY LenProperties
  <1>3. /\ h \in Seq(Units)
        /\ Len(h) = (IF 1 <= n THEN n - 1 + 1 ELSE 0)
        /\ \A k \in 1..(n - 1 + 1) : h[k] = s[1 + k - 1]
    BY <1>1, <1>2, SubSeqProperties
  <1>4. QED
    BY <1>2, <1>3

LEMMA ConstantFacts ==
    /\ BUFFER_LEN \in Nat /\ BUFFER_LEN > 0
    /\ Len(Word) \in Nat /\ Len(Word) > 0 /\ Len(Word) <= BUFFER_LEN
    /\ \A i \in Nat : i * BUFFER_LEN \in Nat
    /\ \A i \in Nat : (i + 1) * BUFFER_LEN = i * BUFFER_LEN + BUFFER_LEN
  BY ChatAssumption

LEMMA NoFrames == 0 * BUFFER_LEN = 0
  BY ConstantFacts

LEMMA OrderOfFrames ==
    ASSUME NEW i \in Nat, NEW m \in Nat
    PROVE  /\ i < m => i * BUFFER_LEN + BUFFER_LEN <= m * BUFFER_LEN
           /\ m < i => m * BUFFER_LEN + BUFFER_LEN <= i * BUFFER_LEN
  <1> DEFINE B == BUFFER_LEN
  <1>1. B \in Nat
    BY ConstantFacts
  <1>2. \A d \in Nat : d * B \in Nat
    BY <1>1
  <1>3. ASSUME NEW a \in Nat, NEW b \in Nat, a < b
        PROVE  a * B + B <= b * B
    <2>1. PICK d \in Nat : b = a + 1 + d
      <3>1. b - a - 1 \in Nat /\ b = a + 1 + (b - a - 1)
        BY <1>3
      <3>2. QED
        BY <3>1
    <2>2. b * B = a * B + B + d * B
      BY <1>1, <2>1
    <2>3. QED
      BY <1>1, <1>2, <2>2
  <1>4. QED
    BY <1>3

(* A head of a stream has its frames where the stream has them, ...        *)
LEMMA EndInHead ==
    ASSUME NEW s \in Seq(Units), NEW h \in Heads(s), NEW i \in Nat, EndAt(h, i)
    PROVE  EndAt(s, i)
  <1>1. /\ h \in Seq(Units) /\ Len(h) \in Nat /\ Len(s) \in Nat /\ Len(h) <= Len(s)
        /\ \A k \in 1..Len(h) : h[k] = s[k]
    BY HeadFacts, LenProperties
  <1>2. ASSUME NEW k \in 1..Len(Word)
        PROVE  i * BUFFER_LEN + k \in 1..Len(h)
    <2>1. i * BUFFER_LEN \in Nat /\ Len(Word) \in Nat
      BY ConstantFacts
    <2>2. i * BUFFER_LEN + Len(Word) <= Len(h)
      BY DEF EndAt
    <2>3. QED
      BY <1>1, <2>1, <2>2
  <1>3. QED
    BY <1>1, <1>2, ConstantFacts DEF EndAt

(* ... what a whole recv leaves has them one place earlier, ...            *)
LEMMA EndInTail ==
    ASSUME NEW s \in Seq(Units), BUFFER_LEN <= Len(s), NEW i \in Nat,
           EndAt(SubSeq(s, BUFFER_LEN + 1, Len(s)), i)
    PROVE  EndAt(s, i + 1)
  <1> DEFINE t == SubSeq(s, BUFFER_LEN + 1, Len(s))
  <1>1. Len(s) \in Nat /\ BUFFER_LEN \in 1..Len(s)
    BY ConstantFacts, LenProperties
  <1>2. Len(t) = Len(s) - BUFFER_LEN /\ \A k \in 1..(Len(s) - BUFFER_LEN) : t[k] = s[BUFFER_LEN + k]
    BY <1>1, TailFacts
  <1> HIDE DEF t
  <1>3. i * BUFFER_LEN + Len(Word) <= Len(t) /\ \A k \in 1..Len(Word) : t[i * BUFFER_LEN + k] = Word[k]
    BY DEF EndAt, t
  <1>4. (i + 1) * BUFFER_LEN = i * BUFFER_LEN + BUFFER_LEN /\ i * BUFFER_LEN \in Nat
    BY ConstantFacts
  <1>5. (i + 1) * BUFFER_LEN + Len(Word) <= Len(s)
    BY <1>1, <1>2, <1>3, <1>4, ConstantFacts
  <1>6. ASSUME NEW k \in 1..Len(Word)
        PROVE  s[(i + 1) * BUFFER_LEN + k] = Word[k]
    <2>1. i * BUFFER_LEN + k \in 1..(Len(s) - BUFFER_LEN)
      BY <1>1, <1>2, <1>3, <1>4, ConstantFacts
    <2>2. t[i * BUFFER_LEN + k] = s[BUFFER_LEN + (i * BUFFER_LEN + k)]
      BY <1>2, <2>1
    <2>3. BUFFER_LEN + (i * BUFFER_LEN + k) = (i + 1) * BUFFER_LEN + k
      BY <1>1, <1>4, ConstantFacts
    <2>4. QED
      BY <1>3, <2>2, <2>3
  <1>7. QED
    BY <1>5, <1>6 DEF EndAt

(* ... and a frame appended to whole frames begins with "#END" only if the *)
(* buffer that was sent does.                                              *)
LEMMA EndInConcat ==
    ASSUME NEW s \in Seq(Units), NEW b \in Buffers, NEW m \in Nat, Len(s) = m * BUFFER_LEN,
           NEW i \in Nat, EndAt(s \o b, i)
    PROVE  EndAt(s, i) \/ Says(b)
  <1>1. b \in Seq(Units) /\ Len(b) = BUFFER_LEN
    BY BufferFacts
  <1>2. /\ Len(s \o b) = Len(s) + BUFFER_LEN /\ Len(s) \in Nat
        /\ \A k \in 1..Len(s) + BUFFER_LEN :
              (s \o b)[k] = IF k <= Len(s) THEN s[k] ELSE b[k - Len(s)]
    BY <1>1, ConcatProperties, LenProperties
  <1>3. /\ i * BUFFER_LEN + Len(Word) <= Len(s) + BUFFER_LEN
        /\ \A k \in 1..Len(Word) : (s \o b)[i * BUFFER_LEN + k] = Word[k]
    BY <1>2 DEF EndAt
  <1>4. i * BUFFER_LEN \in Nat /\ m * BUFFER_LEN \in Nat
    BY ConstantFacts
  <1>5. CASE i < m
    <2>1. i * BUFFER_LEN + BUFFER_LEN <= Len(s)
      BY <1>5, OrderOfFrames
    <2>2. i * BUFFER_LEN + Len(Word) <= Len(s)
      BY <1>2, <1>4, <2>1, ConstantFacts
    <2>3. ASSUME NEW k \in 1..Len(Word)
          PROVE  s[i * BUFFER_LEN + k] = Word[k]
      <3>1. i * BUFFER_LEN + k \in 1..Len(s) + BUFFER_LEN /\ i * BUFFER_LEN + k <= Len(s)
        BY <1>2, <1>4, <2>2, ConstantFacts
      <3>2. QED
        BY <1>2, <1>3, <3>1
    <2>4. QED
      BY <2>2, <2>3 DEF EndAt
  <1>6. CASE i = m
    <2>1. ASSUME NEW k \in 1..Len(Word)
          PROVE  b[k] = Word[k]
      <3>1. /\ i * BUFFER_LEN + k \in 1..Len(s) + BUFFER_LEN
            /\ ~(i * BUFFER_LEN + k <= Len(s))
            /\ (i * BUFFER_LEN + k) - Len(s) = k
        BY <1>2, <1>4, <1>6, ConstantFacts
      <3>2. QED
        BY <1>2, <1>3, <3>1
    <2>2. QED
      BY <2>1 DEF Says
  <1>7. CASE i > m
    <2>1. Len(s) + BUFFER_LEN <= i * BUFFER_LEN
      BY <1>7, OrderOfFrames
    <2>2. Len(Word) \in Nat /\ Len(Word) > 0 /\ BUFFER_LEN \in Nat
      BY ConstantFacts
    <2>3. QED
      BY <1>2, <1>3, <1>4, <2>1, <2>2
  <1>8. QED
    BY <1>5, <1>6, <1>7

LEMMA EndInNothing ==
    ASSUME NEW i \in Nat
    PROVE  ~EndAt(<<>>, i)
  <1>1. Len(<<>>) = 0 /\ i * BUFFER_LEN \in Nat
    BY ConstantFacts, EmptySeq
  <1>2. QED
    BY <1>1, ConstantFacts DEF EndAt

LEMMA InitInv == Init => IInv
  <1> SUFFICES ASSUME Init PROVE IInv
    OBVIOUS
  <1>1. TypeOK
    BY ChatAssumption DEF Init, TypeOK, Peers
  <1>2. WholeFrames
    <2>1. 0 \in Nat /\ Len(<<>>) = 0 * BUFFER_LEN
      BY NoFrames, EmptySeq
    <2>2. QED
      BY <2>1 DEF Init, WholeFrames
  <1>3. EndsHaveAuthors
    BY EndInNothing, ChatAssumption DEF Init, EndsHaveAuthors
  <1>4. FlagsMatchThreads /\ MainKnows /\ StopsOnlyAfterEnd
    BY DEF Init, FlagsMatchThreads, MainKnows, StopsOnlyAfterEnd
  <1>5. QED
    BY <1>1, <1>2, <1>3, <1>4 DEF IInv

-----------------------------------------------------------------------------
(* Types are preserved. *)

LEMMA DieTypeOK ==
    ASSUME TypeOK, NEW p \in Peers,
           NEW how \in {"returned", "sigterm", "sigpipe", "interrupted"}, Die(p, how)
    PROVE  TypeOK'
  <1>1. <<>> \in Seq(Units) /\ Junk \in Buffers
    BY EmptySeq, ChatAssumption
  <1>2. \A rest \in Heads(net[Other(p)]) : rest \in Seq(Units)
    BY OtherFacts, HeadFacts DEF TypeOK
  <1>3. net' \in [Peers -> Seq(Units)] /\ rst' \in [Peers -> BOOLEAN]
    BY <1>1, <1>2, OtherFacts DEF Die, TypeOK
  <1>4. QED
    BY <1>1, <1>3 DEF Die, TypeOK

(* A buffer that takes the head of a sequence is a buffer. *)
LEMMA OverFacts ==
    ASSUME NEW b \in Buffers, NEW s \in Seq(Units), NEW n \in 1..BUFFER_LEN, n <= Len(s)
    PROVE  Over(b, n, s) \in Buffers
  <1>1. \A k \in 1..BUFFER_LEN : k <= n => s[k] \in Units
    BY ConstantFacts, LenProperties
  <1>2. QED
    BY <1>1 DEF Over, Buffers

LEMMA StepTypeOK ==
    TypeOK /\ [Next]_vars => TypeOK'
  <1> SUFFICES ASSUME TypeOK, [Next]_vars
               PROVE  TypeOK'
    OBVIOUS
  <1>stutter. CASE UNCHANGED vars
    BY <1>stutter DEF vars, TypeOK, flags
  <1>next. ASSUME NEW p \in Peers, Hear(p) \/ Talk(p) \/ Main(p) \/ User(p)
           PROVE  TypeOK'
    <2>1. CASE HearStart(p)
      BY <2>1 DEF HearStart, HearLoop, TypeOK, flags
    <2>2. CASE Recv(p)
      <3>1. PICK n \in 1..BUFFER_LEN :
               /\ n <= Len(net[p])
               /\ hbuf' = [hbuf EXCEPT ![p] = Over(@, n, net[p])]
               /\ net' = [net EXCEPT ![p] = SubSeq(@, n + 1, Len(@))]
               /\ short' = [short EXCEPT ![p] = @ \/ n < BUFFER_LEN]
        BY <2>2 DEF Recv
      <3>2. Over(hbuf[p], n, net[p]) \in Buffers
        BY <3>1, OverFacts DEF TypeOK
      <3>3. n \in 1..Len(net[p])
        BY <3>1, LenProperties, ConstantFacts DEF TypeOK
      <3>4. SubSeq(net[p], n + 1, Len(net[p])) \in Seq(Units)
        BY <3>3, TailFacts DEF TypeOK
      <3>5. short' \in [Peers -> BOOLEAN]
        BY <3>1 DEF TypeOK
      <3>6. QED
        BY <2>2, <3>1, <3>2, <3>4, <3>5 DEF Recv, TypeOK, flags
    <2>3. CASE RecvNothing(p)
      BY <2>3 DEF RecvNothing, TypeOK, flags
    <2>4. CASE HearCheck(p)
      BY <2>4 DEF HearCheck, HearLoop, TypeOK, flags
    <2>5. CASE HearClear(p)
      BY <2>5 DEF HearClear, TypeOK, flags
    <2>6. CASE HearReturn(p)
      BY <2>6, ChatAssumption DEF HearReturn, TypeOK, flags
    <2>7. CASE TalkStart(p)
      BY <2>7 DEF TalkStart, TalkLoop, TypeOK, flags
    <2>8. CASE Send(p)
      <3>1. Other(p) \in Peers /\ tbuf[p] \in Seq(Units)
        BY OtherFacts, BufferFacts DEF TypeOK
      <3>2. net[Other(p)] \o tbuf[p] \in Seq(Units)
        BY <3>1, ConcatProperties DEF TypeOK
      <3>3. \A rest \in Heads(net[p]) : rest \in Seq(Units)
        BY HeadFacts DEF TypeOK
      <3>4. net' \in [Peers -> Seq(Units)] /\ rst' \in [Peers -> BOOLEAN]
        BY <2>8, <3>1, <3>2, <3>3 DEF Send, TypeOK
      <3>5. QED
        BY <2>8, <3>4 DEF Send, TypeOK, flags
    <2>9. CASE SendReset(p)
      <3>1. CASE Die(p, "sigpipe")
        BY <3>1, DieTypeOK
      <3>2. CASE ~Die(p, "sigpipe")
        BY <2>9, <3>2 DEF SendReset, TypeOK, flags
      <3>3. QED
        BY <3>1, <3>2
    <2>10. CASE TalkCheck(p)
      BY <2>10 DEF TalkCheck, TalkLoop, TypeOK, flags
    <2>11. CASE TalkClear(p)
      BY <2>11 DEF TalkClear, TypeOK, flags
    <2>12. CASE TalkReturn(p)
      BY <2>12, ChatAssumption DEF TalkReturn, TypeOK, flags
    <2>13. CASE Poll(p)
      BY <2>13 DEF Poll, TypeOK, flags
    <2>14. CASE KillTalk(p)
      <3>1. CASE Die(p, "sigterm")
        BY <3>1, DieTypeOK
      <3>2. CASE ~Die(p, "sigterm")
        BY <2>14, <3>2 DEF KillTalk, Kill, TypeOK, flags
      <3>3. QED
        BY <3>1, <3>2
    <2>15. CASE KillHear(p)
      <3>1. CASE Die(p, "sigterm")
        BY <3>1, DieTypeOK
      <3>2. CASE ~Die(p, "sigterm")
        BY <2>15, <3>2 DEF KillHear, Kill, TypeOK, flags
      <3>3. QED
        BY <3>1, <3>2
    <2>16. CASE JoinTalk(p)
      BY <2>16 DEF JoinTalk, TypeOK, flags
    <2>17. CASE JoinHear(p)
      BY <2>17, DieTypeOK DEF JoinHear
    <2>18. CASE Fgets(p)
      <3>1. PICK l \in Lines[p] : tbuf' = [tbuf EXCEPT ![p] = Over(@, Len(l), l)]
        BY <2>18 DEF Fgets
      <3>2. l \in Seq(Units) /\ Len(l) \in 1..BUFFER_LEN /\ Len(l) <= Len(l)
        BY ChatAssumption
      <3>3. Over(tbuf[p], Len(l), l) \in Buffers
        BY <3>2, OverFacts DEF TypeOK
      <3>4. Says(tbuf'[p]) \in BOOLEAN
        BY DEF Says
      <3>5. QED
        BY <2>18, <3>1, <3>3, <3>4 DEF Fgets, TypeOK, flags
    <2>19. CASE FgetsEof(p)
      BY <2>19 DEF FgetsEof, TypeOK, flags
    <2>20. CASE Interrupt(p)
      BY <2>20, DieTypeOK DEF Interrupt
    <2>21. QED
      BY <1>next, <2>1, <2>2, <2>3, <2>4, <2>5, <2>6, <2>7, <2>8, <2>9, <2>10, <2>11, <2>12, <2>13, <2>14, <2>15, <2>16, <2>17, <2>18, <2>19, <2>20 DEF Hear, Talk, Main, User
  <1>last. QED
    BY <1>stutter, <1>next DEF Next

-----------------------------------------------------------------------------
(* The threads, the flags and main. *)

LEMMA StepFlagsMatchThreads ==
    TypeOK /\ FlagsMatchThreads /\ [Next]_vars => FlagsMatchThreads'
  <1> SUFFICES ASSUME TypeOK, FlagsMatchThreads, [Next]_vars
               PROVE  FlagsMatchThreads'
    OBVIOUS
  <1>stutter. CASE UNCHANGED vars
    BY <1>stutter DEF vars, FlagsMatchThreads, Running, flags
  <1>next. ASSUME NEW p \in Peers, Hear(p) \/ Talk(p) \/ Main(p) \/ User(p)
           PROVE  FlagsMatchThreads'
    <2>1. CASE HearStart(p)
      BY <2>1 DEF HearStart, HearLoop, TypeOK, FlagsMatchThreads, Running, flags
    <2>2. CASE Recv(p)
      BY <2>2 DEF Recv, TypeOK, FlagsMatchThreads, Running, flags
    <2>3. CASE RecvNothing(p)
      BY <2>3 DEF RecvNothing, TypeOK, FlagsMatchThreads, Running, flags
    <2>4. CASE HearCheck(p)
      BY <2>4 DEF HearCheck, HearLoop, TypeOK, FlagsMatchThreads, Running, flags
    <2>5. CASE HearClear(p)
      BY <2>5 DEF HearClear, TypeOK, FlagsMatchThreads, Running, flags
    <2>6. CASE HearReturn(p)
      BY <2>6 DEF HearReturn, TypeOK, FlagsMatchThreads, Running, flags
    <2>7. CASE TalkStart(p)
      BY <2>7 DEF TalkStart, TalkLoop, TypeOK, FlagsMatchThreads, Running, flags
    <2>8. CASE Send(p)
      BY <2>8 DEF Send, TypeOK, FlagsMatchThreads, Running, flags
    <2>9. CASE SendReset(p)
      <3>1. CASE Die(p, "sigpipe")
        BY <3>1 DEF Die, TypeOK, FlagsMatchThreads, Running
      <3>2. CASE ~Die(p, "sigpipe")
        BY <2>9, <3>2 DEF SendReset, TypeOK, FlagsMatchThreads, Running, flags
      <3>3. QED
        BY <3>1, <3>2
    <2>10. CASE TalkCheck(p)
      BY <2>10 DEF TalkCheck, TalkLoop, TypeOK, FlagsMatchThreads, Running, flags
    <2>11. CASE TalkClear(p)
      BY <2>11 DEF TalkClear, TypeOK, FlagsMatchThreads, Running, flags
    <2>12. CASE TalkReturn(p)
      BY <2>12 DEF TalkReturn, TypeOK, FlagsMatchThreads, Running, flags
    <2>13. CASE Poll(p)
      BY <2>13 DEF Poll, TypeOK, FlagsMatchThreads, Running, flags
    <2>14. CASE KillTalk(p)
      BY <2>14 DEF KillTalk, Kill, Die, TypeOK, FlagsMatchThreads, Running, flags
    <2>15. CASE KillHear(p)
      BY <2>15 DEF KillHear, Kill, Die, TypeOK, FlagsMatchThreads, Running, flags
    <2>16. CASE JoinTalk(p)
      BY <2>16 DEF JoinTalk, TypeOK, FlagsMatchThreads, Running, flags
    <2>17. CASE JoinHear(p)
      BY <2>17 DEF JoinHear, Die, TypeOK, FlagsMatchThreads, Running, flags
    <2>18. CASE Fgets(p)
      BY <2>18 DEF Fgets, TypeOK, FlagsMatchThreads, Running, flags
    <2>19. CASE FgetsEof(p)
      BY <2>19 DEF FgetsEof, TypeOK, FlagsMatchThreads, Running, flags
    <2>20. CASE Interrupt(p)
      BY <2>20 DEF Interrupt, Die, TypeOK, FlagsMatchThreads, Running, flags
    <2>21. QED
      BY <1>next, <2>1, <2>2, <2>3, <2>4, <2>5, <2>6, <2>7, <2>8, <2>9, <2>10, <2>11, <2>12, <2>13, <2>14, <2>15, <2>16, <2>17, <2>18, <2>19, <2>20 DEF Hear, Talk, Main, User
  <1>last. QED
    BY <1>stutter, <1>next DEF Next

LEMMA StepMainKnows ==
    TypeOK /\ FlagsMatchThreads /\ MainKnows /\ [Next]_vars => MainKnows'
  <1> SUFFICES ASSUME TypeOK, FlagsMatchThreads, MainKnows, [Next]_vars
               PROVE  MainKnows'
    OBVIOUS
  <1>stutter. CASE UNCHANGED vars
    BY <1>stutter DEF vars, FlagsMatchThreads, MainKnows, Running, flags
  <1>next. ASSUME NEW p \in Peers, Hear(p) \/ Talk(p) \/ Main(p) \/ User(p)
           PROVE  MainKnows'
    <2>1. CASE HearStart(p)
      BY <2>1 DEF HearStart, HearLoop, TypeOK, FlagsMatchThreads, MainKnows, Running, flags
    <2>2. CASE Recv(p)
      BY <2>2 DEF Recv, TypeOK, FlagsMatchThreads, MainKnows, Running, flags
    <2>3. CASE RecvNothing(p)
      BY <2>3 DEF RecvNothing, TypeOK, FlagsMatchThreads, MainKnows, Running, flags
    <2>4. CASE HearCheck(p)
      BY <2>4 DEF HearCheck, HearLoop, TypeOK, FlagsMatchThreads, MainKnows, Running, flags
    <2>5. CASE HearClear(p)
      BY <2>5 DEF HearClear, TypeOK, FlagsMatchThreads, MainKnows, Running, flags
    <2>6. CASE HearReturn(p)
      BY <2>6 DEF HearReturn, TypeOK, FlagsMatchThreads, MainKnows, Running, flags
    <2>7. CASE TalkStart(p)
      BY <2>7 DEF TalkStart, TalkLoop, TypeOK, FlagsMatchThreads, MainKnows, Running, flags
    <2>8. CASE Send(p)
      BY <2>8 DEF Send, TypeOK, FlagsMatchThreads, MainKnows, Running, flags
    <2>9. CASE SendReset(p)
      BY <2>9 DEF SendReset, Die, TypeOK, FlagsMatchThreads, MainKnows, Running, flags
    <2>10. CASE TalkCheck(p)
      BY <2>10 DEF TalkCheck, TalkLoop, TypeOK, FlagsMatchThreads, MainKnows, Running, flags
    <2>11. CASE TalkClear(p)
      BY <2>11 DEF TalkClear, TypeOK, FlagsMatchThreads, MainKnows, Running, flags
    <2>12. CASE TalkReturn(p)
      BY <2>12 DEF TalkReturn, TypeOK, FlagsMatchThreads, MainKnows, Running, flags
    <2>13. CASE Poll(p)
      BY <2>13 DEF Poll, TypeOK, FlagsMatchThreads, MainKnows, Running, flags
    <2>14. CASE KillTalk(p)
      BY <2>14 DEF KillTalk, Kill, Die, TypeOK, FlagsMatchThreads, MainKnows, Running, flags
    <2>15. CASE KillHear(p)
      BY <2>15 DEF KillHear, Kill, Die, TypeOK, FlagsMatchThreads, MainKnows, Running, flags
    <2>16. CASE JoinTalk(p)
      BY <2>16 DEF JoinTalk, TypeOK, FlagsMatchThreads, MainKnows, Running, flags
    <2>17. CASE JoinHear(p)
      BY <2>17 DEF JoinHear, Die, TypeOK, FlagsMatchThreads, MainKnows, Running, flags
    <2>18. CASE Fgets(p)
      BY <2>18 DEF Fgets, TypeOK, FlagsMatchThreads, MainKnows, Running, flags
    <2>19. CASE FgetsEof(p)
      BY <2>19 DEF FgetsEof, TypeOK, FlagsMatchThreads, MainKnows, Running, flags
    <2>20. CASE Interrupt(p)
      BY <2>20 DEF Interrupt, Die, TypeOK, FlagsMatchThreads, MainKnows, Running, flags
    <2>21. QED
      BY <1>next, <2>1, <2>2, <2>3, <2>4, <2>5, <2>6, <2>7, <2>8, <2>9, <2>10, <2>11, <2>12, <2>13, <2>14, <2>15, <2>16, <2>17, <2>18, <2>19, <2>20 DEF Hear, Talk, Main, User
  <1>last. QED
    BY <1>stutter, <1>next DEF Next

-----------------------------------------------------------------------------
(* The frames of the stream, and their authors. *)

LEMMA DieWholeFrames ==
    ASSUME TypeOK, NEW p \in Peers,
           NEW how \in {"returned", "sigterm", "sigpipe", "interrupted"}, Die(p, how)
    PROVE  WholeFrames'
  <1>1. fate'[p] # "running"
    BY DEF Die, TypeOK
  <1>2. QED
    BY <1>1, OtherFacts DEF WholeFrames, Running

LEMMA DieAuthors ==
    ASSUME TypeOK, EndsHaveAuthors, NEW p \in Peers,
           NEW how \in {"returned", "sigterm", "sigpipe", "interrupted"}, Die(p, how)
    PROVE  EndsHaveAuthors'
  <1> DEFINE q == Other(p)
  <1>1. q \in Peers /\ q # p /\ Other(q) = p /\ \A r \in Peers : r = p \/ r = q
    BY OtherFacts
  <1>2. /\ tbuf'[p] = Junk /\ hbuf'[p] = Junk /\ END_COM'[p] = 0
        /\ tbuf'[q] = tbuf[q] /\ hbuf'[q] = hbuf[q] /\ END_COM'[q] = END_COM[q]
        /\ ended' = ended /\ short' = short
    BY <1>1 DEF Die, TypeOK
  <1>3. net'[p] = <<>>
    BY <1>1 DEF Die, TypeOK
  <1>4. \A i \in Nat : EndAt(net'[q], i) => EndAt(net[q], i)
    <2>1. CASE net'[q] = net[q]
      BY <2>1
    <2>2. CASE net'[q] # net[q]
      <3>1. net'[q] \in Heads(net[q]) /\ net[q] \in Seq(Units)
        BY <1>1, <2>2 DEF Die, TypeOK
      <3>2. QED
        BY <3>1, EndInHead
    <2>3. QED
      BY <2>1, <2>2
  <1>5. QED
    BY <1>1, <1>2, <1>3, <1>4, EndInNothing, ChatAssumption DEF EndsHaveAuthors

LEMMA StepWholeFrames ==
    TypeOK /\ WholeFrames /\ [Next]_vars => WholeFrames'
  <1> SUFFICES ASSUME TypeOK, WholeFrames, [Next]_vars
               PROVE  WholeFrames'
    OBVIOUS
  <1>stutter. CASE UNCHANGED vars
    BY <1>stutter DEF vars, WholeFrames, Running, flags
  <1>next. ASSUME NEW p \in Peers, Hear(p) \/ Talk(p) \/ Main(p) \/ User(p)
           PROVE  WholeFrames'
    <2>1. CASE HearStart(p)
      BY <2>1 DEF HearStart, HearLoop, TypeOK, WholeFrames, Running, flags
    <2>2. CASE Recv(p)
      <3>1. PICK n \in 1..BUFFER_LEN :
               /\ n <= Len(net[p])
               /\ net' = [net EXCEPT ![p] = SubSeq(@, n + 1, Len(@))]
               /\ short' = [short EXCEPT ![p] = @ \/ n < BUFFER_LEN]
        BY <2>2 DEF Recv
      <3>2. fate' = fate
        BY <2>2 DEF Recv
      <3>3. \A r \in Peers : r # p => net'[r] = net[r] /\ short'[r] = short[r]
        BY <3>1 DEF TypeOK
      <3>4. ASSUME Running(p), Running(Other(p)), ~short'[p]
            PROVE  \E m \in Nat : Len(net'[p]) = m * BUFFER_LEN
        <4>1. n = BUFFER_LEN /\ ~short[p]
          <5>1. short'[p] = (short[p] \/ n < BUFFER_LEN)
            BY <3>1 DEF TypeOK
          <5>2. ~(n < BUFFER_LEN) /\ ~short[p]
            BY <3>4, <5>1
          <5>3. BUFFER_LEN \in Nat
            BY ConstantFacts
          <5>4. QED
            BY <5>2, <5>3
        <4>2. PICK m \in Nat : Len(net[p]) = m * BUFFER_LEN
          BY <3>4, <4>1 DEF WholeFrames
        <4>3. m # 0
          BY <3>1, <4>1, <4>2, ConstantFacts
        <4>4. m - 1 \in Nat /\ (m - 1) * BUFFER_LEN + BUFFER_LEN = m * BUFFER_LEN /\ (m - 1) * BUFFER_LEN \in Nat
          <5>1. m - 1 \in Nat /\ (m - 1) + 1 = m
            BY <4>3
          <5>2. QED
            BY <5>1, ConstantFacts
        <4>5. n \in 1..Len(net[p]) /\ net[p] \in Seq(Units)
          BY <3>1, LenProperties, ConstantFacts DEF TypeOK
        <4>6. Len(net'[p]) = Len(net[p]) - BUFFER_LEN
          BY <3>1, <4>1, <4>5, TailFacts DEF TypeOK
        <4>7. QED
          BY <4>2, <4>4, <4>6, ConstantFacts
      <3>5. QED
        BY <3>2, <3>3, <3>4 DEF WholeFrames, Running
    <2>3. CASE RecvNothing(p)
      BY <2>3 DEF RecvNothing, TypeOK, WholeFrames, Running, flags
    <2>4. CASE HearCheck(p)
      BY <2>4 DEF HearCheck, HearLoop, TypeOK, WholeFrames, Running, flags
    <2>5. CASE HearClear(p)
      BY <2>5 DEF HearClear, TypeOK, WholeFrames, Running, flags
    <2>6. CASE HearReturn(p)
      BY <2>6 DEF HearReturn, TypeOK, WholeFrames, Running, flags
    <2>7. CASE TalkStart(p)
      BY <2>7 DEF TalkStart, TalkLoop, TypeOK, WholeFrames, Running, flags
    <2>8. CASE Send(p)
      <3> DEFINE q == Other(p)
      <3>1. q \in Peers /\ q # p /\ Other(q) = p /\ \A r \in Peers : r = p \/ r = q
        BY OtherFacts
      <3>2. CASE ~Running(q)
        BY <2>8, <3>1, <3>2 DEF Send, WholeFrames, Running
      <3>3. CASE Running(q)
        <4>1. net' = [net EXCEPT ![q] = @ \o tbuf[p]] /\ UNCHANGED <<fate, short>>
          BY <2>8, <3>3 DEF Send
        <4>2. net[q] \in Seq(Units) /\ tbuf[p] \in Seq(Units) /\ Len(tbuf[p]) = BUFFER_LEN
          BY <3>1, BufferFacts DEF TypeOK
        <4>3. Len(net'[q]) = Len(net[q]) + BUFFER_LEN /\ net'[p] = net[p]
          <5>1. net'[q] = net[q] \o tbuf[p] /\ net'[p] = net[p]
            BY <3>1, <4>1 DEF TypeOK
          <5>2. QED
            BY <4>2, <5>1, ConcatProperties
        <4>4. ASSUME NEW m \in Nat, Len(net[q]) = m * BUFFER_LEN
              PROVE  m + 1 \in Nat /\ Len(net'[q]) = (m + 1) * BUFFER_LEN
          BY <4>3, <4>4, ConstantFacts
        <4>5. ~short[q] /\ Running(p) => \E m \in Nat : Len(net'[q]) = m * BUFFER_LEN
          BY <3>1, <3>3, <4>4 DEF WholeFrames
        <4>6. QED
          BY <3>1, <4>1, <4>3, <4>5 DEF WholeFrames, Running
      <3>4. QED
        BY <3>2, <3>3
    <2>9. CASE SendReset(p)
      <3>1. CASE Die(p, "sigpipe")
        BY <3>1, DieWholeFrames
      <3>2. CASE ~Die(p, "sigpipe")
        BY <2>9, <3>2 DEF SendReset, WholeFrames, Running, flags
      <3>3. QED
        BY <3>1, <3>2
    <2>10. CASE TalkCheck(p)
      BY <2>10 DEF TalkCheck, TalkLoop, TypeOK, WholeFrames, Running, flags
    <2>11. CASE TalkClear(p)
      BY <2>11 DEF TalkClear, TypeOK, WholeFrames, Running, flags
    <2>12. CASE TalkReturn(p)
      BY <2>12 DEF TalkReturn, TypeOK, WholeFrames, Running, flags
    <2>13. CASE Poll(p)
      BY <2>13 DEF Poll, TypeOK, WholeFrames, Running, flags
    <2>14. CASE KillTalk(p)
      <3>1. CASE Die(p, "sigterm")
        BY <3>1, DieWholeFrames
      <3>2. CASE ~Die(p, "sigterm")
        BY <2>14, <3>2 DEF KillTalk, Kill, WholeFrames, Running, flags
      <3>3. QED
        BY <3>1, <3>2
    <2>15. CASE KillHear(p)
      <3>1. CASE Die(p, "sigterm")
        BY <3>1, DieWholeFrames
      <3>2. CASE ~Die(p, "sigterm")
        BY <2>15, <3>2 DEF KillHear, Kill, WholeFrames, Running, flags
      <3>3. QED
        BY <3>1, <3>2
    <2>16. CASE JoinTalk(p)
      BY <2>16 DEF JoinTalk, TypeOK, WholeFrames, Running, flags
    <2>17. CASE JoinHear(p)
      BY <2>17, DieWholeFrames DEF JoinHear
    <2>18. CASE Fgets(p)
      BY <2>18 DEF Fgets, TypeOK, WholeFrames, Running, flags
    <2>19. CASE FgetsEof(p)
      BY <2>19 DEF FgetsEof, TypeOK, WholeFrames, Running, flags
    <2>20. CASE Interrupt(p)
      BY <2>20, DieWholeFrames DEF Interrupt
    <2>21. QED
      BY <1>next, <2>1, <2>2, <2>3, <2>4, <2>5, <2>6, <2>7, <2>8, <2>9, <2>10, <2>11, <2>12, <2>13, <2>14, <2>15, <2>16, <2>17, <2>18, <2>19, <2>20 DEF Hear, Talk, Main, User
  <1>last. QED
    BY <1>stutter, <1>next DEF Next

LEMMA StepEndsHaveAuthors ==
    TypeOK /\ WholeFrames /\ EndsHaveAuthors /\ [Next]_vars => EndsHaveAuthors'
  <1> SUFFICES ASSUME TypeOK, WholeFrames, EndsHaveAuthors, [Next]_vars
               PROVE  EndsHaveAuthors'
    OBVIOUS
  <1>stutter. CASE UNCHANGED vars
    BY <1>stutter DEF vars, EndsHaveAuthors, flags
  <1>next. ASSUME NEW p \in Peers, Hear(p) \/ Talk(p) \/ Main(p) \/ User(p)
           PROVE  EndsHaveAuthors'
    <2>1. CASE HearStart(p)
      BY <2>1, OtherFacts DEF HearStart, HearLoop, TypeOK, EndsHaveAuthors, flags
    <2>2. CASE Recv(p)
      <3>1. PICK n \in 1..BUFFER_LEN :
               /\ n <= Len(net[p])
               /\ hbuf' = [hbuf EXCEPT ![p] = Over(@, n, net[p])]
               /\ net' = [net EXCEPT ![p] = SubSeq(@, n + 1, Len(@))]
               /\ short' = [short EXCEPT ![p] = @ \/ n < BUFFER_LEN]
        BY <2>2 DEF Recv
      <3>2. UNCHANGED <<tbuf, END_COM, ended>>
        BY <2>2 DEF Recv, flags
      <3>3. \A r \in Peers : r # p =>
               net'[r] = net[r] /\ hbuf'[r] = hbuf[r] /\ short'[r] = short[r]
        BY <3>1 DEF TypeOK
      <3>4. short[p] => short'[p]
        BY <3>1 DEF TypeOK
      <3>5. ASSUME ~short'[p]
            PROVE  /\ Says(hbuf'[p]) => ended[Other(p)]
                   /\ \A i \in Nat : EndAt(net'[p], i) => ended[Other(p)]
        <4>1. n = BUFFER_LEN /\ ~short[p]
          <5>1. short'[p] = (short[p] \/ n < BUFFER_LEN)
            BY <3>1 DEF TypeOK
          <5>2. ~(n < BUFFER_LEN) /\ ~short[p]
            BY <3>5, <5>1
          <5>3. BUFFER_LEN \in Nat
            BY ConstantFacts
          <5>4. QED
            BY <5>2, <5>3
        <4>2. /\ net[p] \in Seq(Units) /\ BUFFER_LEN <= Len(net[p])
              /\ net'[p] = SubSeq(net[p], BUFFER_LEN + 1, Len(net[p]))
              /\ hbuf'[p] = Over(hbuf[p], BUFFER_LEN, net[p])
          BY <3>1, <4>1 DEF TypeOK
        <4>3. ASSUME Says(hbuf'[p]) PROVE EndAt(net[p], 0)
          <5>1. ASSUME NEW k \in 1..Len(Word)
                PROVE  net[p][k] = Word[k]
            <6>1. k \in 1..BUFFER_LEN /\ k <= BUFFER_LEN
              BY ConstantFacts
            <6>2. hbuf'[p][k] = net[p][k]
              BY <4>2, <6>1 DEF Over
            <6>3. QED
              BY <4>3, <6>2 DEF Says
          <5>2. 0 * BUFFER_LEN = 0 /\ Len(net[p]) \in Nat
            <6>1. net[p] \in Seq(Units)
              BY <4>2
            <6>2. Len(net[p]) \in Nat
              BY <6>1, LenProperties
            <6>3. QED
              BY <6>2, NoFrames
          <5>3. \A k \in 1..Len(Word) : 0 * BUFFER_LEN + k = k
            BY <5>2, ConstantFacts
          <5>4. QED
            <6>1. 0 * BUFFER_LEN + Len(Word) <= Len(net[p])
              <7>1. Len(Word) \in Nat /\ BUFFER_LEN \in Nat /\ Len(Word) <= BUFFER_LEN
                BY ConstantFacts
              <7>2. Len(Word) <= Len(net[p])
                BY <4>2, <5>2, <7>1
              <7>3. QED
                BY <5>2, <7>1, <7>2
            <6>2. QED
              BY <5>1, <5>3, <6>1 DEF EndAt
        <4>4. ASSUME NEW i \in Nat, EndAt(net'[p], i) PROVE EndAt(net[p], i + 1)
          BY <4>2, <4>4, EndInTail
        <4>5. QED
          BY <4>1, <4>3, <4>4 DEF EndsHaveAuthors
      <3>6. QED
        BY <3>2, <3>3, <3>4, <3>5, OtherFacts DEF EndsHaveAuthors
    <2>3. CASE RecvNothing(p)
      BY <2>3, OtherFacts DEF RecvNothing, TypeOK, EndsHaveAuthors, flags
    <2>4. CASE HearCheck(p)
      BY <2>4, OtherFacts DEF HearCheck, HearLoop, TypeOK, EndsHaveAuthors, flags
    <2>5. CASE HearClear(p)
      BY <2>5, OtherFacts DEF HearClear, TypeOK, EndsHaveAuthors, flags
    <2>6. CASE HearReturn(p)
      BY <2>6, OtherFacts, ChatAssumption DEF HearReturn, TypeOK, EndsHaveAuthors, flags
    <2>7. CASE TalkStart(p)
      BY <2>7, OtherFacts DEF TalkStart, TalkLoop, TypeOK, EndsHaveAuthors, flags
    <2>8. CASE Send(p)
      <3> DEFINE q == Other(p)
      <3>1. q \in Peers /\ q # p /\ Other(q) = p /\ \A r \in Peers : r = p \/ r = q
        BY OtherFacts
      <3>2. UNCHANGED <<tbuf, hbuf, END_COM, ended, short, fate>> /\ Running(p)
        BY <2>8 DEF Send, flags
      <3>3. CASE ~Running(q)
        <4>1. net'[q] = net[q] /\ (net'[p] = net[p] \/ net'[p] \in Heads(net[p]))
          BY <2>8, <3>1, <3>3 DEF Send, TypeOK
        <4>2. \A i \in Nat : EndAt(net'[p], i) => EndAt(net[p], i)
          BY <4>1, EndInHead DEF TypeOK
        <4>3. QED
          BY <3>1, <3>2, <4>1, <4>2 DEF EndsHaveAuthors
      <3>4. CASE Running(q)
        <4>1. net'[q] = net[q] \o tbuf[p] /\ net'[p] = net[p]
          BY <2>8, <3>1, <3>4 DEF Send, TypeOK
        <4>2. net[q] \in Seq(Units) /\ tbuf[p] \in Buffers
          BY <3>1 DEF TypeOK
        <4>3. ASSUME ~short[q], NEW i \in Nat, EndAt(net'[q], i) PROVE ended[p]
          <5>1. PICK m \in Nat : Len(net[q]) = m * BUFFER_LEN
            BY <3>1, <3>2, <3>4, <4>3 DEF WholeFrames
          <5>2. EndAt(net[q], i) \/ Says(tbuf[p])
            BY <4>1, <4>2, <4>3, <5>1, EndInConcat
          <5>3. QED
            BY <3>1, <4>3, <5>2 DEF EndsHaveAuthors
        <4>4. QED
          BY <3>1, <3>2, <4>1, <4>3 DEF EndsHaveAuthors
      <3>5. QED
        BY <3>3, <3>4
    <2>9. CASE SendReset(p)
      <3>1. CASE Die(p, "sigpipe")
        BY <3>1, DieAuthors
      <3>2. CASE ~Die(p, "sigpipe")
        BY <2>9, <3>2 DEF SendReset, EndsHaveAuthors, Running, flags
      <3>3. QED
        BY <3>1, <3>2
    <2>10. CASE TalkCheck(p)
      BY <2>10, OtherFacts DEF TalkCheck, TalkLoop, TypeOK, EndsHaveAuthors, flags
    <2>11. CASE TalkClear(p)
      BY <2>11, OtherFacts DEF TalkClear, TypeOK, EndsHaveAuthors, flags
    <2>12. CASE TalkReturn(p)
      BY <2>12, OtherFacts, ChatAssumption DEF TalkReturn, TypeOK, EndsHaveAuthors, flags
    <2>13. CASE Poll(p)
      BY <2>13, OtherFacts DEF Poll, TypeOK, EndsHaveAuthors, flags
    <2>14. CASE KillTalk(p)
      <3>1. CASE Die(p, "sigterm")
        BY <3>1, DieAuthors
      <3>2. CASE ~Die(p, "sigterm")
        BY <2>14, <3>2 DEF KillTalk, Kill, EndsHaveAuthors, Running, flags
      <3>3. QED
        BY <3>1, <3>2
    <2>15. CASE KillHear(p)
      <3>1. CASE Die(p, "sigterm")
        BY <3>1, DieAuthors
      <3>2. CASE ~Die(p, "sigterm")
        BY <2>15, <3>2 DEF KillHear, Kill, EndsHaveAuthors, Running, flags
      <3>3. QED
        BY <3>1, <3>2
    <2>16. CASE JoinTalk(p)
      BY <2>16, OtherFacts DEF JoinTalk, TypeOK, EndsHaveAuthors, flags
    <2>17. CASE JoinHear(p)
      BY <2>17, DieAuthors DEF JoinHear
    <2>18. CASE Fgets(p)
      <3>1. UNCHANGED <<hbuf, net, END_COM, short>>
        BY <2>18 DEF Fgets, flags
      <3>2. ended'[p] = (ended[p] \/ Says(tbuf'[p])) /\ \A r \in Peers : ended[r] => ended'[r]
        BY <2>18 DEF Fgets, TypeOK
      <3>3. \A r \in Peers : r # p => tbuf'[r] = tbuf[r] /\ ended'[r] = ended[r]
        BY <2>18 DEF Fgets, TypeOK
      <3>4. QED
        BY <3>1, <3>2, <3>3, OtherFacts DEF EndsHaveAuthors
    <2>19. CASE FgetsEof(p)
      BY <2>19, OtherFacts DEF FgetsEof, TypeOK, EndsHaveAuthors, flags
    <2>20. CASE Interrupt(p)
      BY <2>20, DieAuthors DEF Interrupt
    <2>21. QED
      BY <1>next, <2>1, <2>2, <2>3, <2>4, <2>5, <2>6, <2>7, <2>8, <2>9, <2>10, <2>11, <2>12, <2>13, <2>14, <2>15, <2>16, <2>17, <2>18, <2>19, <2>20 DEF Hear, Talk, Main, User
  <1>last. QED
    BY <1>stutter, <1>next DEF Next

-----------------------------------------------------------------------------
(* The processes that stop themselves. *)

LEMMA DieStops ==
    ASSUME TypeOK, StopsOnlyAfterEnd, NEW p \in Peers,
           NEW how \in {"returned", "sigterm", "sigpipe", "interrupted"}, Die(p, how),
           how \in {"returned", "sigterm"} => ended[p] \/ ended[Other(p)] \/ short[p]
    PROVE  StopsOnlyAfterEnd'
  <1>1. fate'[p] = how /\ (\A r \in Peers : r # p => fate'[r] = fate[r]) /\ ended' = ended /\ short' = short
    BY DEF Die, TypeOK
  <1>2. QED
    BY <1>1 DEF StopsOnlyAfterEnd

LEMMA StepStops ==
    TypeOK /\ EndsHaveAuthors /\ FlagsMatchThreads /\ MainKnows /\ StopsOnlyAfterEnd /\ [Next]_vars => StopsOnlyAfterEnd'
  <1> SUFFICES ASSUME TypeOK, EndsHaveAuthors, FlagsMatchThreads, MainKnows, StopsOnlyAfterEnd, [Next]_vars
               PROVE  StopsOnlyAfterEnd'
    OBVIOUS
  <1>stutter. CASE UNCHANGED vars
    BY <1>stutter DEF vars, StopsOnlyAfterEnd, flags
  <1>next. ASSUME NEW p \in Peers, Hear(p) \/ Talk(p) \/ Main(p) \/ User(p)
           PROVE  StopsOnlyAfterEnd'
    <2>1. CASE HearStart(p)
      BY <2>1 DEF HearStart, HearLoop, TypeOK, StopsOnlyAfterEnd, flags
    <2>2. CASE Recv(p)
      <3>1. \A r \in Peers : short[r] => short'[r]
        BY <2>2 DEF Recv, TypeOK
      <3>2. QED
        BY <2>2, <3>1 DEF Recv, StopsOnlyAfterEnd
    <2>3. CASE RecvNothing(p)
      BY <2>3 DEF RecvNothing, TypeOK, StopsOnlyAfterEnd, flags
    <2>4. CASE HearCheck(p)
      BY <2>4 DEF HearCheck, HearLoop, TypeOK, StopsOnlyAfterEnd, flags
    <2>5. CASE HearClear(p)
      BY <2>5 DEF HearClear, TypeOK, StopsOnlyAfterEnd, flags
    <2>6. CASE HearReturn(p)
      BY <2>6 DEF HearReturn, TypeOK, StopsOnlyAfterEnd, flags
    <2>7. CASE TalkStart(p)
      BY <2>7 DEF TalkStart, TalkLoop, TypeOK, StopsOnlyAfterEnd, flags
    <2>8. CASE Send(p)
      BY <2>8 DEF Send, TypeOK, StopsOnlyAfterEnd, flags
    <2>9. CASE SendReset(p)
      <3>1. CASE Die(p, "sigpipe")
        BY <3>1, DieStops
      <3>2. CASE ~Die(p, "sigpipe")
        BY <2>9, <3>2 DEF SendReset, StopsOnlyAfterEnd, flags
      <3>3. QED
        BY <3>1, <3>2
    <2>10. CASE TalkCheck(p)
      BY <2>10 DEF TalkCheck, TalkLoop, TypeOK, StopsOnlyAfterEnd, flags
    <2>11. CASE TalkClear(p)
      BY <2>11 DEF TalkClear, TypeOK, StopsOnlyAfterEnd, flags
    <2>12. CASE TalkReturn(p)
      BY <2>12 DEF TalkReturn, TypeOK, StopsOnlyAfterEnd, flags
    <2>13. CASE Poll(p)
      BY <2>13 DEF Poll, TypeOK, StopsOnlyAfterEnd, flags
    <2>14. CASE KillTalk(p)
      <3>1. END_COM[p] = 1
        BY <2>14 DEF KillTalk, TypeOK, FlagsMatchThreads, MainKnows
      <3>2. CASE Die(p, "sigterm")
        BY <3>1, <3>2, DieStops DEF EndsHaveAuthors
      <3>3. CASE ~Die(p, "sigterm")
        BY <2>14, <3>3 DEF KillTalk, Kill, StopsOnlyAfterEnd, flags
      <3>4. QED
        BY <3>2, <3>3
    <2>15. CASE KillHear(p)
      <3>1. END_COM[p] = 1
        BY <2>15 DEF KillHear, TypeOK, FlagsMatchThreads, MainKnows
      <3>2. CASE Die(p, "sigterm")
        BY <3>1, <3>2, DieStops DEF EndsHaveAuthors
      <3>3. CASE ~Die(p, "sigterm")
        BY <2>15, <3>3 DEF KillHear, Kill, StopsOnlyAfterEnd, flags
      <3>4. QED
        BY <3>2, <3>3
    <2>16. CASE JoinTalk(p)
      BY <2>16 DEF JoinTalk, TypeOK, StopsOnlyAfterEnd, flags
    <2>17. CASE JoinHear(p)
      <3>1. END_COM[p] = 1 /\ Die(p, "returned")
        BY <2>17 DEF JoinHear, TypeOK, FlagsMatchThreads, MainKnows
      <3>2. QED
        BY <3>1, DieStops DEF EndsHaveAuthors
    <2>18. CASE Fgets(p)
      <3>1. \A r \in Peers : ended[r] => ended'[r]
        BY <2>18 DEF Fgets, TypeOK
      <3>2. QED
        BY <2>18, <3>1, OtherFacts DEF Fgets, StopsOnlyAfterEnd
    <2>19. CASE FgetsEof(p)
      BY <2>19 DEF FgetsEof, TypeOK, StopsOnlyAfterEnd, flags
    <2>20. CASE Interrupt(p)
      BY <2>20, DieStops DEF Interrupt
    <2>21. QED
      BY <1>next, <2>1, <2>2, <2>3, <2>4, <2>5, <2>6, <2>7, <2>8, <2>9, <2>10, <2>11, <2>12, <2>13, <2>14, <2>15, <2>16, <2>17, <2>18, <2>19, <2>20 DEF Hear, Talk, Main, User
  <1>last. QED
    BY <1>stutter, <1>next DEF Next

-----------------------------------------------------------------------------
(* The theorems. *)

LEMMA Inductive == Spec => []IInv
  <1>1. IInv /\ [Next]_vars => IInv'
    BY StepTypeOK, StepWholeFrames, StepEndsHaveAuthors, StepFlagsMatchThreads, StepMainKnows, StepStops DEF IInv
  <1>2. QED
    BY InitInv, <1>1, PTL DEF Spec

(* Every variable keeps its type, whatever the threads, the users and the  *)
(* stream of chat.c do.                                                    *)
THEOREM ChatTypeOK == Spec => []TypeOK
  <1>1. IInv => TypeOK
    BY DEF IInv
  <1>2. QED
    BY Inductive, <1>1, PTL

(* A chat process kills itself or returns from main only after one of the  *)
(* two users typed a line that begins with "#END", unless a recv of its    *)
(* own returned less than a frame: as long as none did, neither what a     *)
(* failed recv leaves in the buffer nor what a reset leaves of the stream  *)
(* is taken for "#END".                                                    *)
THEOREM ChatStopsOnlyAfterEnd == Spec => []StopsOnlyAfterEnd
  <1>1. IInv => StopsOnlyAfterEnd
    BY DEF IInv
  <1>2. QED
    BY Inductive, <1>1, PTL

(* The joins of chat() are only reached when both flags are down and the   *)
(* thread that main meant to kill had already returned.                    *)
THEOREM ChatJoinNeverWaits == Spec => []JoinNeverWaits
  <1>1. IInv => JoinNeverWaits
    BY DEF IInv, MainKnows, JoinNeverWaits
  <1>2. QED
    BY Inductive, <1>1, PTL
=============================================================================

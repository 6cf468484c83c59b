--------------------- MODULE DisplaySetAssemblerProofs ---------------------
(***************************************************************************)
(* The assembler returns exactly the display sets of what is pushed into   *)
(* it, for every set of segments and every number of calls.                *)
(*                                                                         *)
(* The argument: HoldsTheOpenRun is what the assembler remembers of the    *)
(* log, ReturnsExactlyTheRuns what it has said about it.  A call extends   *)
(* the log by one entry, so a run either ended earlier (RunStable) or ends *)
(* at the new entry, and then it is the open run closed by END             *)
(* (RunCloses); the open run after the call is the new PCS or the old open *)
(* run followed by a body segment (OpenExtends).                           *)
(***************************************************************************)
EXTENDS DisplaySetAssembler, SequenceLemmas, TLAPS

Call == PgsSegment \cup {ResetCall}

-----------------------------------------------------------------------------
(* Every call appends one entry to the log and to the results.  A reset    *)
(* is the call whose entry is neither PCS nor END nor a body segment.      *)
CallStep(c) ==
  /\ c \in Call
  /\ log' = Append(log, c)
  /\ IF c = ResetCall
     THEN asm' = AsmReset(asm) /\ returned' = Append(returned, << >>)
     ELSE asm' = AsmPush(asm, c) /\ returned' = Append(returned, AsmOut(asm, c))

LEMMA NextIsACall ==
  ASSUME Next
  PROVE  \E c \in Call : CallStep(c)
<1>1. CASE Reset
  BY <1>1 DEF Reset, CallStep, Call
<1>2. ASSUME NEW s \in Segment, Push(s)
      PROVE  \E c \in Call : CallStep(c)
  <2>1. s \in PgsSegment /\ s # ResetCall
    BY SegmentAssumption DEF PgsSegment, ResetCall, SegmentType
  <2>. QED
    BY <1>2, <2>1 DEF Push, CallStep, Call
<1>. QED
  BY <1>1, <1>2 DEF Next

(* What the fields of an entry can be.                                     *)
LEMMA CallFields ==
  ASSUME NEW c \in Call
  PROVE  /\ c.pts \in Nat
         /\ c.comp \in CompositionState \cup {None}
         /\ c = ResetCall <=> c.type = "RESET"
         /\ c # ResetCall => c \in PgsSegment /\ c.type \in SegmentType
         /\ c = ResetCall => c.type \notin SegmentType
  BY DEF Call, PgsSegment, ResetCall, SegmentType, None

LEMMA PushTyped ==
  ASSUME TypeOK, NEW s \in PgsSegment
  PROVE  /\ AsmPush(asm, s).segments \in Seq(PgsSegment)
         /\ AsmPush(asm, s).pts \in Nat
         /\ AsmPush(asm, s).state \in CompositionState \cup {None}
         /\ AsmPush(asm, s) = [segments |-> AsmPush(asm, s).segments,
                               pts |-> AsmPush(asm, s).pts,
                               state |-> AsmPush(asm, s).state]
         /\ AsmOut(asm, s) \in Seq(DisplaySet)
<1>1. s.pts \in Nat /\ s.comp \in CompositionState \cup {None}
  BY DEF PgsSegment
<1>2. asm.segments \in Seq(PgsSegment)
  BY DEF TypeOK
<1>3. Append(asm.segments, s) \in Seq(PgsSegment) /\ << s >> \in Seq(PgsSegment)
      /\ << >> \in Seq(PgsSegment)
  BY <1>2
<1>4. AsmOut(asm, s) \in Seq(DisplaySet)
  <2>1. CASE s.type = "END" /\ asm.state # None
    <3> DEFINE d == [pts |-> asm.pts, state |-> asm.state,
                     segments |-> Append(asm.segments, s)]
    <3>1. asm.pts \in Nat /\ asm.state \in CompositionState
      BY <2>1 DEF TypeOK
    <3>2. d \in DisplaySet
      BY <1>3, <3>1 DEF DisplaySet
    <3>3. AsmOut(asm, s) = << d >>
      BY <2>1 DEF AsmOut
    <3>. QED
      BY <3>2, <3>3
  <2>2. CASE ~ (s.type = "END" /\ asm.state # None)
    BY <2>2 DEF AsmOut
  <2>. QED
    BY <2>1, <2>2
<1>5. CASE s.type = "PCS"
  BY <1>1, <1>3, <1>4, <1>5 DEF AsmPush
<1>6. CASE s.type = "END"
  BY <1>3, <1>4, <1>6 DEF AsmPush, AsmReset, TypeOK
<1>7. CASE s.type # "PCS" /\ s.type # "END"
  BY <1>3, <1>4, <1>7 DEF AsmPush, TypeOK
<1>. QED
  BY <1>5, <1>6, <1>7

LEMMA TypeOKStep ==
  ASSUME TypeOK, [Next]_vars
  PROVE  TypeOK'
<1>1. CASE UNCHANGED vars
  BY <1>1 DEF vars, TypeOK
<1>2. CASE Next
  <2>1. PICK c \in Call : CallStep(c)
    BY <1>2, NextIsACall
  <2>2. log' \in Seq(PgsSegment \cup {ResetCall}) /\ Len(log') = Len(log) + 1
    BY <2>1 DEF CallStep, Call, TypeOK
  <2>3. CASE c = ResetCall
    <3>1. returned' \in Seq(Seq(DisplaySet)) /\ Len(returned') = Len(returned) + 1
      <4>1. << >> \in Seq(DisplaySet) /\ returned \in Seq(Seq(DisplaySet))
        BY DEF TypeOK
      <4>2. returned' = Append(returned, << >>)
        BY <2>1, <2>3 DEF CallStep
      <4>. QED
        BY <4>1, <4>2, AppendProperties
    <3>2. << >> \in Seq(PgsSegment) /\ None \in CompositionState \cup {None}
      OBVIOUS
    <3>. QED
      BY <2>1, <2>2, <2>3, <3>1, <3>2 DEF CallStep, AsmReset, TypeOK
  <2>4. CASE c # ResetCall
    <3>1. c \in PgsSegment
      BY <2>4 DEF Call
    <3>2. asm' = AsmPush(asm, c) /\ returned' = Append(returned, AsmOut(asm, c))
      BY <2>1, <2>4 DEF CallStep
    <3>3. returned' \in Seq(Seq(DisplaySet)) /\ Len(returned') = Len(returned) + 1
      BY <3>1, <3>2, PushTyped DEF TypeOK
    <3>. QED
      BY <2>2, <3>1, <3>2, <3>3, PushTyped DEF TypeOK
  <2>. QED
    BY <2>3, <2>4
<1>. QED
  BY <1>1, <1>2

(* Every reachable state is well typed.                                    *)
THEOREM TypeCorrect == Spec => []TypeOK
<1>1. Init => TypeOK
  BY DEF Init, TypeOK, AsmNew
<1>2. TypeOK /\ [Next]_vars => TypeOK'
  BY TypeOKStep
<1>. QED
  BY <1>1, <1>2, PTL DEF Spec
-----------------------------------------------------------------------------
(* One call, seen from the log: what the assembler holds and returns.      *)
LEMMA CallEffect ==
  ASSUME TypeOK, NEW c \in Call, CallStep(c)
  PROVE  /\ returned' = Append(returned,
                IF c.type = "END" /\ asm.state # None
                THEN << [pts |-> asm.pts, state |-> asm.state,
                         segments |-> Append(asm.segments, c)] >>
                ELSE << >>)
         /\ c.type = "PCS" => /\ asm'.segments = << c >>
                              /\ asm'.pts = c.pts /\ asm'.state = c.comp
         /\ c.type \in BodyType =>
              /\ asm'.segments = Append(asm.segments, c)
              /\ asm'.pts = asm.pts /\ asm'.state = asm.state
         /\ c.type \notin BodyType \cup {"PCS"} => asm'.state = None
<1>1. asm = [segments |-> asm.segments, pts |-> asm.pts, state |-> asm.state]
  BY DEF TypeOK
<1>2. CASE c = ResetCall
  <2>1. c.type = "RESET"
    BY <1>2 DEF ResetCall
  <2>2. c.type # "END" /\ c.type # "PCS" /\ c.type \notin BodyType
    BY <2>1 DEF BodyType, SegmentType
  <2>3. asm' = AsmReset(asm) /\ returned' = Append(returned, << >>)
    BY <1>2 DEF CallStep
  <2>4. asm'.state = None
    BY <1>1, <2>3 DEF AsmReset
  <2>. QED
    BY <2>2, <2>3, <2>4
<1>3. CASE c # ResetCall
  <2>1. asm' = AsmPush(asm, c) /\ returned' = Append(returned, AsmOut(asm, c))
    BY <1>3 DEF CallStep
  <2>2. c.type \in SegmentType
    BY <1>3, CallFields
  <2>3. returned' = Append(returned,
                IF c.type = "END" /\ asm.state # None
                THEN << [pts |-> asm.pts, state |-> asm.state,
                         segments |-> Append(asm.segments, c)] >>
                ELSE << >>)
    BY <2>1 DEF AsmOut
  <2>4. CASE c.type = "PCS"
    BY <2>1, <2>3, <2>4 DEF AsmPush, BodyType
  <2>5. CASE c.type = "END"
    <3>1. asm'.state = None
      BY <1>1, <2>1, <2>5 DEF AsmPush, AsmReset
    <3>. QED
      BY <2>3, <2>5, <3>1 DEF BodyType
  <2>6. CASE c.type # "PCS" /\ c.type # "END"
    <3>1. asm' = [asm EXCEPT !.segments = Append(@, c)]
      BY <2>1, <2>6 DEF AsmPush
    <3>2. /\ asm'.segments = Append(asm.segments, c)
          /\ asm'.pts = asm.pts /\ asm'.state = asm.state
      BY <1>1, <3>1
    <3>. QED
      BY <2>2, <2>3, <2>6, <3>2 DEF BodyType
  <2>. QED
    BY <2>4, <2>5, <2>6
<1>. QED
  BY <1>2, <1>3

(* The invariant of the assembler.                                         *)
Inv == TypeOK /\ HoldsTheOpenRun /\ ReturnsExactlyTheRuns

LEMMA HoldsStep ==
  ASSUME Inv, NEW c \in Call, CallStep(c)
  PROVE  HoldsTheOpenRun'
<1> DEFINE S == PgsSegment \cup {ResetCall}
           n == Len(log)
<1>1. /\ log \in Seq(S) /\ c \in S /\ n \in Nat
      /\ log' = Append(log, c) /\ Len(log') = n + 1
      /\ log'[n + 1] = c /\ \A m \in 1 .. n : log'[m] = log[m]
  BY DEF Inv, TypeOK, Call, CallStep
<1>2. \A i \in 1 .. n + 1 :
        OpenRun(log', i) <=>
           \/ i = n + 1 /\ c.type = "PCS" /\ c.comp # None
           \/ i # n + 1 /\ OpenRun(log, i) /\ c.type \in BodyType
  BY <1>1, OpenExtends
<1>3. TypeOK /\ HoldsTheOpenRun
  BY DEF Inv
<1>4. CASE c.type = "PCS"
  <2>1. c.type \notin BodyType
    BY <1>4 DEF BodyType
  <2>2. asm'.segments = << c >> /\ asm'.pts = c.pts /\ asm'.state = c.comp
    BY <1>3, <1>4, CallEffect
  <2>3. SubSeq(log', n + 1, n + 1) = << c >>
    <3>1. \A m \in n + 1 .. n + 1 : log'[m] \in S
      BY <1>1
    <3>2. /\ SubSeq(log', n + 1, n + 1) \in Seq(S)
          /\ Len(SubSeq(log', n + 1, n + 1)) = 1
          /\ SubSeq(log', n + 1, n + 1)[1] = log'[n + 1]
      BY <1>1, <3>1, SubSeqProperties
    <3>3. /\ << c >> \in Seq(S) /\ Len(<< c >>) = 1 /\ << c >>[1] = c
      BY <1>1
    <3>4. \A m \in 1 .. 1 : SubSeq(log', n + 1, n + 1)[m] = << c >>[m]
      BY <1>1, <3>2, <3>3
    <3>. QED
      BY <3>2, <3>3, <3>4, SeqEqual
  <2>4. ASSUME asm'.state # None
        PROVE  /\ n + 1 \in 1 .. n + 1
               /\ OpenRun(log', n + 1)
               /\ asm'.pts = log'[n + 1].pts
               /\ asm'.state = log'[n + 1].comp
               /\ asm'.segments = SubSeq(log', n + 1, n + 1)
    BY <1>1, <1>2, <1>4, <2>2, <2>3, <2>4
  <2>5. ASSUME asm'.state = None
        PROVE  \A i \in 1 .. n + 1 : ~ OpenRun(log', i)
    BY <1>2, <2>1, <2>2, <2>5
  <2>. QED
    BY <1>1, <2>4, <2>5 DEF HoldsTheOpenRun
<1>5. CASE c.type \in BodyType
  <2>1. c.type # "PCS"
    BY <1>5 DEF BodyType
  <2>2. /\ asm'.segments = Append(asm.segments, c)
        /\ asm'.pts = asm.pts /\ asm'.state = asm.state
    BY <1>3, <1>5, CallEffect
  <2>3. ASSUME asm'.state # None
        PROVE  \E i \in 1 .. n + 1 :
                 /\ OpenRun(log', i)
                 /\ asm'.pts = log'[i].pts
                 /\ asm'.state = log'[i].comp
                 /\ asm'.segments = SubSeq(log', i, n + 1)
    <3>1. PICK i \in 1 .. n : /\ OpenRun(log, i)
                              /\ asm.pts = log[i].pts
                              /\ asm.state = log[i].comp
                              /\ asm.segments = SubSeq(log, i, n)
      BY <1>3, <2>2, <2>3 DEF HoldsTheOpenRun
    <3>2. SubSeq(log', i, n + 1) = Append(SubSeq(log, i, n), c)
      BY <1>1, SubSeqExtends
    <3>3. i \in 1 .. n + 1 /\ i # n + 1 /\ log'[i] = log[i]
      BY <1>1
    <3>. QED
      BY <1>2, <1>5, <2>2, <3>1, <3>2, <3>3
  <2>4. ASSUME asm'.state = None
        PROVE  \A i \in 1 .. n + 1 : ~ OpenRun(log', i)
    <3>1. \A i \in 1 .. n : ~ OpenRun(log, i)
      BY <1>3, <2>2, <2>4 DEF HoldsTheOpenRun
    <3>2. \A i \in 1 .. n + 1 : i # n + 1 => i \in 1 .. n
      BY <1>1
    <3>. QED
      BY <1>2, <2>1, <3>1, <3>2
  <2>. QED
    BY <1>1, <2>3, <2>4 DEF HoldsTheOpenRun
<1>6. CASE c.type \notin BodyType \cup {"PCS"}
  <2>1. asm'.state = None
    BY <1>3, <1>6, CallEffect
  <2>2. \A i \in 1 .. n + 1 : ~ OpenRun(log', i)
    BY <1>2, <1>6
  <2>. QED
    BY <1>1, <2>1, <2>2 DEF HoldsTheOpenRun
<1>. QED
  BY <1>4, <1>5, <1>6

LEMMA ReturnsStep ==
  ASSUME Inv, NEW c \in Call, CallStep(c)
  PROVE  ReturnsExactlyTheRuns'
<1> DEFINE S == PgsSegment \cup {ResetCall}
           n == Len(log)
<1>1. /\ log \in Seq(S) /\ c \in S /\ n \in Nat
      /\ log' = Append(log, c) /\ Len(log') = n + 1
      /\ log'[n + 1] = c /\ \A m \in 1 .. n : log'[m] = log[m]
  BY DEF Inv, TypeOK, Call, CallStep
<1>2. TypeOK /\ HoldsTheOpenRun /\ ReturnsExactlyTheRuns
  BY DEF Inv
<1> DEFINE r == IF c.type = "END" /\ asm.state # None
                THEN << [pts |-> asm.pts, state |-> asm.state,
                         segments |-> Append(asm.segments, c)] >>
                ELSE << >>
<1>3. returned' = Append(returned, r)
  BY <1>2, CallEffect
<1>4. /\ Len(returned) = n
      /\ returned'[n + 1] = r
      /\ \A j \in 1 .. n : returned'[j] = returned[j]
  <2> DEFINE T == Seq(DisplaySet) \cup {r}
  <2>1. Len(returned) = n /\ returned \in Seq(T) /\ r \in T
    BY <1>2, SeqMonotonic DEF TypeOK
  <2>. HIDE DEF r, T
  <2>. QED
    BY <1>3, <2>1, AppendProperties
<1>5. ASSUME NEW j \in 1 .. n
      PROVE  \/ \E i \in 1 .. j - 1 :
                   IsRun(log', i, j) /\ returned'[j] = << RunSet(log', i, j) >>
             \/ /\ returned'[j] = << >>
                /\ \A i \in 1 .. j - 1 : ~ IsRun(log', i, j)
  <2>1. returned'[j] = returned[j]
    BY <1>4
  <2>2. \A i \in 1 .. j - 1 : /\ IsRun(log', i, j) <=> IsRun(log, i, j)
                               /\ RunSet(log', i, j) = RunSet(log, i, j)
    BY <1>1, RunStable
  <2>3. \/ \E i \in 1 .. j - 1 : /\ IsRun(log, i, j)
                                 /\ returned[j] = << RunSet(log, i, j) >>
        \/ /\ returned[j] = << >>
           /\ \A i \in 1 .. j - 1 : ~ IsRun(log, i, j)
    BY <1>2 DEF ReturnsExactlyTheRuns
  <2>4. CASE /\ returned[j] = << >>
             /\ \A i \in 1 .. j - 1 : ~ IsRun(log, i, j)
    BY <2>1, <2>2, <2>4
  <2>5. ASSUME NEW i \in 1 .. j - 1, IsRun(log, i, j),
               returned[j] = << RunSet(log, i, j) >>
        PROVE  IsRun(log', i, j) /\ returned'[j] = << RunSet(log', i, j) >>
    <3>1. IsRun(log', i, j) /\ RunSet(log', i, j) = RunSet(log, i, j)
      BY <1>1, <2>5, RunStable
    <3>. QED
      BY <2>1, <2>5, <3>1
  <2>. QED
    BY <2>3, <2>4, <2>5
<1>6. \/ \E i \in 1 .. n :
           /\ IsRun(log', i, n + 1)
           /\ returned'[n + 1] = << RunSet(log', i, n + 1) >>
      \/ /\ returned'[n + 1] = << >>
         /\ \A i \in 1 .. n : ~ IsRun(log', i, n + 1)
  <2>1. \A i \in 1 .. n : IsRun(log', i, n + 1)
                             <=> c.type = "END" /\ OpenRun(log, i)
    BY <1>1, RunCloses
  <2>2. CASE c.type = "END" /\ asm.state # None
    <3>1. returned'[n + 1] = << [pts |-> asm.pts, state |-> asm.state,
                                 segments |-> Append(asm.segments, c)] >>
      BY <1>4, <2>2
    <3>2. PICK i \in 1 .. n : /\ OpenRun(log, i)
                              /\ asm.pts = log[i].pts
                              /\ asm.state = log[i].comp
                              /\ asm.segments = SubSeq(log, i, n)
      BY <1>2, <2>2 DEF HoldsTheOpenRun
    <3>3. SubSeq(log', i, n + 1) = Append(asm.segments, c)
      BY <1>1, <3>2, SubSeqExtends
    <3>4. log'[i] = log[i]
      BY <1>1
    <3>5. returned'[n + 1] = << RunSet(log', i, n + 1) >>
      BY <3>1, <3>2, <3>3, <3>4 DEF RunSet
    <3>. QED
      BY <2>1, <2>2, <3>2, <3>5
  <2>3. CASE ~ (c.type = "END" /\ asm.state # None)
    <3>1. returned'[n + 1] = << >>
      BY <1>4, <2>3
    <3>2. asm.state = None => \A i \in 1 .. n : ~ OpenRun(log, i)
      BY <1>2 DEF HoldsTheOpenRun
    <3>. QED
      BY <2>1, <2>3, <3>1, <3>2
  <2>. QED
    BY <2>2, <2>3
<1>7. \A j \in 1 .. n + 1 : j \in 1 .. n \/ (j = n + 1 /\ j - 1 = n)
  BY <1>1
<1>. QED
  BY <1>1, <1>5, <1>6, <1>7 DEF ReturnsExactlyTheRuns

LEMMA InvStep ==
  ASSUME Inv, [Next]_vars
  PROVE  Inv'
<1>1. TypeOK'
  BY TypeOKStep DEF Inv
<1>2. CASE UNCHANGED vars
  <2>1. HoldsTheOpenRun' /\ ReturnsExactlyTheRuns'
    BY <1>2 DEF Inv, vars, HoldsTheOpenRun, ReturnsExactlyTheRuns
  <2>. QED
    BY <1>1, <2>1 DEF Inv
<1>3. CASE Next
  <2>1. PICK c \in Call : CallStep(c)
    BY <1>3, NextIsACall
  <2>. QED
    BY <1>1, <2>1, HoldsStep, ReturnsStep DEF Inv
<1>. QED
  BY <1>2, <1>3

LEMMA InvAlways == Spec => []Inv
<1>1. Init => Inv
  BY DEF Init, Inv, TypeOK, AsmNew, HoldsTheOpenRun, ReturnsExactlyTheRuns
<1>2. Inv /\ [Next]_vars => Inv'
  BY InvStep
<1>. QED
  BY <1>1, <1>2, PTL DEF Spec

(* push returns a display set exactly when one is complete, and exactly    *)
(* that one (display_set.rs:42-75).                                        *)
THEOREM PushReturnsTheRuns == Spec => []ReturnsExactlyTheRuns
<1>1. Inv => ReturnsExactlyTheRuns
  BY DEF Inv
<1>. QED
  BY <1>1, InvAlways, PTL

(* The assembler holds the open display set and no other                   *)
(* (display_set.rs:23-27, 45-49, 71).                                      *)
THEOREM AssemblerHoldsTheOpenRun == Spec => []HoldsTheOpenRun
<1>1. Inv => HoldsTheOpenRun
  BY DEF Inv
<1>. QED
  BY <1>1, InvAlways, PTL
=============================================================================

-------------------------- MODULE ExtractorProofs --------------------------
(***************************************************************************)
(* The Extractor, for every file, every builder chain and every behaviour  *)
(* of the scanner: the history is what was delivered, an Extractor that    *)
(* has ended stays ended, and what was delivered is the beginning of what  *)
(* was asked for and, at a regular end, all of it.                         *)
(*                                                                         *)
(* None is inductive alone.  BooksInv adds that nothing is delivered,      *)
(* cataloged or drained before next was called (so reopening the file and  *)
(* switching the history lose nothing), and that an end that was reported  *)
(* left inner at Done or consumed the Extractor.  RequestInv adds that on  *)
(* every track what was asked for is what was delivered and what the       *)
(* scanner still has inside the range, from the builder calls on.          *)
(***************************************************************************)
EXTENDS Extractor, SequenceLemmas, TLAPS

BooksInv ==
  /\ TypeOK
  /\ HistoryIsDelivered
  /\ mode = "setup" => /\ delivered = << >> /\ catalog = << >>
                       /\ drained = << >> /\ last = "nothing"
  /\ last = "none" \/ last = "err" => inner = "done" \/ mode = "over"

(* Opening a file gives every track a sequence of display sets.            *)
LEMMA OpenedTyped ==
  ASSUME TypeOK, NEW ids \in SUBSET Tracks
  PROVE  Opened(ids) \in [Tracks -> Seq(Scanned)]
BY FilesAssumption DEF Opened, TypeOK

LEMMA SubSeqsTyped ==
  ASSUME NEW sets \in Seq(Scanned), NEW s \in SubSeqs(sets)
  PROVE  s \in Seq(Scanned)
<1>1. PICK i \in 0 .. Len(sets), j \in 0 .. Len(sets) : s = SubSeq(sets, i + 1, j)
  BY DEF SubSeqs
<1>2. \A k \in i + 1 .. j : sets[k] \in Scanned
  BY <1>1, LenProperties, ElementOfSeq
<1>. QED
  BY <1>1, <1>2, SubSeqProperties, LenProperties

LEMMA NarrowedTyped ==
  ASSUME TypeOK, NEW r, SetTimeRange(r)
  PROVE  left' \in [Tracks -> Seq(Scanned)]
<1>1. CASE UNCHANGED left
  BY <1>1 DEF TypeOK
<1>2. CASE left' \in [Tracks -> UNION {SubSeqs(Opened(active)[t]) : t \in Tracks}]
  <2>1. ASSUME NEW t \in Tracks PROVE left'[t] \in Seq(Scanned)
    <3>1. PICK u \in Tracks : left'[t] \in SubSeqs(Opened(active)[u])
      BY <1>2, <2>1
    <3>2. Opened(active)[u] \in Seq(Scanned)
      BY OpenedTyped, <3>1 DEF TypeOK
    <3>. QED
      BY <3>1, <3>2, SubSeqsTyped
  <2>. QED
    BY <1>2, <2>1
<1>. QED
  BY <1>1, <1>2 DEF SetTimeRange

(* What a step of the scanner hands to next.                               *)
LEMMA GiveTyped ==
  ASSUME TypeOK, NEW t \in Tracks, Scanner!Give(t)
  PROVE  /\ left' \in [Tracks -> Seq(Scanned)]
         /\ given' \in Seq(Tracks \X Scanned)
         /\ ended' = ended
         /\ OneGiven \in Scanned
<1>1. left[t] \in Seq(Scanned) /\ left[t] # << >>
  BY DEF TypeOK, Scanner!Give
<1>2. Head(left[t]) \in Scanned /\ Tail(left[t]) \in Seq(Scanned)
  BY <1>1, HeadTailProperties
<1>3. given' = Append(given, << t, Head(left[t]) >>)
  BY DEF Scanner!Give
<1>4. << t, Head(left[t]) >> \in Tracks \X Scanned
  BY <1>2
<1>5. given' \in Seq(Tracks \X Scanned) /\ OneGiven = Head(left[t])
  BY <1>3, <1>4, AppendProperties DEF TypeOK, OneGiven
<1>. QED
  BY <1>2, <1>5 DEF TypeOK, Scanner!Give

(* Builder calls leave the books empty, and a new scanner is well-typed.   *)
LEMMA ReopenTyped ==
  ASSUME BooksInv, mode = "setup", NEW ids \in SUBSET Tracks,
         NEW s \in {"Auto", "Sequential"}, Reopen(ids, s),
         UNCHANGED << file, delivered, drained, mode, last, collected, byHand >>
  PROVE  BooksInv'
<1>1. left' \in [Tracks -> Seq(Scanned)]
  BY OpenedTyped DEF Reopen, BooksInv
<1>2. TypeOK'
  BY <1>1 DEF Reopen, BooksInv, TypeOK
<1>. QED
  BY <1>2 DEF Reopen, BooksInv, HistoryIsDelivered

LEMMA SetupStep ==
  ASSUME BooksInv,
         \/ \E s \in {"Auto", "Sequential"} : WithMkvStrategy(s)
         \/ \E ids \in Filters : WithTrackFilter(ids)
         \/ \E r \in Ranges : WithTimeRange(r)
         \/ \E on \in BOOLEAN : WithHistory(on)
  PROVE  BooksInv' /\ delivered' = delivered
<1>1. ASSUME UNCHANGED vars PROVE BooksInv' /\ delivered' = delivered
  BY <1>1 DEF vars, scanner, request, books, BooksInv, TypeOK, HistoryIsDelivered
<1>2. ASSUME NEW s \in {"Auto", "Sequential"}, WithMkvStrategy(s)
      PROVE  BooksInv' /\ delivered' = delivered
  <2>1. CASE UNCHANGED vars
    BY <2>1, <1>1
  <2>2. CASE Setup("strategy", Tracks, NoRange, TRUE) /\ Reopen(Tracks, s)
    BY <2>2, ReopenTyped DEF Setup
  <2>3. CASE /\ Setup("strategy", Tracks, NoRange, FALSE)
             /\ strategy' = s
             /\ UNCHANGED << scanner, inner, active, range, historyOn, catalog >>
    BY <2>3 DEF Setup, scanner, BooksInv, TypeOK, HistoryIsDelivered
  <2>. QED
    BY <1>2, <2>1, <2>2, <2>3 DEF WithMkvStrategy
<1>3. ASSUME NEW ids \in Filters, WithTrackFilter(ids)
      PROVE  BooksInv' /\ delivered' = delivered
  <2>1. CASE UNCHANGED vars
    BY <2>1, <1>1
  <2>2. CASE /\ Setup("filter", ids, NoRange, TRUE)
             /\ Reopen(ids, IF file.format = "mkv" THEN strategy ELSE "Auto")
    <3>1. (IF file.format = "mkv" THEN strategy ELSE "Auto")
             \in {"Auto", "Sequential"}
      BY DEF BooksInv, TypeOK
    <3>2. ids \in SUBSET Tracks
      BY FiltersAssumption
    <3>. QED
      BY <2>2, <3>1, <3>2, ReopenTyped DEF Setup
  <2>3. CASE /\ Setup("filter", ids, NoRange, FALSE)
             /\ UNCHANGED << scanner, inner, request, historyOn, catalog >>
    BY <2>3 DEF Setup, scanner, request, BooksInv, TypeOK, HistoryIsDelivered
  <2>. QED
    BY <1>3, <2>1, <2>2, <2>3 DEF WithTrackFilter
<1>4. ASSUME NEW r \in Ranges, WithTimeRange(r)
      PROVE  BooksInv' /\ delivered' = delivered
  <2>1. CASE r = NoRange
    BY <2>1, <1>1, <1>4 DEF WithTimeRange
  <2>2. CASE r # NoRange
    <3>1. SetTimeRange(r) /\ range' = r
      BY <1>4, <2>2 DEF WithTimeRange
    <3>2. left' \in [Tracks -> Seq(Scanned)]
      BY <3>1, NarrowedTyped DEF BooksInv
    <3>. QED
      BY <1>4, <2>2, <3>1, <3>2
         DEF WithTimeRange, Setup, BooksInv, TypeOK, HistoryIsDelivered
  <2>. QED
    BY <2>1, <2>2
<1>5. ASSUME NEW on \in BOOLEAN, WithHistory(on)
      PROVE  BooksInv' /\ delivered' = delivered
  BY <1>5 DEF WithHistory, scanner, request, BooksInv, TypeOK,
              HistoryIsDelivered
<1>. QED
  BY <1>2, <1>3, <1>4, <1>5

(* A call that ends the iteration closes the Extractor.                    *)
LEMMA ReturnStep ==
  ASSUME BooksInv, NEW what \in {"none", "err"}, Return(what),
         left' \in [Tracks -> Seq(Scanned)],
         given' \in Seq(Tracks \X Scanned),
         ended' \in {"more", "end", "err"}
  PROVE  BooksInv' /\ delivered' = delivered
<1>1. mode' \in {"next", "collect", "over"} /\ inner' = "done"
  BY DEF Return, BooksInv, TypeOK
<1>. QED
  BY <1>1 DEF Return, request, books, BooksInv, TypeOK, HistoryIsDelivered

LEMMA NextCallStep ==
  ASSUME BooksInv, NextCall
  PROVE  /\ BooksInv'
         /\ last = "none" \/ last = "err" => delivered' = delivered
<1>1. ASSUME NEW t \in Tracks, Deliver(t)
      PROVE  BooksInv' /\ last # "none" /\ last # "err"
  <2>1. /\ left' \in [Tracks -> Seq(Scanned)]
        /\ given' \in Seq(Tracks \X Scanned)
        /\ ended' = ended /\ OneGiven \in Scanned
    BY <1>1, GiveTyped DEF Deliver, BooksInv
  <2>2. /\ delivered' = Append(delivered, OneGiven)
        /\ delivered' \in Seq(Scanned)
        /\ Len(delivered') = Len(delivered) + 1
    BY <1>1, <2>1, AppendProperties DEF Deliver, BooksInv, TypeOK
  <2>3. catalog' \in Seq(Scanned) /\ drained' = drained
    BY <1>1, <2>1, AppendProperties DEF Deliver, BooksInv, TypeOK
  <2>4. TypeOK'
    BY <1>1, <2>1, <2>2, <2>3, LenProperties
       DEF Deliver, MayCall, Calling, request, BooksInv, TypeOK
  <2>5. HistoryIsDelivered'
    <3>1. CASE historyOn
      <4>1. drained \o Append(catalog, OneGiven) = Append(drained \o catalog, OneGiven)
        BY <2>1, AppendConcat DEF BooksInv, TypeOK
      <4>. QED
        BY <1>1, <2>2, <2>3, <3>1, <4>1 DEF Deliver, BooksInv, HistoryIsDelivered
    <3>2. CASE ~ historyOn
      BY <1>1, <3>2 DEF Deliver, BooksInv, HistoryIsDelivered
    <3>. QED
      BY <3>1, <3>2
  <2>. QED
    BY <1>1, <2>4, <2>5 DEF Deliver, MayCall, Calling, BooksInv
<1>2. ASSUME NEW t \in Tracks, SkipEarly(t)
      PROVE  BooksInv' /\ delivered' = delivered
  <2>1. /\ left' \in [Tracks -> Seq(Scanned)]
        /\ given' \in Seq(Tracks \X Scanned)
        /\ ended' = ended
    BY <1>2, GiveTyped DEF SkipEarly, BooksInv
  <2>. QED
    BY <1>2, <2>1 DEF SkipEarly, MayCall, Calling, request, books, BooksInv,
                      TypeOK, HistoryIsDelivered
<1>3. ASSUME NEW t \in Tracks, StopLate(t)
      PROVE  BooksInv' /\ delivered' = delivered
  <2>1. /\ left' \in [Tracks -> Seq(Scanned)]
        /\ given' \in Seq(Tracks \X Scanned)
        /\ ended' = ended
    BY <1>3, GiveTyped DEF StopLate, BooksInv
  <2>. QED
    BY <1>3, <2>1, ReturnStep DEF StopLate, BooksInv, TypeOK
<1>4. ASSUME ScannerEnds PROVE BooksInv' /\ delivered' = delivered
  BY <1>4, ReturnStep DEF ScannerEnds, Scanner!End, BooksInv, TypeOK
<1>5. ASSUME ScannerFails PROVE BooksInv' /\ delivered' = delivered
  BY <1>5, ReturnStep DEF ScannerFails, Scanner!Error, BooksInv, TypeOK
<1>6. ASSUME NextWhenDone PROVE BooksInv' /\ delivered' = delivered
  BY <1>6, ReturnStep DEF NextWhenDone, scanner, BooksInv, TypeOK
<1>. QED
  BY <1>1, <1>2, <1>3, <1>4, <1>5, <1>6 DEF NextCall

LEMMA BooksStep ==
  ASSUME BooksInv, [Next]_vars
  PROVE  /\ BooksInv'
         /\ last = "none" \/ last = "err" => delivered' = delivered
<1>1. CASE UNCHANGED vars
  BY <1>1 DEF vars, scanner, request, books, BooksInv, TypeOK,
              HistoryIsDelivered
<1>2. CASE \/ \E s \in {"Auto", "Sequential"} : WithMkvStrategy(s)
           \/ \E ids \in Filters : WithTrackFilter(ids)
           \/ \E r \in Ranges : WithTimeRange(r)
           \/ \E on \in BOOLEAN : WithHistory(on)
  BY <1>2, SetupStep
<1>3. CASE NextCall
  BY <1>3, NextCallStep
<1>4. CASE DrainHistory
  <2>1. /\ drained' \in Seq(Scanned) /\ catalog' \in Seq(Scanned)
        /\ drained' \o catalog' = drained \o catalog
    BY <1>4, ConcatProperties, ConcatEmptySeq, EmptySeq
       DEF DrainHistory, BooksInv, TypeOK
  <2>2. TypeOK'
    BY <1>4, <2>1 DEF DrainHistory, scanner, request, BooksInv, TypeOK
  <2>3. historyOn
    BY <1>4 DEF DrainHistory, BooksInv, HistoryIsDelivered
  <2>. QED
    BY <1>4, <2>1, <2>2, <2>3 DEF DrainHistory, BooksInv, HistoryIsDelivered
<1>5. CASE CollectInParallel
  BY <1>5 DEF CollectInParallel, scanner, request, books, BooksInv, TypeOK,
              HistoryIsDelivered
<1>6. CASE CollectByNext
  BY <1>6, LenProperties
     DEF CollectByNext, scanner, request, books, BooksInv, TypeOK,
         HistoryIsDelivered
<1>. QED
  BY <1>1, <1>2, <1>3, <1>4, <1>5, <1>6 DEF Next

LEMMA BooksInit == Init => BooksInv
<1> SUFFICES ASSUME Init PROVE BooksInv
  OBVIOUS
<1>1. file.content \in [Tracks -> Seq(Scanned)]
  BY FilesAssumption DEF Init
<1>2. TypeOK
  BY <1>1, EmptySeq DEF Init, TypeOK
<1>. QED
  BY <1>2, ConcatEmptySeq, EmptySeq DEF Init, BooksInv, HistoryIsDelivered

LEMMA BooksAlways == Spec => []BooksInv
<1>1. BooksInv /\ [Next]_vars => BooksInv'
  BY BooksStep
<1>. QED
  BY <1>1, BooksInit, PTL DEF Spec

(* Type correctness of the Extractor.                                      *)
THEOREM ExtractorTyped == Spec => []TypeOK
<1>1. BooksInv => TypeOK
  BY DEF BooksInv
<1>. QED
  BY <1>1, BooksAlways, PTL

(* lib.rs:517-539 and 586-631: what history and drain_history hand out is  *)
(* what next returned, in order and once; nothing when it is off.          *)
THEOREM HistoryIsWhatWasDelivered == Spec => []HistoryIsDelivered
<1>1. BooksInv => HistoryIsDelivered
  BY DEF BooksInv
<1>. QED
  BY <1>1, BooksAlways, PTL

(* lib.rs:590-629: after None or an error the Extractor yields no more.    *)
THEOREM ExtractorIsFused == Spec => Fused
<1>1. BooksInv /\ [Next]_vars =>
        [(last = "none" \/ last = "err") => delivered' = delivered]_vars
  BY BooksStep
<1>. QED
  BY <1>1, BooksAlways, PTL DEF Spec, Fused

-----------------------------------------------------------------------------
(* A builder call as setup records it.                                     *)
Call == [call : {"strategy", "filter", "range"}, ids : SUBSET Tracks,
         range : Ranges \cup {NoRange}, ok : BOOLEAN]

Own(sets, t) == \A k \in 1 .. Len(sets) : sets[k].trk = t

Sorted(sets) == \A j, k \in 1 .. Len(sets) : j <= k => sets[j].pts <= sets[k].pts

(* The builder: what each call leaves for the first next to find.          *)
BuilderInv ==
  /\ setup \in Seq(Call)
  /\ mode = "setup" =>
       /\ given = << >> /\ ended = "more"
       /\ inner = "done" => file.format = "sup" /\ 0 \notin active
       /\ file.format # "mkv" /\ (\A j \in 1 .. Len(setup) : setup[j].range.lo = {})
            => left = Opened(active)
  /\ CarriedOver => active = WantedTracks /\ range = WantedRange

(* What is still to come from the scanner.                                 *)
LeftInv ==
  \A t \in Tracks :
    /\ Own(left[t], t)
    /\ InOrder(t) => Sorted(left[t])
    /\ t \notin active => left[t] = << >> /\ Only(delivered, OfTrack(t)) = << >>

(* What the request selects from a track is what was delivered and what    *)
(* the scanner still has for it.                                           *)
PendingInv ==
  CarriedOver =>
    \A t \in active :
      Only(file.content[t], Within(range)) =
        Only(delivered, OfTrack(t)) \o Only(left[t], Within(range))

(* The last set the scanner gave is past the end, and so is what it still  *)
(* has of that track if the track is in order.                             *)
StoppedLate ==
  /\ given # << >>
  /\ LET g == given[Len(given)]
     IN  /\ Late(g[2], range)
         /\ InOrder(g[1]) =>
              \A k \in 1 .. Len(left[g[1]]) : Late(left[g[1]][k], range)

(* How the iteration ended.                                                *)
OverInv ==
  /\ given = << >> => delivered = << >>
  /\ inner = "done" /\ ended # "err" =>
       (\A t \in Tracks : left[t] = << >>) \/ StoppedLate
  /\ mode = "over" /\ last = "none" /\ inner = "open" =>
       collected = Opened(active) /\ range = NoRange /\ delivered = << >>
  /\ mode = "over" /\ last = "none" /\ inner = "done" =>
       \A t \in Tracks :
         collected[t] = Only(SubSeq(delivered, byHand + 1, Len(delivered)), OfTrack(t))

RequestInv == BuilderInv /\ LeftInv /\ PendingInv /\ OverInv
-----------------------------------------------------------------------------
(* What the builder calls ask for, one call later.                         *)

(* A non-empty set of call numbers has a last one.                         *)
LEMMA LastExists ==
  ASSUME NEW N \in Nat, NEW at \in SUBSET (1 .. N), at # {}
  PROVE  \E k \in at : \A j \in at : j <= k
<1> DEFINE T == {m \in 0 .. N : \A B \in SUBSET (1 .. m) :
                   B # {} => \E k \in B : \A j \in B : j <= k}
<1>1. 0 \in T
  <2>1. \A B \in SUBSET (1 .. 0) : B = {}
    OBVIOUS
  <2>2. \A B \in SUBSET (1 .. 0) : B # {} => \E k \in B : \A j \in B : j <= k
    BY <2>1, Zenon
  <2>3. 0 \in 0 .. N
    OBVIOUS
  <2>. QED
    BY <2>2, <2>3, Zenon
<1>2. ASSUME NEW m \in 0 .. N - 1, m \in T PROVE m + 1 \in T
  <2> SUFFICES ASSUME NEW B \in SUBSET (1 .. m + 1), B # {}
               PROVE  \E k \in B : \A j \in B : j <= k
    OBVIOUS
  <2>1. CASE m + 1 \in B
    BY <2>1
  <2>2. CASE m + 1 \notin B
    <3>1. B \in SUBSET (1 .. m)
      BY <2>2
    <3>. QED
      BY <1>2, <3>1
  <2>. QED
    BY <2>1, <2>2
<1>3. 0 .. N \subseteq T
  <2> HIDE DEF T
  <2> QED BY <1>1, <1>2, Upto
<1>4. N \in T
  BY <1>3
<1>. QED
  BY <1>4

LEMMA LastCallAppend ==
  ASSUME setup \in Seq(Call), NEW c \in Call, setup' = Append(setup, c), NEW name
  PROVE  LastCall(name)' = IF c.call = name THEN c ELSE LastCall(name)
<1> DEFINE n == Len(setup)
           at == {k \in DOMAIN setup : setup[k].call = name}
           new == {k \in DOMAIN setup' : setup'[k].call = name}
           max == CHOOSE k \in at : \A j \in at : j <= k
           maxNew == CHOOSE k \in new : \A j \in new : j <= k
<1>1. /\ n \in Nat /\ DOMAIN setup = 1 .. n /\ DOMAIN setup' = 1 .. n + 1
      /\ \A k \in 1 .. n : setup'[k] = setup[k]
      /\ setup'[n + 1] = c
  BY AppendProperties, LenProperties
<1>2. CASE c.call = name
  <2>1. n + 1 \in new /\ \A j \in new : j <= n + 1
    BY <1>1, <1>2
  <2>2. \A k \in new : (\A j \in new : j <= k) => k = n + 1
    <3>1. \A k \in new : n + 1 <= k /\ k <= n + 1 /\ k \in Nat => k = n + 1
      BY <1>1
    <3>2. \A k \in new : k \in Nat
      BY <1>1
    <3> HIDE DEF new
    <3> QED BY <2>1, <3>1, <3>2
  <2> HIDE DEF new
  <2>3. maxNew = n + 1
    BY <2>1, <2>2
  <2>4. LastCall(name)' = setup'[maxNew]
    BY <2>1 DEF LastCall, new
  <2>. QED
    BY <1>1, <1>2, <2>3, <2>4
<1>3. CASE c.call # name
  <2>1. new = at
    BY <1>1, <1>3
  <2>2. CASE at = {}
    BY <1>3, <2>1, <2>2 DEF LastCall
  <2>3. CASE at # {}
    <3>1. at \in SUBSET (1 .. n)
      BY <1>1
    <3>2. \E k \in at : \A j \in at : j <= k
      <4> HIDE DEF at
      <4> QED BY <1>1, <2>3, <3>1, LastExists
    <3>3. max \in at
      <4> HIDE DEF at
      <4> QED BY <3>2
    <3>4. setup'[max] = setup[max]
      <4> HIDE DEF max
      <4> QED BY <1>1, <3>1, <3>3
    <3>5. LastCall(name) = setup[max]
      BY <2>3 DEF LastCall
    <3>6. LastCall(name)' = setup'[maxNew]
      BY <2>3, <2>1 DEF LastCall
    <3>7. maxNew = max
      BY <2>1
    <3>. QED
      BY <1>3, <3>4, <3>5, <3>6, <3>7
  <2>. QED
    BY <2>2, <2>3
<1>. QED
  BY <1>2, <1>3

(* A kind of call that was not made asks for nothing.                      *)
LEMMA NoCall ==
  ASSUME NEW name, \A k \in DOMAIN setup : setup[k].call # name
  PROVE  LastCall(name) = [ids |-> Tracks, range |-> NoRange]
BY DEF LastCall

(* As long as no call is made the request stays what it was.               *)
LEMMA SameRequest ==
  ASSUME UNCHANGED setup
  PROVE  /\ CarriedOver' = CarriedOver
         /\ WantedTracks' = WantedTracks /\ WantedRange' = WantedRange
<1>1. ASSUME NEW name PROVE LastCall(name)' = LastCall(name)
  BY DEF LastCall
<1>2. CarriedOver' = CarriedOver
  BY DEF CarriedOver
<1>. QED
  BY <1>1, <1>2 DEF WantedTracks, WantedRange

(* Settings that are carried over with one call more were without it.      *)
LEMMA CarriedOverAppend ==
  ASSUME setup \in Seq(Call), NEW c \in Call, setup' = Append(setup, c),
         CarriedOver'
  PROVE  /\ CarriedOver /\ c.ok
         /\ c.call = "strategy" =>
              \A j \in DOMAIN setup : setup[j].call = "strategy"
         /\ c.call = "filter" => \A j \in DOMAIN setup : setup[j].call # "range"
         /\ c.call = "range" /\ c.range.lo = {} =>
              \A j \in DOMAIN setup : setup[j].range.lo = {}
<1> DEFINE n == Len(setup)
<1>1. /\ n \in Nat /\ DOMAIN setup = 1 .. n /\ DOMAIN setup' = 1 .. n + 1
      /\ \A k \in 1 .. n : setup'[k] = setup[k]
      /\ setup'[n + 1] = c
  BY AppendProperties, LenProperties
<1>2. \A k \in 1 .. n : \A j \in 1 .. k - 1 : j \in 1 .. n
  BY <1>1
<1>3. CarriedOver
  <2> SUFFICES ASSUME NEW k \in 1 .. n
               PROVE  /\ setup[k].ok
                      /\ setup[k].call = "strategy" =>
                           \A j \in 1 .. k - 1 : setup[j].call = "strategy"
                      /\ setup[k].call = "filter" =>
                           \A j \in 1 .. k - 1 : setup[j].call # "range"
                      /\ setup[k].call = "range" /\ setup[k].range.lo = {} =>
                           \A j \in 1 .. k - 1 : setup[j].range.lo = {}
    BY <1>1 DEF CarriedOver
  <2>1. k \in DOMAIN setup' /\ setup'[k] = setup[k]
    BY <1>1
  <2>2. \A j \in 1 .. k - 1 : setup'[j] = setup[j]
    BY <1>1, <1>2
  <2> HIDE DEF n
  <2>. QED
    BY <2>1, <2>2 DEF CarriedOver
<1>4. n + 1 \in DOMAIN setup' /\ (n + 1) - 1 = n
  BY <1>1
<1>. QED
  <2> HIDE DEF n
  <2> QED BY <1>1, <1>3, <1>4 DEF CarriedOver

(* What a file holds for each track.                                       *)
LEMMA ContentFacts ==
  ASSUME BooksInv, NEW t \in Tracks
  PROVE  /\ file.content[t] \in Seq(Scanned)
         /\ Own(file.content[t], t)
         /\ file.format = "sup" /\ t # 0 => file.content[t] = << >>
         /\ InOrder(t) => Sorted(file.content[t])
BY FilesAssumption DEF BooksInv, TypeOK, InOrder, Sorted, Own

LEMMA EmptyIsSorted ==
  ASSUME NEW x, x = << >>, NEW t
  PROVE  /\ Sorted(x)
         /\ Own(x, t)
BY DEF Sorted, Own

-----------------------------------------------------------------------------
(* The builder calls.                                                      *)
LEMMA ReopenRequest ==
  ASSUME BooksInv, RequestInv, mode = "setup",
         NEW ids \in SUBSET Tracks, NEW s \in {"Auto", "Sequential"},
         Reopen(ids, s),
         NEW c \in Call, setup' = Append(setup, c),
         UNCHANGED << file, delivered, mode, last, collected, byHand >>,
         CarriedOver' => WantedTracks' = ids /\ WantedRange' = NoRange
  PROVE  RequestInv'
<1>1. /\ \A t \in Tracks : left'[t] = IF t \in ids THEN file.content[t] ELSE << >>
      /\ left' = Opened(ids)
      /\ active' = ids /\ range' = NoRange /\ given' = << >> /\ ended' = "more"
      /\ inner' = IF file.format = "sup" /\ 0 \notin ids THEN "done" ELSE "open"
  BY DEF Reopen, Opened
<1>2. delivered = << >> /\ last = "nothing" /\ setup \in Seq(Call)
  BY DEF BooksInv, RequestInv, BuilderInv
<1>3. BuilderInv'
  <2>1. setup' \in Seq(Call)
    BY <1>2, AppendProperties
  <2>2. left' = Opened(active)'
    BY <1>1 DEF Opened
  <2>. QED
    BY <1>1, <2>1, <2>2 DEF BuilderInv
<1>4. LeftInv'
  <2> SUFFICES ASSUME NEW t \in Tracks
               PROVE  /\ Own(left'[t], t)
                      /\ InOrder(t) => Sorted(left'[t])
                      /\ t \notin ids => left'[t] = << >> /\ Only(delivered, OfTrack(t)) = << >>
    BY <1>1 DEF LeftInv, InOrder, OfTrack, Sorted, Own
  <2>1. Only(delivered, OfTrack(t)) = << >>
    BY <1>2, OnlyEmpty
  <2>2. CASE t \in ids
    BY <1>1, <2>2, ContentFacts
  <2>3. CASE t \notin ids
    BY <1>1, <2>1, <2>3, EmptyIsSorted
  <2>. QED
    BY <2>2, <2>3
<1>5. PendingInv'
  <2> SUFFICES ASSUME NEW t \in ids
               PROVE  Only(file.content[t], Within(NoRange)) =
                        Only(delivered, OfTrack(t)) \o Only(left'[t], Within(NoRange))
    BY <1>1 DEF PendingInv, OfTrack, Within, NoRange
  <2>1. Only(delivered, OfTrack(t)) = << >>
    BY <1>2, OnlyEmpty
  <2>2. left'[t] = file.content[t] /\ file.content[t] \in Seq(Scanned)
    BY <1>1, ContentFacts
  <2>3. Only(file.content[t], Within(NoRange)) \in Seq(Scanned)
    BY <2>2, OnlyTyped
  <2>. QED
    BY <2>1, <2>2, <2>3, ConcatEmptySeq
<1>6. OverInv'
  <2>1. mode' # "over"
    OBVIOUS
  <2>2. inner' = "done" => \A t \in Tracks : left'[t] = << >>
    <3> SUFFICES ASSUME file.format = "sup", 0 \notin ids, NEW t \in Tracks
                 PROVE  left'[t] = << >>
      BY <1>1
    <3>. QED
      BY <1>1, ContentFacts
  <2>. QED
    BY <1>1, <1>2, <2>1, <2>2 DEF OverInv
<1>. QED
  BY <1>3, <1>4, <1>5, <1>6 DEF RequestInv

(* A failed call changes no state but the strategy.                        *)
LEMMA FailedRequest ==
  ASSUME BooksInv, RequestInv, mode = "setup",
         NEW c \in Call, setup' = Append(setup, c), ~ c.ok, c.range = NoRange,
         UNCHANGED << file, scanner, inner, active, range, delivered, mode, last,
                      collected, byHand >>
  PROVE  RequestInv'
<1>1. setup \in Seq(Call)
  BY DEF RequestInv, BuilderInv
<1>2. ~ CarriedOver'
  BY <1>1, CarriedOverAppend
<1>3. /\ Len(setup) \in Nat /\ Len(setup') = Len(setup) + 1
      /\ \A j \in 1 .. Len(setup) : setup'[j] = setup[j]
      /\ setup' \in Seq(Call)
  BY <1>1, AppendProperties, LenProperties
<1>4. (\A j \in 1 .. Len(setup') : setup'[j].range.lo = {}) =>
        \A j \in 1 .. Len(setup) : setup[j].range.lo = {}
  BY <1>3
<1>5. BuilderInv'
  BY <1>2, <1>3, <1>4 DEF RequestInv, BuilderInv, scanner, Opened
<1>6. LeftInv'
  BY DEF RequestInv, LeftInv, scanner, InOrder, OfTrack, Sorted, Own
<1>7. PendingInv'
  BY <1>2 DEF PendingInv
<1>8. OverInv'
  BY DEF RequestInv, OverInv, StoppedLate, scanner, InOrder, Late, Opened, OfTrack
<1>. QED
  BY <1>5, <1>6, <1>7, <1>8 DEF RequestInv

(* Cutting off what lies outside the range loses nothing asked for, and    *)
(* leaves the order.                                                       *)
LEMMA NarrowedKeeps ==
  ASSUME NEW r, NEW sets \in Seq(Scanned), NEW rest, Narrowed(r, sets, rest),
         NEW t, Own(sets, t)
  PROVE  /\ Only(rest, Within(r)) = Only(sets, Within(r))
         /\ Own(rest, t)
         /\ Sorted(sets) => Sorted(rest)
         /\ sets = << >> => rest = << >>
<1>1. PICK i \in 0 .. Len(sets), j \in 0 .. Len(sets) :
        /\ i <= j /\ rest = SubSeq(sets, i + 1, j)
        /\ \A k \in 1 .. i : Early(sets[k], r)
        /\ \A k \in j + 1 .. Len(sets) : Late(sets[k], r)
  BY DEF Narrowed
<1>2. i \in 0 .. Len(sets) /\ j \in i .. Len(sets) /\ Len(sets) \in Nat
  BY <1>1, LenProperties
<1>3. Only(rest, Within(r)) = Only(sets, Within(r))
  <2>1. \A k \in 1 .. i : sets[k] \notin Within(r)
    BY <1>1 DEF Within
  <2>2. \A k \in j + 1 .. Len(sets) : sets[k] \notin Within(r)
    BY <1>1 DEF Within
  <2>. QED
    BY <1>1, <1>2, <2>1, <2>2, OnlySlice
<1>4. /\ Len(rest) = j - i
      /\ \A k \in 1 .. j - i : rest[k] = sets[i + k] /\ i + k \in 1 .. Len(sets)
  BY <1>1, <1>2, Slices
<1>5. Sorted(sets) => Sorted(rest)
  <2> SUFFICES ASSUME Sorted(sets), NEW a \in 1 .. Len(rest), NEW b \in 1 .. Len(rest),
                      a <= b
               PROVE  rest[a].pts <= rest[b].pts
    BY DEF Sorted
  <2>1. /\ rest[a] = sets[i + a] /\ i + a \in 1 .. Len(sets)
        /\ rest[b] = sets[i + b] /\ i + b \in 1 .. Len(sets)
    BY <1>4
  <2>2. i + a <= i + b
    BY <1>2
  <2>. QED
    BY <2>1, <2>2 DEF Sorted
<1>7. Own(rest, t)
  BY <1>4 DEF Own
<1>6. sets = << >> => rest = << >>
  <2>1. sets = << >> => j < i + 1
    BY <1>2, EmptySeq
  <2>. QED
    BY <1>1, <1>2, <2>1, SubSeqEmpty
<1>. QED
  BY <1>3, <1>5, <1>6, <1>7

LEMMA RangeRequest ==
  ASSUME BooksInv, RequestInv, mode = "setup",
         NEW r \in Ranges, NEW c \in Call, c.call = "range", c.range = r,
         setup' = Append(setup, c), range' = r, SetTimeRange(r),
         UNCHANGED << file, given, ended, inner, active, delivered, mode, last,
                      collected, byHand >>
  PROVE  RequestInv'
<1>1. /\ setup \in Seq(Call) /\ delivered = << >> /\ last = "nothing"
      /\ given = << >> /\ ended = "more"
  BY DEF BooksInv, RequestInv, BuilderInv
<1>2. /\ Len(setup) \in Nat /\ Len(setup') = Len(setup) + 1
      /\ \A j \in 1 .. Len(setup) : setup'[j] = setup[j]
      /\ setup'[Len(setup')] = c /\ setup' \in Seq(Call)
  BY <1>1, AppendProperties, LenProperties
<1>3. Opened(active) \in [Tracks -> Seq(Scanned)]
  BY OpenedTyped DEF BooksInv, TypeOK
<1>4. ASSUME NEW t \in Tracks
      PROVE  /\ Own(Opened(active)[t], t)
             /\ InOrder(t) => Sorted(Opened(active)[t])
             /\ t \in active => Opened(active)[t] = file.content[t]
             /\ t \notin active => Opened(active)[t] = << >>
             /\ Opened(active)[t] \in Seq(Scanned)
  <2>1. Opened(active)[t] = IF t \in active THEN file.content[t] ELSE << >>
    BY DEF Opened
  <2>2. CASE t \in active
    BY <2>1, <2>2, ContentFacts
  <2>3. CASE t \notin active
    BY <2>1, <2>3, EmptyIsSorted
  <2>. QED
    BY <1>3, <2>2, <2>3
<1> DEFINE Narrowing ==
             \A t \in Tracks : Narrowed(r, Opened(active)[t], left'[t])
<1>5. \/ Narrowing /\ (file.format = "mkv" \/ r.lo # {}) /\ inner = "open"
      \/ UNCHANGED left /\ (inner = "done" \/ (file.format # "mkv" /\ r.lo = {}))
  BY DEF SetTimeRange
<1>11. ASSUME NEW t \in Tracks, Narrowed(r, Opened(active)[t], left'[t])
       PROVE  /\ Only(left'[t], Within(r)) = Only(Opened(active)[t], Within(r))
              /\ Own(left'[t], t)
              /\ Sorted(Opened(active)[t]) => Sorted(left'[t])
              /\ Opened(active)[t] = << >> => left'[t] = << >>
  <2> DEFINE o == Opened(active)[t]
             rest == left'[t]
  <2>1. /\ o \in Seq(Scanned) /\ Narrowed(r, o, rest)
        /\ Own(o, t)
    BY <1>4, <1>11
  <2> HIDE DEF o, rest
  <2>2. /\ Only(rest, Within(r)) = Only(o, Within(r))
        /\ Own(rest, t)
        /\ Sorted(o) => Sorted(rest)
        /\ o = << >> => rest = << >>
    BY <2>1, NarrowedKeeps
  <2>. QED
    BY <2>2 DEF o, rest
<1>6. LeftInv'
  <2> SUFFICES ASSUME NEW t \in Tracks
               PROVE  /\ Own(left'[t], t)
                      /\ InOrder(t) => Sorted(left'[t])
                      /\ t \notin active => left'[t] = << >> /\ Only(delivered, OfTrack(t)) = << >>
    BY DEF LeftInv, InOrder, OfTrack, Sorted, Own
  <2>1. CASE Narrowing
    <3>1. Narrowed(r, Opened(active)[t], left'[t])
      BY <2>1
    <3>2. /\ Own(left'[t], t)
          /\ Sorted(Opened(active)[t]) => Sorted(left'[t])
          /\ Opened(active)[t] = << >> => left'[t] = << >>
      BY <3>1, <1>11
    <3>. QED
      BY <3>2, <1>4 DEF RequestInv, LeftInv
  <2>2. CASE UNCHANGED left
    BY <2>2 DEF RequestInv, LeftInv
  <2>. QED
    BY <1>5, <2>1, <2>2
<1>7. /\ WantedTracks' = WantedTracks /\ WantedRange' = r
  BY <1>1, LastCallAppend DEF WantedTracks, WantedRange
<1>8. BuilderInv'
  <2>1. file.format # "mkv" /\ (\A j \in 1 .. Len(setup') : setup'[j].range.lo = {})
          => left' = Opened(active)
    <3> SUFFICES ASSUME file.format # "mkv",
                        \A j \in 1 .. Len(setup') : setup'[j].range.lo = {}
                 PROVE  left' = Opened(active)
      OBVIOUS
    <3>1. \A j \in 1 .. Len(setup) : setup[j].range.lo = {}
      BY <1>2
    <3>2. r.lo = {}
      BY <1>2
    <3>. QED
      BY <3>1, <3>2, <1>5 DEF RequestInv, BuilderInv
  <2>2. CarriedOver' => active = WantedTracks'
    BY <1>1, <1>7, CarriedOverAppend DEF RequestInv, BuilderInv
  <2>3. Opened(active)' = Opened(active)
    BY DEF Opened
  <2>. QED
    BY <1>1, <1>2, <1>7, <2>1, <2>2, <2>3 DEF RequestInv, BuilderInv
<1>9. PendingInv'
  <2> SUFFICES ASSUME CarriedOver', NEW t \in active
               PROVE  Only(file.content[t], Within(r)) =
                        Only(delivered, OfTrack(t)) \o Only(left'[t], Within(r))
    BY DEF PendingInv, OfTrack, Within, Early, Late
  <2>0. t \in Tracks
    BY DEF BooksInv, TypeOK
  <2>1. Only(delivered, OfTrack(t)) = << >>
    BY <1>1, OnlyEmpty
  <2>2. file.content[t] \in Seq(Scanned)
    BY <2>0, ContentFacts
  <2>3. Only(file.content[t], Within(r)) \in Seq(Scanned)
    BY <2>2, OnlyTyped
  <2>4. Only(left'[t], Within(r)) = Only(file.content[t], Within(r))
    <3>1. CASE Narrowing
      <4>1. Narrowed(r, Opened(active)[t], left'[t])
        BY <2>0, <3>1
      <4>2. Only(left'[t], Within(r)) = Only(Opened(active)[t], Within(r))
        BY <2>0, <4>1, <1>11
      <4>. QED
        BY <2>0, <4>2, <1>4
    <3>2. CASE UNCHANGED left /\ file.format # "mkv" /\ r.lo = {}
      <4>1. \A j \in DOMAIN setup : setup[j].range.lo = {}
        BY <1>1, <3>2, CarriedOverAppend
      <4>2. left = Opened(active)
        BY <1>1, <3>2, <4>1, LenProperties DEF RequestInv, BuilderInv
      <4>. QED
        BY <2>0, <3>2, <4>2, <1>4
    <3>3. CASE UNCHANGED left /\ inner = "done"
      <4>1. file.format = "sup" /\ 0 \notin active
        BY <3>3 DEF RequestInv, BuilderInv
      <4>2. file.content[t] = << >>
        BY <2>0, <4>1, ContentFacts
      <4>3. left[t] = << >>
        BY <2>0, <3>3, <1>1 DEF RequestInv, OverInv, StoppedLate
      <4>. QED
        BY <3>3, <4>2, <4>3
    <3>. QED
      BY <1>5, <3>1, <3>2, <3>3
  <2>. QED
    BY <2>1, <2>3, <2>4, ConcatEmptySeq
<1>10. OverInv'
  <2>1. inner = "done" => UNCHANGED left
    BY <1>5
  <2>. QED
    BY <1>1, <2>1 DEF RequestInv, OverInv, StoppedLate
<1>. QED
  BY <1>6, <1>8, <1>9, <1>10 DEF RequestInv

LEMMA SetupRequest ==
  ASSUME BooksInv, RequestInv,
         \/ \E s \in {"Auto", "Sequential"} : WithMkvStrategy(s)
         \/ \E ids \in Filters : WithTrackFilter(ids)
         \/ \E r \in Ranges : WithTimeRange(r)
         \/ \E on \in BOOLEAN : WithHistory(on)
  PROVE  RequestInv'
<1>0. setup \in Seq(Call)
  BY DEF RequestInv, BuilderInv
<1>1. ASSUME UNCHANGED << file, scanner, inner, active, range, mode, last,
                          collected, setup, delivered, byHand >>
      PROVE  RequestInv'
  <2>1. BuilderInv'
    BY <1>1, SameRequest DEF scanner, RequestInv, BuilderInv, Opened
  <2>2. LeftInv'
    BY <1>1 DEF scanner, RequestInv, LeftInv, InOrder, OfTrack, Sorted, Own
  <2>3. PendingInv'
    BY <1>1 DEF scanner, RequestInv, PendingInv, CarriedOver, OfTrack, Within
  <2>4. OverInv'
    BY <1>1 DEF scanner, RequestInv, OverInv, StoppedLate, InOrder, Late, Opened, OfTrack
  <2>. QED
    BY <2>1, <2>2, <2>3, <2>4 DEF RequestInv
<1>2. UNCHANGED vars => RequestInv'
  BY <1>1 DEF vars, scanner, request, books
<1>3. ASSUME NEW s \in {"Auto", "Sequential"}, WithMkvStrategy(s)
      PROVE  RequestInv'
  <2> DEFINE c(ok) == [call |-> "strategy", ids |-> Tracks, range |-> NoRange, ok |-> ok]
  <2>1. CASE Setup("strategy", Tracks, NoRange, TRUE) /\ Reopen(Tracks, s)
    <3>1. c(TRUE) \in Call /\ setup' = Append(setup, c(TRUE))
      BY <2>1 DEF Setup, Call
    <3>2. CarriedOver' => WantedTracks' = Tracks /\ WantedRange' = NoRange
      <4> SUFFICES ASSUME CarriedOver'
                   PROVE  WantedTracks' = Tracks /\ WantedRange' = NoRange
        OBVIOUS
      <4>1. \A j \in DOMAIN setup : setup[j].call = "strategy"
        BY <1>0, <3>1, CarriedOverAppend
      <4>2. /\ LastCall("filter") = [ids |-> Tracks, range |-> NoRange]
            /\ LastCall("range") = [ids |-> Tracks, range |-> NoRange]
        BY <4>1, NoCall
      <4>3. /\ LastCall("filter")' = LastCall("filter")
            /\ LastCall("range")' = LastCall("range")
        BY <1>0, <3>1, LastCallAppend
      <4>. QED
        BY <4>2, <4>3 DEF WantedTracks, WantedRange
    <3>3. mode = "setup" /\ UNCHANGED << file, delivered, mode, last, collected, byHand >>
      BY <2>1 DEF Setup
    <3>. QED
      BY <2>1, <3>1, <3>2, <3>3, ReopenRequest
  <2>2. CASE /\ Setup("strategy", Tracks, NoRange, FALSE)
             /\ strategy' = s
             /\ UNCHANGED << scanner, inner, active, range, historyOn, catalog >>
    <3>1. c(FALSE) \in Call /\ setup' = Append(setup, c(FALSE))
      BY <2>2 DEF Setup, Call
    <3>. QED
      BY <2>2, <3>1, FailedRequest DEF Setup
  <2>. QED
    BY <1>2, <1>3, <2>1, <2>2 DEF WithMkvStrategy
<1>4. ASSUME NEW ids \in Filters, WithTrackFilter(ids)
      PROVE  RequestInv'
  <2> DEFINE c(ok) == [call |-> "filter", ids |-> ids, range |-> NoRange, ok |-> ok]
  <2>0. ids \in SUBSET Tracks
    BY FiltersAssumption
  <2>1. CASE /\ Setup("filter", ids, NoRange, TRUE)
             /\ Reopen(ids, IF file.format = "mkv" THEN strategy ELSE "Auto")
    <3>1. c(TRUE) \in Call /\ setup' = Append(setup, c(TRUE))
      BY <2>0, <2>1 DEF Setup, Call
    <3>2. CarriedOver' => WantedTracks' = ids /\ WantedRange' = NoRange
      <4> SUFFICES ASSUME CarriedOver'
                   PROVE  WantedTracks' = ids /\ WantedRange' = NoRange
        OBVIOUS
      <4>1. \A j \in DOMAIN setup : setup[j].call # "range"
        BY <1>0, <3>1, CarriedOverAppend
      <4>2. LastCall("range") = [ids |-> Tracks, range |-> NoRange]
        BY <4>1, NoCall
      <4>3. /\ LastCall("filter")' = c(TRUE)
            /\ LastCall("range")' = LastCall("range")
        BY <1>0, <3>1, LastCallAppend
      <4>. QED
        BY <4>2, <4>3 DEF WantedTracks, WantedRange
    <3>3. mode = "setup" /\ UNCHANGED << file, delivered, mode, last, collected, byHand >>
      BY <2>1 DEF Setup
    <3>4. (IF file.format = "mkv" THEN strategy ELSE "Auto") \in {"Auto", "Sequential"}
      BY DEF BooksInv, TypeOK
    <3>. QED
      BY <2>0, <2>1, <3>1, <3>2, <3>3, <3>4, ReopenRequest
  <2>2. CASE /\ Setup("filter", ids, NoRange, FALSE)
             /\ UNCHANGED << scanner, inner, request, historyOn, catalog >>
    <3>1. c(FALSE) \in Call /\ setup' = Append(setup, c(FALSE))
      BY <2>0, <2>2 DEF Setup, Call
    <3>. QED
      BY <2>2, <3>1, FailedRequest DEF Setup, request
  <2>. QED
    BY <1>2, <1>4, <2>1, <2>2 DEF WithTrackFilter
<1>5. ASSUME NEW r \in Ranges, WithTimeRange(r)
      PROVE  RequestInv'
  <2> DEFINE c == [call |-> "range", ids |-> Tracks, range |-> r, ok |-> TRUE]
  <2>1. CASE r # NoRange
    <3>1. /\ Setup("range", Tracks, r, TRUE) /\ range' = r /\ SetTimeRange(r)
          /\ UNCHANGED << given, ended, inner, active >>
      BY <1>5, <2>1 DEF WithTimeRange
    <3>2. c \in Call /\ setup' = Append(setup, c) /\ c.call = "range" /\ c.range = r
      BY <3>1 DEF Setup, Call
    <3>3. mode = "setup" /\ UNCHANGED << file, delivered, mode, last, collected, byHand >>
      BY <3>1 DEF Setup
    <3> HIDE DEF c
    <3>. QED
      BY <3>1, <3>2, <3>3, RangeRequest
  <2>. QED
    BY <1>2, <1>5, <2>1 DEF WithTimeRange
<1>6. ASSUME NEW on \in BOOLEAN, WithHistory(on)
      PROVE  RequestInv'
  BY <1>1, <1>6 DEF WithHistory, request
<1>. QED
  BY <1>3, <1>4, <1>5, <1>6

-----------------------------------------------------------------------------
(* The iterator.                                                           *)

(* What one display set of the scanner changes in what is left.            *)
LEMMA GiveRequest ==
  ASSUME BooksInv, RequestInv, NEW t \in Tracks, Scanner!Give(t)
  PROVE  /\ OneGiven \in Scanned /\ OneGiven.trk = t /\ t \in active
         /\ given' # << >> /\ given'[Len(given')] = << t, OneGiven >>
         /\ \A u \in Tracks : u # t => left'[u] = left[u]
         /\ \A u \in Tracks : /\ left'[u] \in Seq(Scanned) /\ Own(left'[u], u)
                              /\ InOrder(u) => Sorted(left'[u])
                              /\ u \notin active => left'[u] = << >>
         /\ \A r : Only(left[t], Within(r)) =
                     IF OneGiven \in Within(r)
                     THEN << OneGiven >> \o Only(left'[t], Within(r))
                     ELSE Only(left'[t], Within(r))
         /\ InOrder(t) => \A k \in 1 .. Len(left'[t]) :
                            OneGiven.pts <= left'[t][k].pts
<1> DEFINE sets == left[t]
           h == Head(sets)
           rest == Tail(sets)
<1>1. /\ sets \in Seq(Scanned) /\ sets # << >>
      /\ given \in Seq(Tracks \X Scanned)
      /\ given' = Append(given, << t, h >>)
      /\ left' = [left EXCEPT ![t] = rest]
      /\ left \in [Tracks -> Seq(Scanned)]
  BY DEF BooksInv, TypeOK, Scanner!Give
<1>2. /\ h \in Scanned /\ rest \in Seq(Scanned)
      /\ Len(sets) \in Nat /\ Len(sets) > 0
      /\ h = sets[1] /\ Len(rest) = Len(sets) - 1
      /\ \A k \in 1 .. Len(rest) : rest[k] = sets[k + 1]
  BY <1>1, HeadTailProperties, EmptySeq
<1>3. << t, h >> \in Tracks \X Scanned
  BY <1>2
<1>4. given' # << >> /\ given'[Len(given')] = << t, h >> /\ OneGiven = h
  BY <1>1, <1>3, AppendProperties DEF OneGiven
<1>5. /\ left'[t] = rest
      /\ \A u \in Tracks : u # t => left'[u] = left[u]
  BY <1>1
<1>6. Own(sets, t) /\ (InOrder(t) => Sorted(sets)) /\ t \in active
  BY <1>1 DEF RequestInv, LeftInv
<1>7. /\ h.trk = t /\ Own(rest, t)
      /\ Sorted(sets) => /\ Sorted(rest)
                         /\ \A k \in 1 .. Len(rest) : h.pts <= rest[k].pts
  <2> HIDE DEF sets, h, rest
  <2>1. 1 \in 1 .. Len(sets)
    BY <1>2
  <2>2. \A k \in 1 .. Len(rest) : k + 1 \in 1 .. Len(sets) /\ 1 <= k + 1
    BY <1>2
  <2>3. h.trk = t
    BY <1>2, <1>6, <2>1 DEF Own
  <2>4. Own(rest, t)
    BY <1>2, <1>6, <2>2 DEF Own
  <2>5. ASSUME Sorted(sets) PROVE \A k \in 1 .. Len(rest) : h.pts <= rest[k].pts
    BY <1>2, <2>1, <2>2, <2>5 DEF Sorted
  <2>6. ASSUME Sorted(sets), NEW a \in 1 .. Len(rest), NEW b \in 1 .. Len(rest), a <= b
        PROVE  rest[a].pts <= rest[b].pts
    <3>1. a + 1 <= b + 1 /\ a + 1 \in 1 .. Len(sets) /\ b + 1 \in 1 .. Len(sets)
      BY <1>2, <2>2, <2>6
    <3>. QED
      BY <1>2, <2>6, <3>1 DEF Sorted
  <2>. QED
    BY <2>3, <2>4, <2>5, <2>6 DEF Sorted
<1>8. \A u \in Tracks : /\ left'[u] \in Seq(Scanned) /\ Own(left'[u], u)
                        /\ InOrder(u) => Sorted(left'[u])
                        /\ u \notin active => left'[u] = << >>
  <2> TAKE u \in Tracks
  <2>1. CASE u = t
    BY <2>1, <1>2, <1>5, <1>6, <1>7
  <2>2. CASE u # t
    BY <2>2, <1>1, <1>5 DEF RequestInv, LeftInv
  <2>. QED
    BY <2>1, <2>2
<1>9. \A r : Only(sets, Within(r)) =
               IF h \in Within(r) THEN << h >> \o Only(rest, Within(r))
                                  ELSE Only(rest, Within(r))
  BY <1>1, OnlyHead
<1>. QED
  BY <1>2, <1>4, <1>5, <1>6, <1>7, <1>8, <1>9

(* A display set that is delivered, or passed over because it lies outside *)
(* the range.                                                              *)
LEMMA StaysPending ==
  ASSUME BooksInv, RequestInv, NEW t \in Tracks, Scanner!Give(t),
         UNCHANGED << file, active, range, setup >>,
         \/ /\ delivered' = Append(delivered, OneGiven)
            /\ OneGiven \in Within(range)
         \/ /\ delivered' = delivered
            /\ OneGiven \notin Within(range)
  PROVE  LeftInv' /\ PendingInv'
<1> DEFINE h == OneGiven
<1>1. delivered \in Seq(Scanned) /\ h \in Scanned /\ h.trk = t /\ t \in active
  BY GiveRequest DEF BooksInv, TypeOK
<1>2. \A u \in Tracks : /\ left'[u] \in Seq(Scanned) /\ Own(left'[u], u)
                        /\ InOrder(u) => Sorted(left'[u])
                        /\ u \notin active => left'[u] = << >>
  BY GiveRequest
<1>3. ASSUME NEW u \in Tracks
      PROVE  Only(delivered', OfTrack(u)) =
               IF u = t /\ h \in Within(range)
               THEN Append(Only(delivered, OfTrack(u)), h)
               ELSE Only(delivered, OfTrack(u))
  <2>1. h \in OfTrack(u) <=> u = t
    BY <1>1 DEF OfTrack
  <2>2. Only(Append(delivered, h), OfTrack(u)) =
          IF h \in OfTrack(u) THEN Append(Only(delivered, OfTrack(u)), h)
                              ELSE Only(delivered, OfTrack(u))
    <3> HIDE DEF h
    <3> QED BY <1>1, OnlyAppend
  <2>. QED
    BY <2>1, <2>2
<1>4. LeftInv'
  <2> SUFFICES ASSUME NEW u \in Tracks
               PROVE  /\ Own(left'[u], u)
                      /\ InOrder(u) => Sorted(left'[u])
                      /\ u \notin active =>
                           left'[u] = << >> /\ Only(delivered', OfTrack(u)) = << >>
    BY DEF LeftInv, InOrder, OfTrack, Sorted, Own
  <2>1. u \notin active => u # t /\ Only(delivered, OfTrack(u)) = << >>
    BY <1>1 DEF RequestInv, LeftInv
  <2>. QED
    BY <1>2, <1>3, <2>1
<1>5. PendingInv'
  <2> SUFFICES ASSUME CarriedOver, NEW u \in active
               PROVE  Only(file.content[u], Within(range)) =
                        Only(delivered', OfTrack(u)) \o Only(left'[u], Within(range))
    BY DEF PendingInv, OfTrack, Within, Early, Late, CarriedOver
  <2>0. u \in Tracks
    BY DEF BooksInv, TypeOK
  <2> DEFINE got == Only(delivered, OfTrack(u))
             rest == Only(left'[u], Within(range))
  <2>1. Only(file.content[u], Within(range)) = got \o Only(left[u], Within(range))
    BY DEF RequestInv, PendingInv
  <2>2. CASE u # t
    <3>1. left'[u] = left[u]
      BY <2>0, <2>2, GiveRequest
    <3>. QED
      BY <2>0, <2>1, <2>2, <3>1, <1>3
  <2>3. CASE u = t
    <3>1. Only(left[u], Within(range)) =
            IF h \in Within(range) THEN << h >> \o rest ELSE rest
      BY <2>3, GiveRequest
    <3>2. got \in Seq(Scanned) /\ rest \in Seq(Scanned)
      BY <2>0, <1>1, <1>2, OnlyTyped
    <3>3. << h >> \in Seq(Scanned) /\ Append(got, h) = got \o << h >>
      BY <1>1, <3>2, AppendIsConcat
    <3>4. (got \o << h >>) \o rest = got \o (<< h >> \o rest)
      BY <3>2, <3>3, ConcatAssociative
    <3>. QED
      BY <2>0, <2>1, <2>3, <3>1, <3>3, <3>4, <1>3
  <2>. QED
    BY <2>2, <2>3
<1>. QED
  BY <1>4, <1>5

(* The builder is done with once next was called.                          *)
LEMMA BuilderDone ==
  ASSUME RequestInv, mode' # "setup",
         UNCHANGED << file, active, range, setup >>
  PROVE  BuilderInv'
BY SameRequest DEF RequestInv, BuilderInv

LEMMA SamePending ==
  ASSUME RequestInv, UNCHANGED << file, left, active, range, setup, delivered >>
  PROVE  LeftInv' /\ PendingInv'
<1>1. LeftInv'
  BY DEF RequestInv, LeftInv, InOrder, OfTrack, Sorted, Own
<1>2. PendingInv'
  BY DEF RequestInv, PendingInv, CarriedOver, OfTrack, Within
<1>. QED
  BY <1>1, <1>2

(* A call that ends the iteration, for whichever reason.                   *)
LEMMA ReturnRequest ==
  ASSUME BooksInv, RequestInv, NEW what \in {"none", "err"}, MayCall, Return(what),
         given' = << >> => given = << >>,
         ended' # "err" =>
           (\A t \in Tracks : left'[t] = << >>) \/ StoppedLate'
  PROVE  BuilderInv' /\ OverInv'
<1>1. /\ UNCHANGED << file, active, range, setup, delivered, byHand >>
      /\ inner' = "done" /\ mode' # "setup" /\ last' = what
  BY DEF Return, request, books, MayCall
<1>2. BuilderInv'
  BY <1>1, BuilderDone
<1>3. mode' = "over" /\ last' = "none" =>
        collected' = GroupedByTrack(SubSeq(delivered, byHand + 1, Len(delivered)))
  BY <1>1 DEF Return, MayCall
<1>4. mode' = "over" /\ last' = "none" /\ inner' = "done" =>
       \A t \in Tracks :
         collected'[t] = Only(SubSeq(delivered', byHand' + 1, Len(delivered')), OfTrack(t)')
  BY <1>1, <1>3 DEF GroupedByTrack, OfTrack
<1>5. given' = << >> => delivered' = << >>
  BY <1>1 DEF RequestInv, OverInv
<1>7. OverInv'
  BY <1>1, <1>4, <1>5 DEF OverInv
<1>. QED
  BY <1>2, <1>7

LEMMA NextCallRequest ==
  ASSUME BooksInv, RequestInv, NextCall
  PROVE  RequestInv'
<1>1. ASSUME NEW t \in Tracks, Deliver(t) PROVE RequestInv'
  <2>1. /\ UNCHANGED << file, active, range, setup, inner >>
        /\ delivered' = Append(delivered, OneGiven)
        /\ Scanner!Give(t) /\ mode' # "setup" /\ mode' # "over"
        /\ inner = "open"
    BY <1>1 DEF Deliver, request, MayCall, Calling
  <2>2. OneGiven \in Within(range) /\ given' # << >>
    BY <1>1, <2>1, GiveRequest DEF Deliver, Within
  <2>3. LeftInv' /\ PendingInv'
    BY <2>1, <2>2, StaysPending
  <2>4. OverInv'
    BY <2>1, <2>2 DEF OverInv
  <2>. QED
    BY <2>1, <2>3, <2>4, BuilderDone DEF RequestInv
<1>2. ASSUME NEW t \in Tracks, SkipEarly(t) PROVE RequestInv'
  <2>1. /\ UNCHANGED << file, active, range, setup, inner, delivered >>
        /\ Scanner!Give(t) /\ mode' # "setup" /\ mode' # "over"
        /\ inner = "open"
    BY <1>2 DEF SkipEarly, request, books, MayCall, Calling
  <2>2. OneGiven \notin Within(range) /\ given' # << >>
    BY <1>2, <2>1, GiveRequest DEF SkipEarly, Within
  <2>3. LeftInv' /\ PendingInv'
    BY <2>1, <2>2, StaysPending
  <2>4. OverInv'
    BY <2>1, <2>2 DEF OverInv
  <2>. QED
    BY <2>1, <2>3, <2>4, BuilderDone DEF RequestInv
<1>3. ASSUME NEW t \in Tracks, StopLate(t) PROVE RequestInv'
  <2>1. /\ UNCHANGED << file, active, range, setup, delivered >>
        /\ Scanner!Give(t) /\ MayCall /\ Return("none")
    BY <1>3 DEF StopLate, Return, request, books
  <2>2. /\ Late(OneGiven, range) /\ OneGiven \notin Within(range)
        /\ given' # << >> /\ given'[Len(given')] = << t, OneGiven >>
    BY <1>3, <2>1, GiveRequest DEF StopLate, Within
  <2>3. LeftInv' /\ PendingInv'
    BY <2>1, <2>2, StaysPending
  <2>4. ASSUME InOrder(t), NEW k \in 1 .. Len(left'[t])
        PROVE  Late(left'[t][k], range)
    <3>1. /\ OneGiven.pts <= left'[t][k].pts /\ OneGiven \in Scanned
          /\ left'[t] \in Seq(Scanned)
      BY <2>1, <2>4, GiveRequest
    <3>2. left'[t][k] \in Scanned
      BY <3>1, ElementOfSeq
    <3>3. PICK b \in range.hi : OneGiven.pts > b
      BY <2>2 DEF Late
    <3>5. b \in Nat
      BY RangesAssumption DEF BooksInv, TypeOK, NoRange
    <3>4. left'[t][k].pts > b
      BY <3>1, <3>2, <3>3, <3>5 DEF Scanned
    <3>. QED
      BY <3>3, <3>4 DEF Late
  <2>5. StoppedLate'
    <3>1. InOrder(t)' = InOrder(t)
      BY <2>1 DEF InOrder
    <3>. QED
      BY <2>1, <2>2, <2>4, <3>1 DEF StoppedLate, InOrder, Late
  <2>6. BuilderInv' /\ OverInv'
    BY <2>1, <2>2, <2>5, ReturnRequest
  <2>. QED
    BY <2>3, <2>6 DEF RequestInv
<1>4. ASSUME ScannerEnds PROVE RequestInv'
  <2>1. /\ UNCHANGED << file, left, given, active, range, setup, delivered >>
        /\ MayCall /\ Return("none")
        /\ \A t \in Tracks : left'[t] = << >>
    BY <1>4 DEF ScannerEnds, Scanner!End, Return, request, books
  <2>2. BuilderInv' /\ OverInv'
    BY <2>1, ReturnRequest
  <2>. QED
    BY <2>1, <2>2, SamePending DEF RequestInv
<1>5. ASSUME ScannerFails PROVE RequestInv'
  <2>1. /\ UNCHANGED << file, left, given, active, range, setup, delivered >>
        /\ MayCall /\ Return("err") /\ ended' = "err"
    BY <1>5 DEF ScannerFails, Scanner!Error, Return, request, books
  <2>2. BuilderInv' /\ OverInv'
    BY <2>1, ReturnRequest
  <2>. QED
    BY <2>1, <2>2, SamePending DEF RequestInv
<1>6. ASSUME NextWhenDone PROVE RequestInv'
  <2>1. /\ UNCHANGED << file, left, given, ended, active, range, setup, delivered >>
        /\ MayCall /\ Return("none") /\ inner = "done"
    BY <1>6 DEF NextWhenDone, Return, request, books, scanner
  <2>2. BuilderInv' /\ OverInv'
    <3>1. ended' # "err" =>
            (\A t \in Tracks : left'[t] = << >>) \/ StoppedLate'
      BY <2>1 DEF RequestInv, OverInv, StoppedLate, InOrder, Late
    <3>. QED
      BY <2>1, <3>1, ReturnRequest
  <2>. QED
    BY <2>1, <2>2, SamePending DEF RequestInv
<1>. QED
  BY <1>1, <1>2, <1>3, <1>4, <1>5, <1>6 DEF NextCall

-----------------------------------------------------------------------------
LEMMA RequestInit ==
  ASSUME Init, BooksInv
  PROVE  RequestInv
<1>1. /\ setup = << >> /\ delivered = << >> /\ given = << >> /\ mode = "setup"
      /\ ended = "more" /\ inner = "open" /\ left = file.content
      /\ active = Tracks /\ range = NoRange
  BY DEF Init
<1>2. Len(setup) = 0 /\ setup \in Seq(Call) /\ DOMAIN setup = {}
  BY <1>1, EmptySeq
<1>3. WantedTracks = Tracks /\ WantedRange = NoRange
  <2>1. \A name : LastCall(name) = [ids |-> Tracks, range |-> NoRange]
    BY <1>2, NoCall
  <2>. QED
    BY <2>1 DEF WantedTracks, WantedRange
<1>4. left = Opened(active)
  BY <1>1, FilesAssumption DEF Opened, BooksInv, TypeOK
<1>5. BuilderInv
  BY <1>1, <1>2, <1>3, <1>4 DEF BuilderInv
<1>6. LeftInv
  BY <1>1, ContentFacts DEF LeftInv, Own
<1>7. PendingInv
  <2> SUFFICES ASSUME NEW t \in Tracks
               PROVE  Only(file.content[t], Within(range)) =
                        Only(delivered, OfTrack(t)) \o Only(left[t], Within(range))
    BY <1>1 DEF PendingInv
  <2>1. Only(delivered, OfTrack(t)) = << >>
    BY <1>1, OnlyEmpty
  <2>2. Only(file.content[t], Within(range)) \in Seq(Scanned)
    BY ContentFacts, OnlyTyped
  <2>. QED
    BY <1>1, <2>1, <2>2, ConcatEmptySeq
<1>8. OverInv
  BY <1>1 DEF OverInv
<1>. QED
  BY <1>5, <1>6, <1>7, <1>8 DEF RequestInv

LEMMA RequestStep ==
  ASSUME BooksInv, RequestInv, [Next]_vars
  PROVE  RequestInv'
<1>1. ASSUME mode' # "setup" \/ mode' = mode, mode' # "over" \/ mode' = mode,
             UNCHANGED << file, scanner, inner, active, range, last, setup,
                          collected, delivered >>,
             mode' = "over" => byHand' = byHand
      PROVE  RequestInv'
  <2>1. LeftInv' /\ PendingInv'
    BY <1>1, SamePending DEF scanner
  <2>2. BuilderInv'
    BY <1>1, SameRequest DEF RequestInv, BuilderInv, scanner, Opened
  <2>3. OverInv'
    BY <1>1 DEF RequestInv, OverInv, StoppedLate, scanner, InOrder, Late, Opened, OfTrack
  <2>. QED
    BY <2>1, <2>2, <2>3 DEF RequestInv
<1>2. CASE UNCHANGED vars
  BY <1>1, <1>2 DEF vars, request, books
<1>3. CASE \/ \E s \in {"Auto", "Sequential"} : WithMkvStrategy(s)
           \/ \E ids \in Filters : WithTrackFilter(ids)
           \/ \E r \in Ranges : WithTimeRange(r)
           \/ \E on \in BOOLEAN : WithHistory(on)
  BY <1>3, SetupRequest
<1>4. CASE NextCall
  BY <1>4, NextCallRequest
<1>5. CASE DrainHistory
  BY <1>1, <1>5 DEF DrainHistory, request
<1>6. CASE CollectInParallel
  <2>1. /\ UNCHANGED << file, scanner, inner, active, range, setup, delivered >>
        /\ inner = "open" /\ given = << >> /\ range = NoRange /\ mode' = "over"
        /\ last' = "none" => collected' = Opened(active)
    BY <1>6 DEF CollectInParallel, Parallel, request, books
  <2>2. LeftInv' /\ PendingInv'
    BY <2>1, SamePending DEF scanner
  <2>3. BuilderInv'
    BY <2>1, BuilderDone
  <2>4. delivered = << >>
    BY <2>1 DEF RequestInv, OverInv
  <2>5. OverInv'
    BY <2>1, <2>4 DEF RequestInv, OverInv, scanner, Opened
  <2>. QED
    BY <2>2, <2>3, <2>5 DEF RequestInv
<1>7. CASE CollectByNext
  BY <1>1, <1>7 DEF CollectByNext, request, books
<1>. QED
  BY <1>2, <1>3, <1>4, <1>5, <1>6, <1>7 DEF Next

LEMMA RequestAlways == Spec => [](BooksInv /\ RequestInv)
<1>1. Init => BooksInv /\ RequestInv
  BY BooksInit, RequestInit
<1>2. BooksInv /\ RequestInv /\ [Next]_vars => (BooksInv /\ RequestInv)'
  BY BooksStep, RequestStep
<1>. QED
  BY <1>1, <1>2, PTL DEF Spec

(* What was received of a track, however it was received.                  *)
LEMMA ReceivedPending ==
  ASSUME BooksInv, RequestInv, CarriedOver, NEW t \in Tracks
  PROVE  /\ Wanted(t) \in Seq(Scanned) /\ Received(t) \in Seq(Scanned)
         /\ t \notin active => Received(t) = << >> /\ Wanted(t) = << >>
         /\ t \in active /\ (mode = "over" /\ last = "none" => inner = "done") =>
              Wanted(t) = Received(t) \o Only(left[t], Within(range))
         /\ mode = "over" /\ last = "none" /\ inner # "done" => Received(t) = Wanted(t)
<1>1. active = WantedTracks /\ range = WantedRange
  BY DEF RequestInv, BuilderInv
<1>2. /\ delivered \in Seq(Scanned) /\ byHand \in 0 .. Len(delivered)
      /\ Len(delivered) \in Nat /\ file.content[t] \in Seq(Scanned)
  BY ContentFacts, LenProperties DEF BooksInv, TypeOK
<1> DEFINE got == Only(delivered, OfTrack(t))
           want == Only(file.content[t], Within(range))
           before == SubSeq(delivered, 1, byHand)
           behind == SubSeq(delivered, byHand + 1, Len(delivered))
<1>3. got \in Seq(Scanned) /\ want \in Seq(Scanned)
  BY <1>2, OnlyTyped
<1>4. Wanted(t) = IF t \in active THEN want ELSE << >>
  BY <1>1 DEF Wanted
<1>5. /\ t \in active => want = got \o Only(left[t], Within(range))
      /\ t \notin active => got = << >>
  BY DEF RequestInv, PendingInv, LeftInv
<1>6. CASE ~ (mode = "over" /\ last = "none")
  <2>1. Received(t) = got
    BY <1>6 DEF Received, GroupedByTrack
  <2>. QED
    BY <1>3, <1>4, <1>5, <1>6, <2>1
<1>7. CASE mode = "over" /\ last = "none" /\ inner = "done"
  <2>1. before \in Seq(Scanned) /\ behind \in Seq(Scanned) /\ before \o behind = delivered
    <3>1. byHand \in 0 .. Len(delivered) /\ Len(delivered) \in byHand .. Len(delivered)
      BY <1>2
    <3>2. SubSeq(delivered, 1, Len(delivered)) = delivered
      BY <1>2, SubSeqFull
    <3>3. /\ SubSeq(delivered, 1, byHand) \in Seq(Scanned)
          /\ SubSeq(delivered, byHand + 1, Len(delivered)) \in Seq(Scanned)
          /\ SubSeq(delivered, 1, byHand) \o SubSeq(delivered, byHand + 1, Len(delivered))
               = SubSeq(delivered, 1, Len(delivered))
      <4> DEFINE n == Len(delivered)
      <4>1. n \in byHand .. Len(delivered)
        BY <3>1
      <4> HIDE DEF n
      <4>2. /\ SubSeq(delivered, 1, byHand) \in Seq(Scanned)
            /\ SubSeq(delivered, byHand + 1, n) \in Seq(Scanned)
            /\ SubSeq(delivered, 1, byHand) \o SubSeq(delivered, byHand + 1, n)
                 = SubSeq(delivered, 1, n)
        BY <1>2, <3>1, <4>1, Slices
      <4>. QED
        BY <4>2 DEF n
    <3>. QED
      BY <3>2, <3>3
  <2>2. Received(t) = Only(before, OfTrack(t)) \o Only(behind, OfTrack(t))
    BY <1>7 DEF Received, GroupedByTrack, RequestInv, OverInv
  <2>3. Splits(before, behind, OfTrack(t))
    <3> HIDE DEF before, behind
    <3> QED BY <2>1, OnlyConcat
  <2>4. Received(t) = got
    BY <2>1, <2>2, <2>3 DEF Splits
  <2>. QED
    BY <1>3, <1>4, <1>5, <1>7, <2>4
<1>8. CASE mode = "over" /\ last = "none" /\ inner # "done"
  <2>1. collected = Opened(active) /\ range = NoRange /\ delivered = << >>
    BY <1>8 DEF RequestInv, OverInv, BooksInv, TypeOK
  <2>2. SubSeq(delivered, 1, byHand) = << >>
    <3>1. byHand = 0
      BY <1>2, <2>1
    <3>. QED
      BY <3>1, SubSeqEmpty
  <2>3. Received(t) = << >> \o collected[t]
    BY <1>8, <2>2, OnlyEmpty DEF Received, GroupedByTrack
  <2>4. collected[t] = IF t \in active THEN file.content[t] ELSE << >>
    BY <2>1 DEF Opened
  <2>5. Received(t) = collected[t] /\ collected[t] \in Seq(Scanned)
    BY <1>2, <2>3, <2>4, ConcatEmptySeq, EmptySeq
  <2>6. want = file.content[t]
    <3>1. Within(range) = Scanned
      BY <2>1 DEF Within, Early, Late, NoRange
    <3>. QED
      BY <1>2, <3>1, OnlyAll
  <2>. QED
    BY <1>4, <1>8, <2>4, <2>5, <2>6
<1>. QED
  BY <1>6, <1>7, <1>8

LEMMA BeginsConcat ==
  ASSUME NEW X, NEW s \in Seq(X), NEW t \in Seq(X)
  PROVE  IsPrefixOf(s, s \o t)
<1>1. /\ s \o t \in Seq(X) /\ Len(s \o t) = Len(s) + Len(t)
      /\ \A i \in 1 .. Len(s) + Len(t) : (s \o t)[i] =
                     IF i <= Len(s) THEN s[i] ELSE t[i - Len(s)]
      /\ Len(s) \in Nat /\ Len(t) \in Nat
  BY ConcatProperties, LenProperties
<1> DEFINE z == s \o t
           u == SubSeq(z, 1, Len(s))
<1>2. Len(s) \in 0 .. Len(z)
  BY <1>1
<1>3. /\ u \in Seq(X) /\ Len(u) = Len(s)
      /\ \A i \in 1 .. Len(s) : u[i] = z[i]
  <2> HIDE DEF z
  <2>1. z \in Seq(X)
    BY <1>1 DEF z
  <2> QED BY <1>2, <2>1, Prefix
<1>4. \A i \in 1 .. Len(s) : s[i] = u[i]
  BY <1>1, <1>3
<1>5. s = u
  <2> HIDE DEF u
  <2> QED BY <1>3, <1>4, SeqEqual
<1>. QED
  BY <1>1, <1>5 DEF IsPrefixOf

(* lib.rs:262-373 and 551-629: what was delivered is, on every track, the  *)
(* beginning of what the builder calls asked for.                          *)
THEOREM DeliversTheRequest == Spec => []DeliversOnlyTheRequest
<1>1. ASSUME BooksInv, RequestInv, CarriedOver, NEW t \in Tracks
      PROVE  IsPrefixOf(Received(t), Wanted(t))
  <2>1. Wanted(t) \in Seq(Scanned) /\ Received(t) \in Seq(Scanned)
    BY <1>1, ReceivedPending
  <2>2. \E rest \in Seq(Scanned) : Wanted(t) = Received(t) \o rest
    <3>1. CASE t \notin active \/ (mode = "over" /\ last = "none" /\ inner # "done")
      <4>1. Wanted(t) = Received(t)
        BY <1>1, <3>1, ReceivedPending
      <4>2. Wanted(t) = Received(t) \o << >> /\ << >> \in Seq(Scanned)
        BY <2>1, <4>1, ConcatEmptySeq, EmptySeq
      <4>. QED
        BY <4>2
    <3>2. CASE t \in active /\ (mode = "over" /\ last = "none" => inner = "done")
      <4>1. Wanted(t) = Received(t) \o Only(left[t], Within(range))
        BY <1>1, <3>2, ReceivedPending
      <4>2. Only(left[t], Within(range)) \in Seq(Scanned)
        BY <1>1, OnlyTyped DEF BooksInv, TypeOK
      <4>. QED
        BY <4>1, <4>2
    <3>. QED
      BY <3>1, <3>2
  <2> DEFINE got == Received(t)
             want == Wanted(t)
  <2>3. PICK rest \in Seq(Scanned) : want = got \o rest
    BY <2>2
  <2>4. got \in Seq(Scanned)
    BY <2>1
  <2> HIDE DEF got, want
  <2>5. IsPrefixOf(got, want)
    BY <2>3, <2>4, BeginsConcat
  <2>. QED
    BY <2>5 DEF got, want
<1>2. BooksInv /\ RequestInv => DeliversOnlyTheRequest
  BY <1>1 DEF DeliversOnlyTheRequest
<1>. QED
  BY <1>2, RequestAlways, PTL

(* lib.rs:586-629: an iteration that ends without an error has missed      *)
(* nothing but what lies behind the set past the end that stopped it.      *)
THEOREM EndsWithNothingMissing == Spec => []EndsWithTheRequest
<1>1. ASSUME BooksInv, RequestInv, CarriedOver, last = "none", ended # "err",
             mode # "collect", NEW t \in Tracks
      PROVE  \/ Received(t) = Wanted(t)
             \/ /\ given # << >> /\ Late(given[Len(given)][2], range)
                /\ given[Len(given)][1] # t \/ ~ InOrder(t)
  <2>1. CASE t \notin active \/ (mode = "over" /\ inner # "done")
    BY <1>1, <2>1, ReceivedPending
  <2>2. CASE t \in active /\ (mode = "over" => inner = "done")
    <3>1. inner = "done"
      BY <1>1, <2>2 DEF BooksInv
    <3>2. Wanted(t) = Received(t) \o Only(left[t], Within(range))
      BY <1>1, <2>2, ReceivedPending
    <3>3. ASSUME Only(left[t], Within(range)) = << >> PROVE Received(t) = Wanted(t)
      BY <1>1, <3>2, <3>3, ReceivedPending, ConcatEmptySeq
    <3>4. CASE left[t] = << >>
      BY <3>3, <3>4, OnlyEmpty
    <3>5. CASE StoppedLate
      <4>1. CASE given[Len(given)][1] # t \/ ~ InOrder(t)
        BY <3>5, <4>1 DEF StoppedLate
      <4>2. CASE given[Len(given)][1] = t /\ InOrder(t)
        <5>1. \A k \in 1 .. Len(left[t]) : left[t][k] \notin Within(range)
          BY <3>5, <4>2 DEF StoppedLate, Within
        <5>2. left[t] \in Seq(Scanned)
          BY <1>1 DEF BooksInv, TypeOK
        <5>3. Only(left[t], Within(range)) = << >>
          <6> DEFINE sets == left[t]
          <6>1. sets \in Seq(Scanned) /\ \A k \in 1 .. Len(sets) : sets[k] \notin Within(range)
            BY <5>1, <5>2
          <6> HIDE DEF sets
          <6>2. Only(sets, Within(range)) = << >>
            BY <6>1, OnlyNone
          <6>. QED
            BY <6>2 DEF sets
        <5>. QED
          BY <3>3, <5>3
      <4>. QED
        BY <4>1, <4>2
    <3>. QED
      BY <1>1, <3>1, <3>4, <3>5 DEF RequestInv, OverInv
  <2>. QED
    BY <2>1, <2>2
<1>2. BooksInv /\ RequestInv => EndsWithTheRequest
  BY <1>1 DEF EndsWithTheRequest
<1>. QED
  BY <1>2, RequestAlways, PTL
=============================================================================

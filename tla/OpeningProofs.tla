---------------------------- MODULE OpeningProofs ----------------------------
(***************************************************************************)
(* What holds of an opening whatever the file: the search of               *)
(* set_time_range ends ahead of the range, for the bound it keeps as best  *)
(* was seen to be early; the layout leads to the elements of a Matroska    *)
(* file, however they are arranged and listed; a file is not refused       *)
(* without a reason; and the tracks are those the file describes.          *)
(***************************************************************************)
EXTENDS Opening, SequenceLemmas

(* The PTS found behind the best position was not behind the target.       *)
BestIsEarly ==
  \/ best = 0
  \/ \E q \in file.packets : /\ q.at >= AlignDown(best)
                             /\ \E t \in q.pts : t <= Target

(* The reader stands behind the last table that was read.                  *)
BehindTable == pos = 0 \/ \E p \in Tables : pos = p.at + PacketSize

Searched == start # {} /\ Duration # 0

SearchTyped ==
  /\ lo \in Nat /\ hi \in Nat /\ best \in Nat
  /\ times \in [offset : Nat, end : SUBSET Nat]
  /\ start \in SUBSET Nat

SearchInv ==
  /\ SearchTyped
  /\ phase \in {"detect", "pat", "pmt", "tail", "open"} => start = {}
  /\ phase = "search" => Searched
  /\ phase \in {"search", "ready"} /\ Searched => BestIsEarly
  /\ ~ failed /\ phase = "ready" /\ Searched => pos = Goal
  /\ ~ failed /\ phase \notin {"search", "err"} /\ ~ Searched => BehindTable

OpeningInv == /\ file \in OpenedFiles
              /\ file.kind = "ts" => SearchInv
-----------------------------------------------------------------------------
(* The file is the same all the time.                                     *)
LEMMA FileStays ==
  ASSUME [Next]_vars
  PROVE  file' = file
BY DEF Next, Step, Fault, Detect, DetectPacketsFails, NoteTimeRange, ReadError, GoTo, vars, shared,
    M2tsStep, M2tsFault, FindPat, FindPmt, TableFails, ApplyClpi, FindLastPts,
    FindLastPtsFails, SetTimeRange, Probe, Settle, ProbeUnread, SearchFails, MkvStep, MkvFault,
    ParseHeader, WalkSeekHead, WalkElement, WalkEnds, WalkBreaks, ParseTracks,
    ParseInfo, ParseCues, ElementFails, ParseTags

(* What rounding down to a packet boundary does.                           *)
LEMMA AlignDownBounds ==
  ASSUME NEW b \in Nat
  PROVE  /\ AlignDown(b) \in Nat
         /\ AlignDown(b) <= b /\ b < AlignDown(b) + PacketSize
BY SizesAssumption, Z3 DEF AlignDown

(* The duration and the target are numbers where they are used.            *)
LEMMA TargetTyped ==
  ASSUME SearchTyped, start # {}
  PROVE  Target \in Nat
<1>1. (CHOOSE s \in start : TRUE) \in start
  BY Zenon
<1>2. (CHOOSE s \in start : TRUE) \in Nat /\ times.offset \in Nat
  BY <1>1 DEF SearchTyped
<1> QED
  BY <1>2 DEF Target

LEMMA DurationTyped ==
  ASSUME SearchTyped
  PROVE  Duration \in Nat
<1>1. CASE times.end = {}
  BY <1>1 DEF Duration
<1>2. CASE times.end # {}
  <2>1. (CHOOSE e \in times.end : TRUE) \in times.end
    BY <1>2, Zenon
  <2>2. (CHOOSE e \in times.end : TRUE) \in Nat /\ times.offset \in Nat
    BY <2>1 DEF SearchTyped
  <2> QED
    BY <1>2, <2>2 DEF Duration, SaturatingSub
<1> QED
  BY <1>1, <1>2

(* A PTS that a probe sees is in a packet behind the place of the probe.   *)
LEMMA ProbeSeesBehind ==
  ASSUME NEW from \in Nat, NEW to \in Nat, NEW t \in ProbePts(from, to),
         \A p \in file.packets : p.at \in Nat
  PROVE  \E q \in file.packets : q.at >= from /\ t \in q.pts
<1>1. PICK q \in file.packets :
        /\ t \in q.pts
        /\ \E s \in FindSyncStart(from, to) : q.at >= s
  BY DEF ProbePts
<1>2. PICK s \in FindSyncStart(from, to) : q.at >= s
  BY <1>1
<1>3. s \in from .. from + PacketSize - 1
  BY <1>2 DEF FindSyncStart
<1> QED
  BY <1>1, <1>2, <1>3, SizesAssumption

(* The middle of the bounds, while the search goes on.                     *)
LEMMA MidTyped ==
  ASSUME SearchTyped, Searching
  PROVE  Mid \in Nat
BY SizesAssumption, Z3 DEF SearchTyped, Searching, Mid, SaturatingSub

LEMMA ProbeKeepsBestEarly ==
  ASSUME SearchTyped, BestIsEarly, Searching, start # {},
         NEW from, NEW to \in Nat, from = AlignDown(Mid),
         \A p \in file.packets : p.at \in Nat,
         Judge(ProbePts(from, to)), UNCHANGED << file, times, start >>
  PROVE  BestIsEarly' /\ lo' \in Nat /\ hi' \in Nat /\ best' \in Nat
<1>0. Mid \in Nat /\ from \in Nat
  BY MidTyped, AlignDownBounds
<1>1. Target' = Target
  BY DEF Target
<1>2. CASE Earlier /\ \E t \in ProbePts(from, to) : t <= Target
  <2>1. PICK t \in ProbePts(from, to) : t <= Target
    BY <1>2
  <2>2. PICK q \in file.packets : q.at >= from /\ t \in q.pts
    BY <1>0, <2>1, ProbeSeesBehind
  <2>3. best' = Mid /\ lo' = Mid /\ hi' = hi
    BY <1>2 DEF Earlier
  <2>4. AlignDown(best') = from /\ AlignDown(best)' = from
    BY <2>3 DEF AlignDown
  <2> QED
    BY <1>0, <1>1, <2>1, <2>2, <2>3, <2>4 DEF BestIsEarly, SearchTyped
<1>3. CASE Later
  <2>1. best' = best /\ lo' = lo /\ hi' = Mid /\ AlignDown(best)' = AlignDown(best)
    BY <1>3 DEF Later, AlignDown
  <2> QED
    BY <1>0, <1>1, <2>1 DEF BestIsEarly, SearchTyped
<1> QED
  BY <1>2, <1>3 DEF Judge

LEMMA QuotientTyped ==
  ASSUME NEW a \in Nat, NEW b \in Nat, b # 0
  PROVE  a \div b \in Nat
BY Z3

(* What is assumed of a transport stream.                                  *)
LEMMA FileTyped ==
  ASSUME file \in OpenedFiles, file.kind = "ts"
  PROVE  /\ file.size \in Nat
         /\ \A p \in file.packets : p.at \in Nat /\ p.pts \subseteq Nat
         /\ \A p, q \in file.packets : p.at < q.at => p.at + PacketSize <= q.at
         /\ \A c \in file.clpi : \A t \in c.times : t[1] \in Nat /\ t[2] \in Nat
BY OpenedFilesAssumption DEF IsTransportStream
-----------------------------------------------------------------------------
(* The steps that leave the search alone keep its invariant.               *)
LEMMA SearchKept ==
  ASSUME SearchInv, UNCHANGED << file, pos, times, search >>,
         \/ UNCHANGED << phase, failed >>
         \/ phase \in {"detect", "pat", "pmt", "tail"}
            /\ \/ phase' \in {"ebml", "pat", "pmt", "tail", "open"} /\ failed' = failed
               \/ phase' = "err"
  PROVE  SearchInv'
BY DEF SearchInv, SearchTyped, BestIsEarly, BehindTable, Searched, search,
  Duration, Target, Goal, AlignDown, SaturatingSub, Tables

(* A table that is read is one of the file, and the reader then behind it. *)
LEMMA TableRead ==
  ASSUME NEW pid, NEW limit, NEW t \in Table(pid, limit)
  PROVE  t \in Tables /\ t.pid = pid
BY DEF Table, Walked, Tables

LEMMA TableStep ==
  ASSUME OpeningInv, file.kind = "ts", FindPat \/ FindPmt
  PROVE  SearchInv'
<1>1. PICK t \in Tables : pos' = t.at + PacketSize
  BY TableRead DEF FindPat, FindPmt
<1>2. /\ UNCHANGED << file, times, search >>
      /\ phase \in {"pat", "pmt"} /\ phase' = "pmt"
  BY DEF FindPat, FindPmt, GoTo, shared
<1>3. SearchTyped' /\ start' = {} /\ BehindTable'
  BY <1>1, <1>2 DEF OpeningInv, SearchInv, SearchTyped, BehindTable, Tables, search
<1> QED
  BY <1>2, <1>3 DEF SearchInv, Searched

LEMMA TailFailsStep ==
  ASSUME OpeningInv, file.kind = "ts", FindLastPtsFails
  PROVE  SearchInv'
<1>1. /\ UNCHANGED << file, search >>
      /\ phase = "tail" /\ phase' = "open"
      /\ ~ failed' => ~ failed /\ pos' = pos
  BY DEF FindLastPtsFails
<1>2. times' \in [offset : Nat, end : SUBSET Nat]
  <2>1. LastPts \in SUBSET Nat
    BY DEF LastPts
  <2>2. times \in [offset : Nat, end : SUBSET Nat]
    BY DEF OpeningInv, SearchInv, SearchTyped
  <2>3. [times EXCEPT !.end = LastPts] \in [offset : Nat, end : SUBSET Nat]
    BY <2>1, <2>2
  <2> QED
    BY <2>2, <2>3 DEF FindLastPtsFails
<1>3. SearchTyped' /\ start' = {} /\ ~ Searched'
  BY <1>1, <1>2 DEF OpeningInv, SearchInv, SearchTyped, Searched, search
<1>4. ~ failed' => BehindTable'
  BY <1>1 DEF OpeningInv, SearchInv, Searched, BehindTable, Tables
<1> QED
  BY <1>1, <1>3, <1>4 DEF SearchInv

LEMMA TimesStep ==
  ASSUME OpeningInv, file.kind = "ts", ApplyClpi \/ FindLastPts
  PROVE  SearchInv'
<1>1. /\ UNCHANGED << file, pos, search >> /\ failed' = failed
      /\ phase \in {"pmt", "tail"} /\ phase' \in {"tail", "open"}
  BY DEF ApplyClpi, FindLastPts, GoTo
<1>2. times' \in [offset : Nat, end : SUBSET Nat]
  <2>1. CASE ApplyClpi
    <3>1. PICK said : /\ said = UNION {c.times : c \in file.clpi}
                      /\ \/ UNCHANGED times
                         \/ times' \in {[offset |-> t[1], end |-> {t[2]}] : t \in said}
      BY <2>1 DEF ApplyClpi
    <3>2. \A t \in said : t[1] \in Nat /\ t[2] \in Nat
      BY <3>1, FileTyped DEF OpeningInv
    <3> QED
      BY <3>1, <3>2 DEF OpeningInv, SearchInv, SearchTyped
  <2>2. CASE FindLastPts
    <3>1. LastPts \in SUBSET Nat
      BY DEF LastPts
    <3>2. times \in [offset : Nat, end : SUBSET Nat]
      BY DEF OpeningInv, SearchInv, SearchTyped
    <3>3. [times EXCEPT !.end = LastPts] \in [offset : Nat, end : SUBSET Nat]
      BY <3>1, <3>2
    <3> QED
      BY <2>2, <3>3 DEF FindLastPts
  <2> QED
    BY <2>1, <2>2
<1>3. SearchTyped' /\ start' = {} /\ BehindTable' = BehindTable
  BY <1>1, <1>2 DEF OpeningInv, SearchInv, SearchTyped, BehindTable, Tables, search
<1>4. ~ failed => BehindTable
  BY <1>1 DEF OpeningInv, SearchInv, Searched
<1> QED
  BY <1>1, <1>3, <1>4 DEF SearchInv, Searched

(* The search begins with a best position of 0, ...                        *)
LEMMA SetTimeRangeStep ==
  ASSUME OpeningInv, file.kind = "ts", SetTimeRange
  PROVE  SearchInv'
<1>1. /\ UNCHANGED << file, pos, times >> /\ failed' = failed
      /\ phase = "open" /\ phase' \in {"ready", "search"} /\ best' = 0 /\ lo' = 0
      /\ start' \in Starts
  BY DEF SetTimeRange, GoTo
<1>2. /\ SearchTyped /\ start' \subseteq Nat /\ file.size \in Nat
      /\ Duration \in Nat /\ Duration' = Duration
  BY <1>1, FileTyped, DurationTyped, StartsAssumption
     DEF OpeningInv, SearchInv, Duration, SaturatingSub
<1>3. hi' \in Nat
  <2>1. CASE start' = {} \/ Duration = 0
    BY <2>1, <1>2 DEF SetTimeRange, SearchTyped
  <2>2. CASE start' # {} /\ Duration # 0
    <3>1. PICK s \in start' : hi' = (file.size * s) \div Duration
      BY <2>2 DEF SetTimeRange
    <3>2. s \in Nat /\ file.size * s \in Nat
      BY <3>1, <1>2, SMT
    <3> QED
      BY <3>1, <3>2, <2>2, <1>2, QuotientTyped
  <2> QED
    BY <2>1, <2>2
<1>4. SearchTyped' /\ BestIsEarly'
  BY <1>1, <1>2, <1>3 DEF SearchTyped, BestIsEarly
<1>5. /\ phase' = "search" => Searched'
      /\ phase' = "ready" => ~ Searched'
  BY <1>1, <1>2 DEF SetTimeRange, GoTo, Searched
<1>6. ~ failed => BehindTable'
  BY <1>1 DEF OpeningInv, SearchInv, Searched, BehindTable, Tables
<1> QED
  BY <1>1, <1>4, <1>5, <1>6 DEF SearchInv

(* ... keeps it early whatever a probe shows, ...                          *)
LEMMA ProbeStep ==
  ASSUME OpeningInv, file.kind = "ts", Probe \/ ProbeUnread
  PROVE  SearchInv'
<1>1. /\ UNCHANGED << file, times, start, phase >> /\ phase = "search" /\ Searching
  BY DEF Probe, ProbeUnread, Searching, shared
<1>2. SearchTyped /\ Searched /\ BestIsEarly /\ Duration' = Duration
  BY <1>1 DEF OpeningInv, SearchInv, Duration, SaturatingSub
<1>3. /\ file.size \in Nat /\ \A p \in file.packets : p.at \in Nat
  BY FileTyped DEF OpeningInv
<1>4. BestIsEarly' /\ lo' \in Nat /\ hi' \in Nat /\ best' \in Nat
  <2>1. CASE Probe
    <3> DEFINE from == AlignDown(Mid)
               size == AtMost(SaturatingSub(file.size, from), ProbeSize)
    <3>1. Judge(ProbePts(from, from + size))
      BY <2>1 DEF Probe
    <3>2. from \in Nat /\ size \in Nat
      BY <1>1, <1>2, <1>3, MidTyped, AlignDownBounds, SizesAssumption
         DEF AtMost, SaturatingSub
    <3> HIDE DEF size
    <3>3. from + size \in Nat
      BY <3>2
    <3> QED
      BY <1>1, <1>2, <1>3, <3>1, <3>3, ProbeKeepsBestEarly DEF Searched
  <2>2. CASE ProbeUnread
    <3>1. best' = best /\ lo' = lo /\ hi' = Mid
      BY <2>2 DEF ProbeUnread, Later
    <3>2. AlignDown(best)' = AlignDown(best) /\ Target' = Target
      BY <1>1, <3>1 DEF AlignDown, Target
    <3> QED
      BY <1>1, <1>2, <3>1, <3>2, MidTyped DEF BestIsEarly, SearchTyped
  <2> QED
    BY <2>1, <2>2
<1> QED
  BY <1>1, <1>2, <1>4 DEF SearchInv, SearchTyped, Searched

(* ... and ends a margin before it.                                        *)
LEMMA SettleStep ==
  ASSUME OpeningInv, file.kind = "ts", Settle \/ SearchFails
  PROVE  SearchInv'
<1>1. /\ UNCHANGED << file, times, search >> /\ phase = "search" /\ phase' = "ready"
      /\ ~ failed' => pos' = Goal
  BY DEF Settle, SearchFails, GoTo
<1>2. /\ Goal' = Goal /\ Duration' = Duration /\ Target' = Target
      /\ AlignDown(best)' = AlignDown(best)
  BY <1>1 DEF Goal, AlignDown, SaturatingSub, Duration, Target, search
<1>3. SearchTyped /\ Searched /\ BestIsEarly
  BY <1>1 DEF OpeningInv, SearchInv
<1>4. SearchTyped' /\ Searched' /\ BestIsEarly'
  BY <1>1, <1>2, <1>3 DEF SearchTyped, Searched, BestIsEarly, search
<1> QED
  BY <1>1, <1>2, <1>4 DEF SearchInv

(* The steps of the other formats do not concern a transport stream.       *)
LEMMA OpeningInvNext ==
  ASSUME OpeningInv, [Next]_vars
  PROVE  OpeningInv'
<1>1. file' = file
  BY FileStays
<1>2. ASSUME file.kind = "ts"
      PROVE  SearchInv'
  <2>0. SearchInv
    BY <1>2 DEF OpeningInv
  <2>1. CASE Detect \/ TableFails
    <3>1. CASE Detect
      <4>1. UNCHANGED << file, pos, times, search >> /\ failed' = failed
        BY <1>2, <3>1 DEF Detect, SoughtInPackets, GoTo
      <4>2. phase = "detect" /\ phase' \in {"ebml", "pat", "open", "err"}
        BY <3>1 DEF Detect, Detected, GoTo
      <4> QED
        BY <2>0, <4>1, <4>2, SearchKept
    <3>2. CASE TableFails
      BY <2>0, <3>2, SearchKept DEF TableFails, GoTo, m2tsVars, search
    <3> QED
      BY <2>1, <3>1, <3>2
  <2>2. CASE \E steps \in {{"detect"}, {"pat", "pmt"}} :
               ReadError(steps) /\ UNCHANGED m2tsVars
    BY <2>0, <2>2, SearchKept DEF ReadError, m2tsVars, search
  <2>3. CASE FindPat \/ FindPmt
    BY <1>2, <2>3, TableStep
  <2>4. CASE ApplyClpi \/ FindLastPts
    BY <1>2, <2>4, TimesStep
  <2>5. CASE SetTimeRange
    BY <1>2, <2>5, SetTimeRangeStep
  <2>6. CASE Probe \/ ProbeUnread
    BY <1>2, <2>6, ProbeStep
  <2>7. CASE Settle \/ SearchFails
    BY <1>2, <2>7, SettleStep
  <2>8. CASE FindLastPtsFails
    BY <1>2, <2>8, TailFailsStep
  <2>9. CASE UNCHANGED vars
    BY <2>0, <2>9, SearchKept DEF vars, m2tsVars, shared, search
  <2> QED
    BY <1>2, <2>1, <2>2, <2>3, <2>4, <2>5, <2>6, <2>7, <2>8, <2>9
       DEF Next, Step, Fault, NoteTimeRange, DetectPacketsFails, SoughtInPackets,
           M2tsStep, M2tsFault
<1> QED
  BY <1>1, <1>2 DEF OpeningInv

LEMMA OpeningInvInit ==
  ASSUME Init
  PROVE  OpeningInv
BY DEF Init, M2tsInit, OpeningInv, SearchInv, SearchTyped, Searched, BehindTable
-----------------------------------------------------------------------------
(* What lies before the reader lies well before the packet that was seen,  *)
(* or is a table.                                                          *)
LEMMA OpeningInvStarts ==
  ASSUME OpeningInv
  PROVE  StartsAheadOfRange
<1> SUFFICES ASSUME phase = "ready", file.kind = "ts", ~ failed,
                    NEW p \in file.packets, p.at < pos
             PROVE  IF start # {} /\ Duration # 0
                    THEN Ordered => \A t \in p.pts : t < Target
                    ELSE HealthyTs => p \in Tables
  BY DEF StartsAheadOfRange
<1>1. /\ p.at \in Nat /\ \A q \in file.packets : q.at \in Nat /\ q.pts \subseteq Nat
      /\ \A q \in file.packets : p.at < q.at => p.at + PacketSize <= q.at
      /\ \A q \in file.packets : q.at < p.at => q.at + PacketSize <= p.at
  BY FileTyped DEF OpeningInv
<1>2. CASE Searched
  <2> SUFFICES ASSUME Ordered, NEW t \in p.pts
               PROVE  t < Target
    BY <1>2 DEF Searched
  <2>1. SearchTyped /\ pos = Goal /\ BestIsEarly
    BY <1>2 DEF OpeningInv, SearchInv
  <2>2. best \in Nat /\ SeekMargin \in Nat /\ SeekMargin > 0 /\ PacketSize \in Nat
    BY <2>1, SizesAssumption DEF SearchTyped
  <2>3. SaturatingSub(best, SeekMargin) \in Nat
    BY <2>2 DEF SaturatingSub
  <2>4. p.at < SaturatingSub(best, SeekMargin)
    BY <1>1, <2>1, <2>3, AlignDownBounds DEF Goal
  <2>5. p.at + SeekMargin < best
    BY <1>1, <2>2, <2>4 DEF SaturatingSub
  <2>6. PICK q \in file.packets : /\ q.at >= AlignDown(best)
                                  /\ \E u \in q.pts : u <= Target
    BY <1>1, <2>1, <2>2, <2>5 DEF BestIsEarly
  <2>7. q.at - p.at > SeekMargin - PacketSize
    BY <1>1, <2>2, <2>5, <2>6, AlignDownBounds
  <2>8. PICK u \in q.pts : u <= Target
    BY <2>6
  <2>9. t < u /\ t \in Nat /\ u \in Nat /\ Target \in Nat
    BY <1>1, <1>2, <2>1, <2>7, <2>8, TargetTyped DEF Ordered, Searched
  <2> QED
    BY <2>8, <2>9
<1>3. CASE ~ Searched
  <2> SUFFICES ASSUME HealthyTs, p \notin Tables
               PROVE  FALSE
    BY <1>3 DEF Searched
  <2>1. BehindTable
    BY <1>3 DEF OpeningInv, SearchInv
  <2>2. PICK t \in Tables : pos = t.at + PacketSize
    BY <1>1, <2>1 DEF BehindTable
  <2>3. t \in file.packets /\ t.at < p.at
    BY <2>2 DEF HealthyTs, Tables
  <2> QED
    BY <1>1, <2>2, <2>3, SizesAssumption
<1> QED
  BY <1>2, <1>3

(* Nothing that belongs to the range lies before the place where the       *)
(* extraction of a transport stream starts: m2ts/stream.rs set_time_range, *)
(* whatever the file, the probes, and the reads of the tail and of probes  *)
(* that fail; a seek back that fails is the only thing that may spoil it.  *)
THEOREM OpeningStartsAheadOfRange == Spec => []StartsAheadOfRange
<1>1. Init => OpeningInv
  BY OpeningInvInit
<1>2. OpeningInv /\ [Next]_vars => OpeningInv'
  BY OpeningInvNext
<1>3. OpeningInv => StartsAheadOfRange
  BY OpeningInvStarts
<1> QED
  BY <1>1, <1>2, <1>3, PTL DEF Spec
-----------------------------------------------------------------------------
(* What a walk has found that has looked at w - 1 elements and at the      *)
(* pairs listed.                                                           *)
Found(id, w, listed) == {k \in FirstOf(id) : k < w \/ << id, k >> \in listed}
PairsOf(e) == {e.body[j] : j \in DOMAIN e.body}
Listed(w) == UNION {PairsOf(file.elements[k]) :
                      k \in {i \in DOMAIN file.elements :
                               file.elements[i].id = "SeekHead" /\ i < w}}

Passed(w) == \A j \in 1 .. w - 1 :
               file.elements[j].id # "Cluster" /\ file.elements[j].known

IsFound(found, w, listed) == \A id \in Noted : found[id] = Found(id, w, listed)

(* The walk has looked at everything in front of its place.                *)
LayoutInv ==
  /\ file \in OpenedFiles
  /\ file.kind = "mkv" =>
       /\ layout \in [Noted -> SUBSET Nat]
       /\ phase \in {"detect", "ebml"} => walk = 1 /\ layout = [id \in Noted |-> {}]
       /\ phase = "segment" =>
            /\ walk \in 1 .. Len(file.elements) + 1
            /\ Passed(walk)
            /\ RightlyListed => IsFound(layout, walk, Listed(walk))
       /\ phase \notin {"detect", "ebml", "segment", "err"} /\ ~ failed /\ RightlyListed
            => \A id \in Noted : layout[id] = Reached(id)
-----------------------------------------------------------------------------
(* The elements are a sequence.                                            *)
LEMMA ElementsTyped ==
  ASSUME file \in OpenedFiles, file.kind = "mkv"
  PROVE  /\ Len(file.elements) \in Nat /\ DOMAIN file.elements = 1 .. Len(file.elements)
         /\ IsMatroska(file) /\ "ebml" \in file.magic
<1>1. IsMatroska(file) /\ "ebml" \in file.magic
  BY OpenedFilesAssumption
<1>2. file.elements \in Seq(Members(file.elements))
  BY <1>1 DEF IsMatroska
<1> QED
  BY <1>1, <1>2, LenProperties

(* An id has one first element, if any.                                    *)
LEMMA FirstIsOne ==
  ASSUME file \in OpenedFiles, file.kind = "mkv", NEW id
  PROVE  /\ \A k, m \in FirstOf(id) : k = m
         /\ FirstOf(id) \subseteq 1 .. Len(file.elements)
         /\ \A k \in DOMAIN file.elements :
              file.elements[k].id = id => \E m \in FirstOf(id) : m <= k
<1>1. Len(file.elements) \in Nat /\ DOMAIN file.elements = 1 .. Len(file.elements)
  BY ElementsTyped
<1>2. ASSUME NEW k \in FirstOf(id), NEW m \in FirstOf(id), k < m
      PROVE  FALSE
  <2>1. k \in 1 .. m - 1 /\ file.elements[k].id = id
    BY <1>1, <1>2 DEF FirstOf
  <2> QED
    BY <2>1 DEF FirstOf
<1>3. ASSUME NEW k \in DOMAIN file.elements, file.elements[k].id = id
      PROVE  \E m \in FirstOf(id) : m <= k
  <2> DEFINE T == {j \in 1 .. Len(file.elements) : file.elements[j].id = id}
  <2>1. T \in SUBSET Nat /\ k \in T
    BY <1>1, <1>3
  <2>2. PICK m \in T : \A j \in T : m <= j
    <3> HIDE DEF T
    <3> QED
      BY <2>1, LeastNumber
  <2>3. m \in FirstOf(id)
    <3>1. ASSUME NEW j \in 1 .. m - 1 PROVE file.elements[j].id # id
      <4>1. j \in 1 .. Len(file.elements) /\ ~ (m <= j)
        BY <1>1
      <4> QED
        BY <2>2, <4>1
    <3> QED
      BY <1>1, <2>2, <3>1 DEF FirstOf
  <2> QED
    BY <2>1, <2>2, <2>3
<1>4. FirstOf(id) \subseteq 1 .. Len(file.elements)
  BY <1>1 DEF FirstOf
<1>5. \A k, m \in FirstOf(id) : k = m
  <2>1. \A k, m \in FirstOf(id) : k \in Int /\ m \in Int
    BY <1>1, <1>4
  <2> QED
    BY <1>2, <2>1
<1> QED
  BY <1>3, <1>4, <1>5

(* One position more is noted if it is the first of its id.                *)
LEMMA NoteOne ==
  ASSUME NEW found \in [Noted -> SUBSET Nat], NEW nid, NEW position \in Nat,
         NEW id \in Noted
  PROVE  /\ Note(found, nid, position) \in [Noted -> SUBSET Nat]
         /\ Note(found, nid, position)[id] =
              IF nid = id /\ found[id] = {} THEN {position} ELSE found[id]
BY DEF Note

(* The walk at an element other than a SeekHead.                           *)
LEMMA FoundByWalking ==
  ASSUME file \in OpenedFiles, file.kind = "mkv",
         NEW w \in 1 .. Len(file.elements), NEW listed,
         NEW found \in [Noted -> SUBSET Nat], NEW id \in Noted,
         found[id] = Found(id, w, listed)
  PROVE  Note(found, file.elements[w].id, w)[id] = Found(id, w + 1, listed)
<1> DEFINE e == file.elements[w]
<1>1. Len(file.elements) \in Nat /\ DOMAIN file.elements = 1 .. Len(file.elements)
  BY ElementsTyped
<1>2. FirstOf(id) \subseteq Int /\ w \in Nat
  BY <1>1, FirstIsOne
<1>3. Note(found, e.id, w)[id] = IF e.id = id /\ found[id] = {} THEN {w} ELSE found[id]
  BY <1>2, NoteOne
<1>4. \A k \in FirstOf(id) : k < w + 1 <=> k < w \/ k = w
  BY <1>2
<1>5. CASE w \notin FirstOf(id)
  <2>1. Found(id, w + 1, listed) = Found(id, w, listed)
    BY <1>4, <1>5 DEF Found
  <2>2. e.id = id => found[id] # {}
    <3>1. ASSUME e.id = id PROVE \E m \in FirstOf(id) : m < w
      <4>1. PICK m \in FirstOf(id) : m <= w
        BY <1>1, <3>1, FirstIsOne
      <4>2. m # w /\ m \in Int
        BY <1>2, <1>5
      <4> QED
        BY <1>2, <4>1, <4>2
    <3> QED
      BY <3>1 DEF Found
  <2> QED
    BY <1>3, <2>1, <2>2
<1>6. CASE w \in FirstOf(id)
  <2>1. e.id = id
    BY <1>6 DEF FirstOf
  <2>2. FirstOf(id) = {w}
    BY <1>6, FirstIsOne
  <2>3. Found(id, w + 1, listed) = {w} /\ found[id] \subseteq {w}
    BY <1>4, <2>2 DEF Found
  <2> QED
    BY <1>3, <2>1, <2>3
<1> QED
  BY <1>5, <1>6

(* The pairs of a SeekHead up to the n-th.                                 *)
PairsUpTo(pairs, n) == {pairs[j] : j \in 1 .. n}

(* f is what noting one pair after the other makes of found.               *)
IsNoting(f, found, pairs) ==
  \A n \in 0 .. Len(pairs) :
    f[n] = IF n = 0 THEN found ELSE Note(f[n - 1], pairs[n][1], pairs[n][2])

(* NoteAll is what its equations say.                                      *)
LEMMA NotingExists ==
  ASSUME NEW found \in [Noted -> SUBSET Nat], NEW pairs \in Seq(STRING \X Nat)
  PROVE  \E f \in [0 .. Len(pairs) -> [Noted -> SUBSET Nat]] :
           IsNoting(f, found, pairs) /\ NoteAll(found, pairs) = f[Len(pairs)]
<1> DEFINE N == Len(pairs)
           D == [Noted -> SUBSET Nat]
           g == [y \in D \X (1 .. N) |-> Note(y[1], pairs[y[2]][1], pairs[y[2]][2])]
           Is(f) == f = [k \in 0 .. N |->
                           IF k = 0 THEN found ELSE Note(f[k - 1], pairs[k][1], pairs[k][2])]
<1>1. N \in Nat /\ \A n \in 1 .. N : pairs[n][2] \in Nat
  OBVIOUS
<1>2. g \in [D \X (1 .. N) -> D]
  <2>1. ASSUME NEW y \in D \X (1 .. N)
        PROVE  Note(y[1], pairs[y[2]][1], pairs[y[2]][2]) \in D
    <3>1. y[1] \in D /\ pairs[y[2]][2] \in Nat
      BY <1>1
    <3> QED
      BY <3>1 DEF Note
  <2> QED
    BY <2>1
<1>3. PICK f \in [0 .. N -> D] : IsRecursive(f, N, found, g)
  <2> HIDE DEF g, D
  <2>1. found \in D
    BY DEF D
  <2> QED
    BY <1>1, <1>2, <2>1, Recursion
<1>4. \A n \in 0 .. N : f[n] = IF n = 0 THEN found ELSE Note(f[n - 1], pairs[n][1], pairs[n][2])
  <2>1. \A n \in 1 .. N : << f[n - 1], n >> \in D \X (1 .. N)
    <3> HIDE DEF D
    <3>1. \A n \in 1 .. N : n - 1 \in 0 .. N
      BY <1>1
    <3> QED
      BY <1>3, <3>1
  <2>2. \A n \in 1 .. N : g[<< f[n - 1], n >>] = Note(f[n - 1], pairs[n][1], pairs[n][2])
    BY <2>1
  <2>3. \A n \in 0 .. N : n # 0 => n \in 1 .. N
    BY <1>1
  <2> HIDE DEF g, D
  <2> QED
    BY <1>3, <2>2, <2>3 DEF IsRecursive
<1>5. Is(f)
  <2> DEFINE h == [k \in 0 .. N |->
                     IF k = 0 THEN found ELSE Note(f[k - 1], pairs[k][1], pairs[k][2])]
  <2>1. \A k \in 0 .. N : f[k] = h[k]
    BY <1>4
  <2>2. DOMAIN f = 0 .. N /\ DOMAIN h = 0 .. N /\ f = [k \in 0 .. N |-> f[k]]
    OBVIOUS
  <2>3. f = h
    BY <2>1, <2>2
  <2> QED
    BY <2>3
<1> DEFINE u == CHOOSE h : Is(h)
<1>6. Is(u)
  <2> HIDE DEF Is
  <2> QED
    BY <1>5
<1>7. NoteAll(found, pairs) = u[N]
  BY DEF NoteAll
<1>8. u = f
  <2> HIDE DEF u
  <2>1. DOMAIN u = 0 .. N /\ u = [n \in 0 .. N |-> u[n]]
    BY <1>6
  <2>2. \A n \in 0 .. N : u[n] = IF n = 0 THEN found ELSE Note(u[n - 1], pairs[n][1], pairs[n][2])
    BY <1>6
  <2> DEFINE T == {n \in 0 .. N : u[n] = f[n]}
  <2>3. 0 \in T
    BY <1>1, <1>4, <2>2
  <2>4. ASSUME NEW n \in 0 .. N - 1, n \in T PROVE n + 1 \in T
    <3>1. n + 1 \in 0 .. N /\ n + 1 # 0 /\ n + 1 - 1 = n
      BY <1>1
    <3> QED
      BY <1>4, <2>2, <2>4, <3>1
  <2>5. 0 .. N \subseteq T
    <3> HIDE DEF T
    <3> QED
      BY <1>1, <2>3, <2>4, Upto
  <2> QED
    BY <2>1, <2>5
<1> QED
  <2> HIDE DEF u
  <2> QED
    BY <1>4, <1>7, <1>8 DEF IsNoting

(* What is found when n of the pairs are listed as well.                   *)
FoundWith(found, id, w, listed, pairs, n) ==
  found[id] = Found(id, w, listed \cup PairsUpTo(pairs, n))

(* The first pair of the id of the pair n lists its first element.         *)
LeadsRightly(pairs, n) ==
  \E i \in 1 .. n : pairs[i][1] = pairs[n][1] /\ pairs[i][2] \in FirstOf(pairs[n][1])

(* What is listed with the pair n, when the pairs are right.               *)
LEMMA FoundByPair ==
  ASSUME file \in OpenedFiles, file.kind = "mkv", NEW w, NEW listed,
         NEW pairs \in Seq(STRING \X Nat), NEW n \in 1 .. Len(pairs),
         LeadsRightly(pairs, n),
         NEW found \in [Noted -> SUBSET Nat], NEW id \in Noted,
         NEW l, l = n - 1, FoundWith(found, id, w, listed, pairs, l)
  PROVE  FoundWith(Note(found, pairs[n][1], pairs[n][2]), id, w, listed, pairs, n)
<1> DEFINE old == listed \cup PairsUpTo(pairs, n - 1)
           new == listed \cup PairsUpTo(pairs, n)
           p == pairs[n]
<1>1. Len(pairs) \in Nat /\ p \in STRING \X Nat /\ p = << p[1], p[2] >> /\ p[2] \in Nat
  OBVIOUS
<1>2. new = old \cup {p}
  <2>1. 1 .. n = (1 .. n - 1) \cup {n}
    BY <1>1
  <2> QED
    BY <2>1, Zenon DEF PairsUpTo
<1>3. Note(found, p[1], p[2])[id] = IF p[1] = id /\ found[id] = {} THEN {p[2]} ELSE found[id]
  <2> DEFINE nid == p[1]
             at == p[2]
  <2>1. at \in Nat
    BY <1>1
  <2> HIDE DEF p, nid, at
  <2>2. Note(found, nid, at)[id] = IF nid = id /\ found[id] = {} THEN {at} ELSE found[id]
    BY <2>1, NoteOne
  <2> QED
    BY <2>2 DEF nid, at
<1>4. \A k, m \in FirstOf(id) : k = m
  BY FirstIsOne
<1>8. found[id] = Found(id, w, old)
  BY DEF FoundWith
<1> SUFFICES Note(found, p[1], p[2])[id] = Found(id, w, new)
  BY DEF FoundWith
<1>5. CASE p[1] # id
  <2>1. \A k : << id, k >> # p
    BY <1>5
  <2>2. Found(id, w, new) = Found(id, w, old)
    BY <1>2, <2>1, Zenon DEF Found
  <2> QED
    BY <1>3, <1>5, <1>8, <2>2
<1>6. CASE p[1] = id /\ found[id] # {}
  <2>1. PICK k \in FirstOf(id) : k \in Found(id, w, old)
    BY <1>6, <1>8 DEF Found
  <2>2. Found(id, w, old) = {k} /\ Found(id, w, new) = {k}
    BY <1>2, <1>4, <2>1 DEF Found
  <2> QED
    BY <1>3, <1>6, <1>8, <2>2
<1>7. CASE p[1] = id /\ found[id] = {}
  <2>1. PICK i \in 1 .. n : pairs[i][1] = id /\ pairs[i][2] \in FirstOf(id)
    BY <1>7 DEF LeadsRightly
  <2>2. ASSUME i # n PROVE FALSE
    <3>1. i \in 1 .. n - 1 /\ i \in 1 .. Len(pairs)
      BY <1>1, <2>2
    <3>2. pairs[i] = << id, pairs[i][2] >>
      BY <2>1, <3>1
    <3>3. << id, pairs[i][2] >> \in old
      BY <3>1, <3>2 DEF PairsUpTo
    <3> QED
      BY <1>7, <1>8, <2>1, <3>3 DEF Found
  <2>3. p[2] \in FirstOf(id) /\ << id, p[2] >> \in new
    BY <1>1, <1>2, <1>7, <2>1, <2>2
  <2>4. Found(id, w, new) = {p[2]}
    BY <1>4, <2>3 DEF Found
  <2> QED
    BY <1>3, <1>7, <2>4
<1> QED
  BY <1>5, <1>6, <1>7

(* A SeekHead adds what it lists.                                          *)
LEMMA FoundByListing ==
  ASSUME file \in OpenedFiles, file.kind = "mkv", NEW w, NEW listed,
         NEW pairs \in Seq(STRING \X Nat),
         \A j \in 1 .. Len(pairs) : LeadsRightly(pairs, j),
         NEW found \in [Noted -> SUBSET Nat],
         IsFound(found, w, listed)
  PROVE  \A id \in Noted : FoundWith(NoteAll(found, pairs), id, w, listed, pairs, Len(pairs))
<1> DEFINE N == Len(pairs)
           Is(f, n) == \A id \in Noted : FoundWith(f, id, w, listed, pairs, n)
<1>1. N \in Nat
  OBVIOUS
<1>2. PICK f \in [0 .. N -> [Noted -> SUBSET Nat]] :
        IsNoting(f, found, pairs) /\ NoteAll(found, pairs) = f[N]
  BY NotingExists
<1> DEFINE T == {n \in 0 .. N : Is(f[n], n)}
<1>3. 0 \in T
  <2>1. f[0] = found
    BY <1>1, <1>2 DEF IsNoting
  <2>2. listed \cup PairsUpTo(pairs, 0) = listed
    BY DEF PairsUpTo
  <2>3. Is(f[0], 0)
    BY <2>1, <2>2 DEF FoundWith, IsFound
  <2>4. 0 \in 0 .. N
    BY <1>1
  <2> HIDE DEF Is
  <2> QED
    BY <2>3, <2>4
<1>4. ASSUME NEW n \in 0 .. N - 1, n \in T PROVE n + 1 \in T
  <2>1. n + 1 \in 1 .. N /\ n + 1 \in 0 .. N /\ n + 1 # 0 /\ n + 1 - 1 = n /\ n \in 0 .. N
    BY <1>1
  <2>2. f[n + 1] = Note(f[n], pairs[n + 1][1], pairs[n + 1][2])
    <3>1. \A m \in 1 .. N : m \in 0 .. N /\ m # 0
      BY <1>1
    <3>2. \A m \in 1 .. N : f[m] = Note(f[m - 1], pairs[m][1], pairs[m][2])
      BY <1>2, <3>1 DEF IsNoting
    <3> QED
      BY <2>1, <3>2
  <2>3. f[n] \in [Noted -> SUBSET Nat] /\ Is(f[n], n)
    BY <1>4, <2>1
  <2>4. LeadsRightly(pairs, n + 1)
    BY <2>1
  <2>5. ASSUME NEW id \in Noted
        PROVE  FoundWith(f[n + 1], id, w, listed, pairs, n + 1)
    <3> DEFINE m == n + 1
               h == f[n]
    <3>1. m \in 1 .. N /\ n = m - 1
      BY <2>1
    <3>2. h \in [Noted -> SUBSET Nat] /\ FoundWith(h, id, w, listed, pairs, n)
      BY <2>3, <3>1
    <3>3. LeadsRightly(pairs, m)
      BY <2>4
    <3>5. f[m] = Note(h, pairs[m][1], pairs[m][2])
      BY <2>2
    <3> HIDE DEF m, h
    <3>4. FoundWith(Note(h, pairs[m][1], pairs[m][2]), id, w, listed, pairs, m)
      BY <3>1, <3>2, <3>3, FoundByPair
    <3> QED
      BY <3>4, <3>5 DEF m
  <2> QED
    BY <2>1, <2>5
<1>5. N \in T
  <2> HIDE DEF T
  <2>1. 0 .. N \subseteq T
    BY <1>1, <1>3, <1>4, Upto
  <2> QED
    BY <1>1, <2>1
<1> QED
  BY <1>2, <1>5 DEF FoundWith

(* The elements the walk reaches are those it has found at its end.        *)
LEMMA FoundIsReached ==
  ASSUME NEW w, \A k \in DOMAIN file.elements : k < w <=> Walkable(k), NEW id
  PROVE  Found(id, w, Listed(w)) = Reached(id)
<1>1. {i \in DOMAIN file.elements : file.elements[i].id = "SeekHead" /\ i < w} =
      {i \in DOMAIN file.elements : file.elements[i].id = "SeekHead" /\ Walkable(i)}
  OBVIOUS
<1>2. Listed(w) = Lists
  BY <1>1, Zenon DEF Listed, Lists, PairsOf
<1>3. FirstOf(id) \subseteq DOMAIN file.elements
  BY DEF FirstOf
<1> QED
  BY <1>2, <1>3, Zenon DEF Found, Reached

(* The walk ends behind the last element, or with one that ends it.        *)
LEMMA WalkEndsReached ==
  ASSUME file \in OpenedFiles, file.kind = "mkv", NEW w \in 1 .. Len(file.elements) + 1,
         Passed(w), NEW id
  PROVE  /\ w = Len(file.elements) + 1 => Found(id, w, Listed(w)) = Reached(id)
         /\ /\ w <= Len(file.elements)
            /\ file.elements[w].id = "Cluster" \/ ~ file.elements[w].known
            => Found(id, w + 1, Listed(w + 1)) = Reached(id)
<1>1. Len(file.elements) \in Nat /\ DOMAIN file.elements = 1 .. Len(file.elements)
  BY ElementsTyped
<1>2. ASSUME NEW k \in DOMAIN file.elements, k <= w
      PROVE  Walkable(k)
  <2>1. \A j \in 1 .. k - 1 : j \in 1 .. w - 1
    BY <1>1, <1>2
  <2> QED
    BY <2>1 DEF Walkable, Passed
<1>3. ASSUME w = Len(file.elements) + 1
      PROVE  Found(id, w, Listed(w)) = Reached(id)
  <2>1. \A k \in DOMAIN file.elements : k < w /\ k <= w
    BY <1>1, <1>3
  <2> QED
    BY <1>2, <2>1, FoundIsReached
<1>4. ASSUME w <= Len(file.elements),
             file.elements[w].id = "Cluster" \/ ~ file.elements[w].known
      PROVE  Found(id, w + 1, Listed(w + 1)) = Reached(id)
  <2>1. ASSUME NEW k \in DOMAIN file.elements
        PROVE  k < w + 1 <=> Walkable(k)
    <3>1. CASE k <= w
      BY <1>1, <1>2, <3>1
    <3>2. CASE ~ (k <= w)
      <4>1. w \in 1 .. k - 1 /\ ~ (k < w + 1)
        BY <1>1, <3>2
      <4> QED
        BY <1>4, <4>1 DEF Walkable
    <3> QED
      BY <3>1, <3>2
  <2> DEFINE v == w + 1
  <2>2. \A k \in DOMAIN file.elements : k < v <=> Walkable(k)
    BY <2>1
  <2> HIDE DEF v
  <2>3. Found(id, v, Listed(v)) = Reached(id)
    BY <2>2, FoundIsReached
  <2> QED
    BY <2>3 DEF v
<1> QED
  BY <1>3, <1>4

(* A SeekHead at the place of the walk.                                    *)
LEMMA FoundBehindSeekHead ==
  ASSUME file \in OpenedFiles, file.kind = "mkv", RightlyListed,
         NEW w \in 1 .. Len(file.elements), file.elements[w].id = "SeekHead",
         NEW found \in [Noted -> SUBSET Nat],
         IsFound(found, w, Listed(w))
  PROVE  IsFound(NoteAll(found, file.elements[w].body), w + 1, Listed(w + 1))
<1> DEFINE pairs == file.elements[w].body
<1>1. Len(file.elements) \in Nat /\ DOMAIN file.elements = 1 .. Len(file.elements)
  BY ElementsTyped
<1>2. pairs \in Seq(STRING \X Nat)
  <2>1. file.elements[w] \in Members(file.elements)
    BY <1>1 DEF Members
  <2> QED
    BY <2>1, ElementsTyped DEF IsMatroska
<1>3. DOMAIN pairs = 1 .. Len(pairs)
  BY <1>2, LenProperties
<1>4. \A j \in 1 .. Len(pairs) : LeadsRightly(pairs, j)
  BY <1>1, <1>3 DEF RightlyListed, LeadsRightly
<1>5. Listed(w + 1) = Listed(w) \cup PairsUpTo(pairs, Len(pairs))
  <2> DEFINE heads(v) == {i \in DOMAIN file.elements : file.elements[i].id = "SeekHead" /\ i < v}
  <2>1. heads(w + 1) = heads(w) \cup {w}
    BY <1>1
  <2>2. PairsOf(file.elements[w]) = PairsUpTo(pairs, Len(pairs))
    BY <1>3 DEF PairsOf, PairsUpTo
  <2>3. \A v : Listed(v) = UNION {PairsOf(file.elements[k]) : k \in heads(v)}
    BY DEF Listed
  <2> HIDE DEF heads, pairs
  <2> QED
    BY <2>1, <2>2, <2>3
<1>6. ASSUME NEW id \in Noted, NEW listed
      PROVE  Found(id, w + 1, listed) = Found(id, w, listed)
  <2>1. \A k \in FirstOf(id) : k \in 1 .. Len(file.elements) /\ file.elements[k].id = id
    BY FirstIsOne DEF FirstOf
  <2>2. \A k \in FirstOf(id) : k # w
    BY <1>6, <2>1 DEF Noted
  <2>3. \A k \in FirstOf(id) : k < w + 1 <=> k < w
    BY <1>1, <2>1, <2>2
  <2> QED
    BY <2>3 DEF Found
<1>7. \A id \in Noted :
        NoteAll(found, pairs)[id] = Found(id, w, Listed(w) \cup PairsUpTo(pairs, Len(pairs)))
  <2> DEFINE listed == Listed(w)
  <2>1. IsFound(found, w, listed)
    OBVIOUS
  <2> HIDE DEF listed, pairs
  <2>2. \A id \in Noted : FoundWith(NoteAll(found, pairs), id, w, listed, pairs, Len(pairs))
    BY <1>2, <1>4, <2>1, FoundByListing
  <2> QED
    BY <2>2 DEF listed, FoundWith
<1> QED
  BY <1>5, <1>6, <1>7 DEF IsFound

(* LayoutInv speaks of the file, which stays, and of the layout.           *)
LEMMA LayoutInvPrimed ==
  ASSUME LayoutInv, file' = file,
         file.kind = "mkv" =>
           /\ layout' \in [Noted -> SUBSET Nat]
           /\ phase' \in {"detect", "ebml"} => walk' = 1 /\ layout' = [id \in Noted |-> {}]
           /\ phase' = "segment" =>
                /\ walk' \in 1 .. Len(file.elements) + 1
                /\ Passed(walk')
                /\ RightlyListed => IsFound(layout', walk', Listed(walk'))
           /\ phase' \notin {"detect", "ebml", "segment", "err"} /\ ~ failed' /\ RightlyListed
                => \A id \in Noted : layout'[id] = Reached(id)
  PROVE  LayoutInv'
<1>1. RightlyListed' = RightlyListed
  BY DEF RightlyListed, FirstOf
<1>2. Passed(walk)' = Passed(walk')
  BY DEF Passed
<1>3. IsFound(layout, walk, Listed(walk))' = IsFound(layout', walk', Listed(walk'))
  BY DEF IsFound, Found, Listed, PairsOf, FirstOf
<1>4. (\A id \in Noted : layout[id] = Reached(id))' <=> \A id \in Noted : layout'[id] = Reached(id)
  BY DEF Reached, Lists, Walkable, FirstOf
<1> QED
  BY <1>1, <1>2, <1>3, <1>4 DEF LayoutInv

LEMMA LayoutInvInit ==
  ASSUME Init
  PROVE  LayoutInv
BY DEF Init, MkvInit, LayoutInv

(* The steps of the walk, ...                                              *)
LEMMA ElementsStep ==
  ASSUME LayoutInv, file.kind = "mkv", WalkElement \/ WalkSeekHead \/ WalkEnds
  PROVE  LayoutInv'
<1>1. /\ file \in OpenedFiles /\ layout \in [Noted -> SUBSET Nat] /\ file' = file
      /\ failed' = failed
      /\ walk \in 1 .. Len(file.elements) + 1 /\ Passed(walk)
      /\ RightlyListed => IsFound(layout, walk, Listed(walk))
  BY DEF LayoutInv, WalkElement, WalkSeekHead, WalkEnds, GoTo
<1>2. Len(file.elements) \in Nat /\ DOMAIN file.elements = 1 .. Len(file.elements)
  BY <1>1, ElementsTyped
<1>3. CASE WalkEnds
  <2>1. walk = Len(file.elements) + 1 /\ phase' = "tracks" /\ UNCHANGED << walk, layout >>
    BY <1>1, <1>2, <1>3 DEF WalkEnds, GoTo, mkvVars
  <2>2. RightlyListed => \A id \in Noted : layout'[id] = Reached(id)
    BY <1>1, <2>1, WalkEndsReached DEF IsFound
  <2> QED
    BY <1>1, <2>1, <2>2, LayoutInvPrimed
<1>4. CASE WalkElement
  <2> DEFINE e == file.elements[walk]
  <2>1. /\ walk \in 1 .. Len(file.elements) /\ walk <= Len(file.elements)
        /\ layout' = Note(layout, e.id, walk)
        /\ e.id # "SeekHead"
    BY <1>1, <1>2, <1>4 DEF WalkElement
  <2>2. layout' \in [Noted -> SUBSET Nat]
    BY <1>1, <2>1 DEF Note
  <2>3. RightlyListed => IsFound(layout', walk + 1, Listed(walk + 1))
    <3> SUFFICES ASSUME RightlyListed, NEW id \in Noted
                 PROVE  layout'[id] = Found(id, walk + 1, Listed(walk + 1))
      BY DEF IsFound
    <3>1. Listed(walk + 1) = Listed(walk)
      <4>1. \A i \in DOMAIN file.elements :
              file.elements[i].id = "SeekHead" => (i < walk + 1 <=> i < walk)
        BY <1>1, <1>2, <2>1
      <4> QED
        BY <4>1 DEF Listed
    <3>2. layout[id] = Found(id, walk, Listed(walk))
      BY <1>1 DEF IsFound
    <3> QED
      BY <1>1, <2>1, <3>1, <3>2, FoundByWalking
  <2>4. CASE e.id = "Cluster" \/ ~ e.known
    <3>1. phase' = "tracks" /\ walk' = walk
      BY <1>4, <2>4 DEF WalkElement, GoTo
    <3>2. RightlyListed => \A id \in Noted : layout'[id] = Reached(id)
      BY <1>1, <2>1, <2>3, <2>4, WalkEndsReached DEF IsFound
    <3> QED
      BY <1>1, <2>2, <3>1, <3>2, LayoutInvPrimed
  <2>5. CASE ~ (e.id = "Cluster" \/ ~ e.known)
    <3>1. phase' = "segment" /\ walk' = walk + 1
      BY <1>4, <2>5 DEF WalkElement, GoTo
    <3>2. Passed(walk') /\ walk' \in 1 .. Len(file.elements) + 1
      BY <1>1, <1>2, <2>1, <2>5, <3>1 DEF Passed
    <3> QED
      BY <1>1, <2>2, <2>3, <3>1, <3>2, LayoutInvPrimed
  <2> QED
    BY <2>4, <2>5
<1>5. CASE WalkSeekHead
  <2> DEFINE e == file.elements[walk]
  <2>1. /\ walk \in 1 .. Len(file.elements)
        /\ e.id = "SeekHead"
    BY <1>1, <1>2, <1>5 DEF WalkSeekHead
  <2>2. CASE ~ e.good
    <3>1. phase' = "err" /\ layout' = layout
      BY <1>5, <2>2 DEF WalkSeekHead, GoTo
    <3> QED
      BY <1>1, <3>1, LayoutInvPrimed
  <2>3. CASE e.good
    <3>1. /\ phase' = "segment" /\ walk' = walk + 1
          /\ layout' = NoteAll(layout, e.body)
      BY <1>5, <2>3 DEF WalkSeekHead, GoTo
    <3>0. e \in Members(file.elements)
      BY <1>2, <2>1 DEF Members
    <3>2. e.known /\ e.id # "Cluster"
      BY <1>1, <2>1, <3>0, ElementsTyped DEF IsMatroska
    <3>3. layout' \in [Noted -> SUBSET Nat]
      <4>2. e.body \in Seq(STRING \X Nat)
        BY <1>1, <2>1, <3>0, ElementsTyped DEF IsMatroska
      <4>3. Len(e.body) \in 0 .. Len(e.body)
        BY <4>2
      <4> QED
        BY <1>1, <3>1, <4>2, <4>3, NotingExists
    <3>4. RightlyListed => IsFound(layout', walk', Listed(walk'))
      BY <1>1, <2>1, <3>1, FoundBehindSeekHead
    <3>5. Passed(walk') /\ walk' \in 1 .. Len(file.elements) + 1
      BY <1>1, <1>2, <2>1, <3>1, <3>2 DEF Passed
    <3> QED
      BY <1>1, <3>1, <3>3, <3>4, <3>5, LayoutInvPrimed
  <2> QED
    BY <2>2, <2>3
<1> QED
  BY <1>3, <1>4, <1>5

(* ... and the others.                                                     *)
LEMMA LayoutInvNext ==
  ASSUME LayoutInv, [Next]_vars
  PROVE  LayoutInv'
<1>1. file' = file
  BY FileStays
<1>2. CASE file.kind # "mkv"
  BY <1>1, <1>2 DEF LayoutInv
<1>3. CASE file.kind = "mkv"
  <2>1. CASE Detect
    <3>1. phase = "detect" /\ phase' = "ebml" /\ UNCHANGED << walk, layout >>
      BY <1>3, <2>1, ElementsTyped DEF Detect, Detected, GoTo, LayoutInv, mkvVars
    <3> QED
      BY <1>1, <1>3, <3>1, LayoutInvPrimed DEF LayoutInv
  <2>2. CASE ParseHeader
    <3>1. phase = "ebml" /\ phase' \in {"segment", "err"} /\ UNCHANGED << walk, layout >>
      BY <2>2 DEF ParseHeader, GoTo, mkvVars
    <3>2. walk = 1 /\ layout = [id \in Noted |-> {}]
      BY <1>3, <3>1 DEF LayoutInv
    <3>3. Len(file.elements) \in Nat /\ DOMAIN file.elements = 1 .. Len(file.elements)
      BY <1>3, ElementsTyped DEF LayoutInv
    <3>4. IsFound(layout, 1, Listed(1))
      <4>1. \A k \in DOMAIN file.elements : ~ (k < 1)
        BY <3>3
      <4>2. Listed(1) = {}
        BY <4>1 DEF Listed
      <4>3. \A id : FirstOf(id) \subseteq DOMAIN file.elements
        BY DEF FirstOf
      <4> QED
        BY <3>2, <4>1, <4>2, <4>3 DEF IsFound, Found
    <3>5. Passed(1) /\ 1 \in 1 .. Len(file.elements) + 1
      BY <3>3 DEF Passed
    <3> QED
      BY <1>1, <1>3, <3>1, <3>2, <3>4, <3>5, LayoutInvPrimed DEF LayoutInv
  <2>3. CASE WalkElement \/ WalkSeekHead \/ WalkEnds
    BY <1>3, <2>3, ElementsStep
  <2>4. CASE WalkBreaks
    <3>1. phase' = "tracks" /\ failed' /\ UNCHANGED << walk, layout >>
      BY <2>4 DEF WalkBreaks, mkvVars
    <3> QED
      BY <1>1, <1>3, <3>1, LayoutInvPrimed DEF LayoutInv
  <2>5. CASE ParseTracks \/ ParseInfo \/ ParseCues \/ ParseTags \/ NoteTimeRange
    <3>1. /\ phase \in {"tracks", "info", "cues", "tags", "open"}
          /\ phase' \in {"info", "cues", "tags", "open", "ready"}
          /\ failed' = failed /\ UNCHANGED << walk, layout >>
      BY <2>5 DEF ParseTracks, ParseInfo, ParseCues, ParseTags, NoteTimeRange, GoTo, mkvVars
    <3> QED
      BY <1>1, <1>3, <3>1, LayoutInvPrimed DEF LayoutInv
  <2>6. CASE ElementFails \/ \E steps : ReadError(steps) /\ UNCHANGED mkvVars
    <3>1. phase' = "err" /\ UNCHANGED << walk, layout >>
      BY <2>6 DEF ElementFails, ReadError, GoTo, mkvVars
    <3> QED
      BY <1>1, <1>3, <3>1, LayoutInvPrimed DEF LayoutInv
  <2>7. CASE UNCHANGED vars
    <3>1. phase' = phase /\ failed' = failed /\ UNCHANGED << walk, layout >>
      BY <2>7 DEF vars, shared, mkvVars
    <3> QED
      BY <1>1, <1>3, <3>1, LayoutInvPrimed DEF LayoutInv
  <2> QED
    BY <1>3, <2>1, <2>2, <2>3, <2>4, <2>5, <2>6, <2>7
       DEF Next, Step, Fault, DetectPacketsFails, SoughtInPackets, MkvStep, MkvFault
<1> QED
  BY <1>2, <1>3

(* The layout a Matroska file is read by leads to the first element of     *)
(* each id that the walk of parse_segment reaches or a SeekHead on the way *)
(* lists, for every arrangement of the elements.                           *)
THEOREM LayoutLeadsToTheFiles == Spec => []LayoutIsTheFiles
<1>1. Init => LayoutInv
  BY LayoutInvInit
<1>2. LayoutInv /\ [Next]_vars => LayoutInv'
  BY LayoutInvNext
<1>3. LayoutInv => LayoutIsTheFiles
  BY DEF LayoutInv, LayoutIsTheFiles
<1> QED
  BY <1>1, <1>2, <1>3, PTL DEF Spec
-----------------------------------------------------------------------------
(* The programs of the PAT, the streams of their PMTs, and the programs    *)
(* with a PGS stream.                                                      *)
Announced(pid) == \E p \in Tables : p.pid = 0 /\ \E k \in DOMAIN p.names : p.names[k] = pid
HasPgs(pid) == \E q \in Tables : q.pid = pid /\ \E j \in DOMAIN q.names : q.names[j].pgs

(* What is left of the programs of the PAT, and the streams of the others. *)
Fits(ps, ts, names) ==
  \E i \in 0 .. Len(names) :
    /\ Len(ps) = Len(names) - i /\ \A k \in 1 .. Len(ps) : ps[k] = names[i + k]
    /\ ts = ListedUpTo(Tables, names, i)

TablesInv ==
  /\ file \in OpenedFiles
  /\ file.kind = "ts" /\ Healthy /\ ~ failed =>
       /\ phase \in {"detect", "pat", "pmt", "tail", "open", "search", "ready"}
       /\ phase \in {"detect", "pat"} => tracks = << >>
       /\ phase = "pmt" =>
            /\ programs \in Seq(Nat \ {0}) /\ \A pid \in Members(programs) : Announced(pid)
            /\ tracks \in Seq(Stream)
            /\ \A p \in Tables : p.pid = 0 => Fits(programs, tracks, p.names)
            /\ tracks # << >> \/ \E pid \in Members(programs) : HasPgs(pid)
       /\ phase \in {"tail", "open", "search", "ready"} =>
            \A p \in Tables : p.pid = 0 => DescribesTs(p)
-----------------------------------------------------------------------------
LEMMA TablesTyped ==
  ASSUME file \in OpenedFiles, file.kind = "ts", NEW t \in Tables
  PROVE  /\ t.at \in Nat /\ t \in file.packets /\ t.section
         /\ t.pid = 0 => t.names \in Seq(Nat \ {0})
         /\ t.pid # 0 => t.names \in Seq(Stream)
BY OpenedFilesAssumption DEF IsTransportStream, Tables

(* A table of the file can be read.                                        *)
LEMMA TableReadable ==
  ASSUME file \in OpenedFiles, file.kind = "ts", HealthyTs,
         NEW q \in Tables, NEW limit \in {PatLimit, PmtLimit}
  PROVE  Table(q.pid, limit) # {}
<1> DEFINE begun == {p \in Walked(limit) : p.section /\ p.pid = q.pid}
           T == {p.at : p \in begun}
<1>1. \A p \in begun : p \in Tables /\ p.good
  BY DEF Walked, Tables, HealthyTs
<1>2. q \in begun
  BY DEF Tables, HealthyTs
<1>3. T \in SUBSET Nat /\ T # {}
  BY <1>1, <1>2, TablesTyped
<1>4. PICK a \in T : \A b \in T : a <= b
  <2> HIDE DEF T
  <2> QED
    BY <1>3, LeastNumber
<1>5. PICK p \in begun : p.at = a
  BY <1>4
<1>6. p \in Table(q.pid, limit)
  BY <1>1, <1>4, <1>5 DEF Table
<1> QED
  BY <1>6

(* f is what appending the streams of one program after the other makes.   *)
Plus(tables, ts, pid) == ts \o PgsStreams(tables, pid)

(* A PMT lists the PGS streams of its program.                             *)
LEMMA PgsStreamsOf ==
  ASSUME file \in OpenedFiles, file.kind = "ts", HealthyTs,
         NEW t \in Tables, t.pid # 0
  PROVE  /\ PgsStreams(Tables, t.pid) = Only(t.names, {s \in Members(t.names) : s.pgs})
         /\ PgsStreams(Tables, t.pid) \in Seq(Stream)
         /\ Members(PgsStreams(Tables, t.pid)) = {s \in Members(t.names) : s.pgs}
<1> DEFINE pmt == CHOOSE q \in Tables : q.pid = t.pid
           S == {s \in Members(t.names) : s.pgs}
<1>1. pmt \in Tables /\ pmt.pid = t.pid
  OBVIOUS
<1>2. pmt.names = t.names
  BY <1>1 DEF HealthyTs
<1>3. PgsStreams(Tables, t.pid) = Only(t.names, S)
  BY <1>2 DEF PgsStreams
<1>4. t.names \in Seq(Stream) /\ Members(t.names) \cap S = S
  BY TablesTyped
<1> HIDE DEF S
<1>5. Only(t.names, S) \in Seq(Stream) /\ Members(Only(t.names, S)) = S
  BY <1>4, OnlyTyped, OnlySelects
<1> QED
  BY <1>3, <1>5 DEF S

(* ListedUpTo is what its equations say.                                   *)
LEMMA ListedOneByOne ==
  ASSUME file \in OpenedFiles, file.kind = "ts", HealthyTs,
         NEW p \in Tables, p.pid = 0
  PROVE  /\ ListedUpTo(Tables, p.names, 0) = << >>
         /\ \A n \in 0 .. Len(p.names) : ListedUpTo(Tables, p.names, n) \in Seq(Stream)
         /\ \A n \in 1 .. Len(p.names) :
              ListedUpTo(Tables, p.names, n)
                = ListedUpTo(Tables, p.names, n - 1) \o PgsStreams(Tables, p.names[n])
<1> DEFINE names == p.names
           N == Len(names)
           D == Seq(Stream)
           g == [y \in D \X (1 .. N) |-> Plus(Tables, y[1], names[y[2]])]
           Is(f) == f = [k \in 0 .. N |->
                           IF k = 0 THEN << >> ELSE Plus(Tables, f[k - 1], names[k])]
<1>1. N \in Nat /\ DOMAIN names = 1 .. N /\ \A n \in 1 .. N : names[n] \in Nat \ {0}
  BY TablesTyped
<1>2. g \in [D \X (1 .. N) -> D]
  <2>1. ASSUME NEW y \in D \X (1 .. N)
        PROVE  Plus(Tables, y[1], names[y[2]]) \in D
    <3>1. y[1] \in D /\ y[2] \in 1 .. N
      BY <1>1
    <3>2. PICK q \in Tables : q.pid = names[y[2]]
      BY <1>1, <3>1 DEF HealthyTs
    <3>3. q.pid # 0
      BY <1>1, <3>1, <3>2
    <3>4. PgsStreams(Tables, names[y[2]]) \in D
      BY <3>2, <3>3, PgsStreamsOf
    <3> QED
      BY <3>1, <3>4, ConcatProperties DEF Plus
  <2> QED
    BY <2>1
<1>3. PICK f \in [0 .. N -> D] : IsRecursive(f, N, << >>, g)
  <2> HIDE DEF g, D, names
  <2>1. << >> \in D
    BY DEF D
  <2> QED
    BY <1>1, <1>2, <2>1, Recursion
<1>4. \A n \in 0 .. N : f[n] = IF n = 0 THEN << >> ELSE Plus(Tables, f[n - 1], names[n])
  <2>1. \A n \in 1 .. N : << f[n - 1], n >> \in D \X (1 .. N)
    <3> HIDE DEF D, names
    <3>1. \A n \in 1 .. N : n - 1 \in 0 .. N
      BY <1>1
    <3> QED
      BY <1>3, <3>1
  <2>2. \A n \in 1 .. N : g[<< f[n - 1], n >>] = Plus(Tables, f[n - 1], names[n])
    BY <2>1
  <2>3. \A n \in 0 .. N : n # 0 => n \in 1 .. N
    BY <1>1
  <2> HIDE DEF g, D
  <2> QED
    BY <1>3, <2>2, <2>3 DEF IsRecursive
<1>5. Is(f)
  <2> DEFINE h == [k \in 0 .. N |-> IF k = 0 THEN << >> ELSE Plus(Tables, f[k - 1], names[k])]
  <2>1. \A k \in 0 .. N : f[k] = h[k]
    BY <1>4
  <2>2. DOMAIN f = 0 .. N /\ DOMAIN h = 0 .. N /\ f = [k \in 0 .. N |-> f[k]]
    OBVIOUS
  <2>3. f = h
    BY <2>1, <2>2
  <2> QED
    BY <2>3
<1> DEFINE u == CHOOSE h : Is(h)
<1>6. Is(u)
  <2> HIDE DEF Is
  <2> QED
    BY <1>5
<1>7. \A n : ListedUpTo(Tables, names, n) = u[n]
  BY DEF ListedUpTo, Plus
<1>8. \A n \in 0 .. N : u[n] = f[n]
  <2> HIDE DEF u
  <2>2. \A n \in 0 .. N : u[n] = IF n = 0 THEN << >> ELSE Plus(Tables, u[n - 1], names[n])
    BY <1>6
  <2> DEFINE T == {n \in 0 .. N : u[n] = f[n]}
  <2>3. 0 \in T
    BY <1>1, <1>4, <2>2
  <2>4. ASSUME NEW n \in 0 .. N - 1, n \in T PROVE n + 1 \in T
    <3>1. n + 1 \in 0 .. N /\ n + 1 # 0 /\ n + 1 - 1 = n
      BY <1>1
    <3> QED
      BY <1>4, <2>2, <2>4, <3>1
  <2>5. 0 .. N \subseteq T
    <3> HIDE DEF T
    <3> QED
      BY <1>1, <2>3, <2>4, Upto
  <2> QED
    BY <2>5
<1>9. \A n \in 0 .. N : ListedUpTo(Tables, names, n) = f[n]
  <2> HIDE DEF u
  <2> QED
    BY <1>7, <1>8
<1>10. \A n \in 1 .. N : n \in 0 .. N /\ n - 1 \in 0 .. N /\ n # 0
  BY <1>1
<1>11. 0 \in 0 .. N
  BY <1>1
<1> HIDE DEF D, u, g, Is, names
<1>12. /\ ListedUpTo(Tables, names, 0) = << >>
       /\ \A n \in 0 .. N : ListedUpTo(Tables, names, n) \in D
  <2>1. f[0] = << >> /\ \A n \in 0 .. N : f[n] \in D
    BY <1>3, <1>4, <1>11
  <2> QED
    BY <1>9, <1>11, <2>1
<1>13. \A n \in 1 .. N : ListedUpTo(Tables, names, n)
                           = ListedUpTo(Tables, names, n - 1) \o PgsStreams(Tables, names[n])
  BY <1>4, <1>9, <1>10 DEF Plus
<1> QED
  BY <1>12, <1>13 DEF D, names

(* DescribesTs, of any tracks.                                             *)
Fallen(s) == [s EXCEPT !.language = IF @ # {} THEN @ ELSE ClpiLanguage(s.pid)]
Describes(ts, names) ==
  LET listed == ListedUpTo(Tables, names, Len(names))
  IN  ts = [k \in DOMAIN listed |-> Fallen(listed[k])]

(* TablesInv speaks of the file, which stays, and of the tracks.           *)
LEMMA TablesInvPrimed ==
  ASSUME file \in OpenedFiles, file' = file,
         file.kind = "ts" /\ Healthy /\ ~ failed' =>
           /\ phase' \in {"detect", "pat", "pmt", "tail", "open", "search", "ready"}
           /\ phase' \in {"detect", "pat"} => tracks' = << >>
           /\ phase' = "pmt" =>
                /\ programs' \in Seq(Nat \ {0}) /\ \A pid \in Members(programs') : Announced(pid)
                /\ tracks' \in Seq(Stream)
                /\ \A p \in Tables : p.pid = 0 => Fits(programs', tracks', p.names)
                /\ tracks' # << >> \/ \E pid \in Members(programs') : HasPgs(pid)
           /\ phase' \in {"tail", "open", "search", "ready"} =>
                \A p \in Tables : p.pid = 0 => Describes(tracks', p.names)
  PROVE  TablesInv'
<1>1. Tables' = Tables
  BY DEF Tables
<1>2. \A pid : Announced(pid)' = Announced(pid) /\ HasPgs(pid)' = HasPgs(pid)
  BY <1>1 DEF Announced, HasPgs
<1>3. file.kind = "ts" => Healthy' = Healthy
  BY <1>1 DEF Healthy, HealthyTs, InPackets, Packet, Walked
<1>4. (\A p \in Tables : p.pid = 0 => Fits(programs, tracks, p.names))' <=>
        \A p \in Tables : p.pid = 0 => Fits(programs', tracks', p.names)
  BY <1>1 DEF Fits
<1>5. (\A p \in Tables : p.pid = 0 => DescribesTs(p))' <=>
        \A p \in Tables : p.pid = 0 => Describes(tracks', p.names)
  BY <1>1 DEF DescribesTs, Describes, Fallen, ClpiLanguage
<1>6. (\A pid \in Members(programs) : Announced(pid))' <=>
        \A pid \in Members(programs') : Announced(pid)
  BY <1>1 DEF Announced, Members
<1>7. (\E pid \in Members(programs) : HasPgs(pid))' <=>
        \E pid \in Members(programs') : HasPgs(pid)
  BY <1>1 DEF HasPgs, Members
<1> QED
  BY <1>3, <1>4, <1>5, <1>6, <1>7 DEF TablesInv

(* The PAT announces the programs, and one of them has a PGS stream.       *)
LEMMA FindPatTables ==
  ASSUME TablesInv, file.kind = "ts", HealthyTs, Healthy, ~ failed, FindPat
  PROVE  TablesInv'
<1>0. /\ file \in OpenedFiles /\ phase = "pat" /\ phase' = "pmt"
      /\ UNCHANGED << file, failed, tracks >> /\ tracks = << >>
  BY DEF TablesInv, FindPat, GoTo
<1>1. PICK t \in Table(0, PatLimit) : programs' = t.names
  BY DEF FindPat
<1>2. t \in Tables /\ t.pid = 0 /\ t.names \in Seq(Nat \ {0})
  BY <1>0, <1>1, TableRead, TablesTyped
<1>3. \A pid \in Members(t.names) : Announced(pid)
  BY <1>2 DEF Members, Announced
<1>4. \E pid \in Members(t.names) : HasPgs(pid)
  <2>1. PICK q \in Tables : /\ \E k \in DOMAIN t.names : q.pid = t.names[k]
                            /\ \E j \in DOMAIN q.names : q.names[j].pgs
    BY <1>2 DEF HealthyTs
  <2> QED
    BY <2>1 DEF HasPgs, Members
<1>5. << >> \in Seq(Stream)
  OBVIOUS
<1>6. ASSUME NEW p \in Tables, p.pid = 0
      PROVE  Fits(t.names, << >>, p.names)
  <2>1. t.names = p.names
    BY <1>2, <1>6 DEF HealthyTs
  <2>2. Len(t.names) \in Nat /\ ListedUpTo(Tables, p.names, 0) = << >>
    BY <1>0, <1>2, <1>6, ListedOneByOne, LenProperties
  <2> QED
    BY <2>1, <2>2 DEF Fits
<1> QED
  BY <1>0, <1>1, <1>2, <1>3, <1>4, <1>5, <1>6, TablesInvPrimed

(* A PMT adds its PGS streams, and the other programs remain.              *)
LEMMA FindPmtTables ==
  ASSUME TablesInv, file.kind = "ts", HealthyTs, Healthy, ~ failed, FindPmt
  PROVE  TablesInv'
<1>0. /\ file \in OpenedFiles /\ phase = "pmt" /\ phase' = "pmt"
      /\ UNCHANGED << file, failed >>
      /\ programs \in Seq(Nat \ {0}) /\ programs # << >>
      /\ \A pid \in Members(programs) : Announced(pid)
      /\ tracks \in Seq(Stream)
      /\ \A p \in Tables : p.pid = 0 => Fits(programs, tracks, p.names)
      /\ tracks # << >> \/ \E pid \in Members(programs) : HasPgs(pid)
      /\ programs' = Tail(programs)
  BY DEF TablesInv, FindPmt, shared
<1> DEFINE h == Head(programs)
           rest == Tail(programs)
<1>1. /\ h \in Nat \ {0} /\ rest \in Seq(Nat \ {0}) /\ Members(programs) = {h} \cup Members(rest)
  <2>1. /\ h \in Nat \ {0} /\ rest \in Seq(Nat \ {0})
        /\ Len(programs) \in Nat \ {0} /\ Len(rest) = Len(programs) - 1
        /\ h = programs[1] /\ \A k \in 1 .. Len(rest) : rest[k] = programs[k + 1]
    BY <1>0, EmptySeq, LenProperties, HeadTailProperties
  <2>2. DOMAIN programs = 1 .. Len(programs) /\ DOMAIN rest = 1 .. Len(rest)
    BY <1>0, <2>1, LenProperties
  <2> HIDE DEF h, rest
  <2>3. \A k \in DOMAIN programs : k = 1 \/ k - 1 \in DOMAIN rest
    BY <2>1, <2>2
  <2>4. \A k \in DOMAIN rest : k + 1 \in DOMAIN programs
    BY <2>1, <2>2
  <2>5. \A k \in DOMAIN programs : programs[k] = h \/ programs[k] \in Members(rest)
    <3>1. \A k \in DOMAIN programs : k - 1 \in DOMAIN rest => rest[k - 1] = programs[k]
      BY <2>1, <2>2
    <3> QED
      BY <2>1, <2>3, <3>1 DEF Members
  <2>6. 1 \in DOMAIN programs
    BY <2>1, <2>2
  <2>7. Members(programs) \subseteq {h} \cup Members(rest)
    BY <2>5 DEF Members
  <2>8. \A k \in DOMAIN rest : rest[k] = programs[k + 1]
    BY <2>1, <2>2
  <2>9. {h} \cup Members(rest) \subseteq Members(programs)
    BY <2>1, <2>4, <2>6, <2>8 DEF Members
  <2> QED
    BY <2>1, <2>7, <2>9
<1>2. PICK t \in Table(h, PmtLimit) :
        tracks' = tracks \o Only(t.names, {s \in Members(t.names) : s.pgs})
  BY DEF FindPmt
<1>3. t \in Tables /\ t.pid = h /\ t.names \in Seq(Stream) /\ Announced(h)
  <2>1. t \in Tables /\ t.pid = h
    BY <1>2, TableRead
  <2> QED
    BY <1>0, <1>1, <2>1, TablesTyped
<1> DEFINE S == {s \in Members(t.names) : s.pgs}
           found == Only(t.names, S)
<1>4. found \in Seq(Stream) /\ Members(found) = S
  <2>1. Members(t.names) \cap S = S
    OBVIOUS
  <2> HIDE DEF S
  <2> QED
    BY <1>3, <2>1, OnlyTyped, OnlySelects
<1>5. found = PgsStreams(Tables, h)
  BY <1>0, <1>1, <1>3, PgsStreamsOf
<1>6. tracks' = tracks \o found
  BY <1>2
<1> HIDE DEF found
<1>7. tracks' \in Seq(Stream) /\ Members(tracks') = Members(tracks) \cup S
  BY <1>0, <1>4, <1>6, ConcatProperties, MembersConcat
<1>8. tracks' # << >> \/ \E pid \in Members(rest) : HasPgs(pid)
  <2>1. ASSUME tracks' = << >> PROVE Members(tracks) = {} /\ S = {}
    <3>1. Members(<< >>) = {}
      BY DEF Members
    <3> QED
      BY <1>7, <2>1, <3>1
  <2>2. ASSUME tracks # << >> PROVE Members(tracks) # {}
    <3>1. 1 \in DOMAIN tracks
      BY <1>0, <2>2
    <3> QED
      BY <3>1 DEF Members
  <2>3. ASSUME HasPgs(h) PROVE S # {}
    <3>1. PICK q \in Tables : q.pid = h /\ \E j \in DOMAIN q.names : q.names[j].pgs
      BY <2>3 DEF HasPgs
    <3>2. q.names = t.names
      BY <1>3, <3>1 DEF HealthyTs
    <3> QED
      BY <3>1, <3>2 DEF Members
  <2> QED
    BY <1>0, <1>1, <2>1, <2>2, <2>3
<1> HIDE DEF rest, h
<1>9. programs' = rest
  BY <1>0 DEF rest
<1>10. ASSUME NEW p \in Tables, p.pid = 0
       PROVE  Fits(rest, tracks', p.names)
  <2>1. PICK i \in 0 .. Len(p.names) :
          /\ Len(programs) = Len(p.names) - i
          /\ \A k \in 1 .. Len(programs) : programs[k] = p.names[i + k]
          /\ tracks = ListedUpTo(Tables, p.names, i)
    BY <1>0, <1>10 DEF Fits
  <2>2. /\ Len(programs) \in Nat \ {0} /\ Len(rest) = Len(programs) - 1
        /\ h = programs[1] /\ \A k \in 1 .. Len(rest) : rest[k] = programs[k + 1]
    BY <1>0, EmptySeq, LenProperties, HeadTailProperties DEF h, rest
  <2>3. Len(p.names) \in Nat
    BY <1>0, <1>10, TablesTyped, LenProperties
  <2>4. i + 1 \in 1 .. Len(p.names) /\ i + 1 - 1 = i /\ h = p.names[i + 1]
    BY <2>1, <2>2, <2>3
  <2>5. tracks' = ListedUpTo(Tables, p.names, i + 1)
    <3>1. ListedUpTo(Tables, p.names, i + 1)
            = ListedUpTo(Tables, p.names, i + 1 - 1) \o PgsStreams(Tables, p.names[i + 1])
      <4>1. \A n \in 1 .. Len(p.names) :
              ListedUpTo(Tables, p.names, n)
                = ListedUpTo(Tables, p.names, n - 1) \o PgsStreams(Tables, p.names[n])
        BY <1>0, <1>10, ListedOneByOne
      <4> QED
        BY <2>4, <4>1
    <3>2. PgsStreams(Tables, p.names[i + 1]) = found
      BY <1>5, <2>4
    <3> QED
      BY <1>6, <2>1, <2>4, <3>1, <3>2
  <2>6. \A k \in 1 .. Len(rest) : rest[k] = p.names[i + 1 + k]
    <3>1. \A k \in 1 .. Len(rest) : k + 1 \in 1 .. Len(programs) /\ i + (k + 1) = i + 1 + k
      BY <2>2, <2>3
    <3> QED
      BY <2>1, <2>2, <3>1
  <2>7. Len(rest) = Len(p.names) - (i + 1) /\ i + 1 \in 0 .. Len(p.names)
    BY <2>1, <2>2, <2>3, <2>4
  <2> QED
    BY <2>5, <2>6, <2>7 DEF Fits
<1>11. \A pid \in Members(rest) : Announced(pid)
  BY <1>0, <1>1
<1> QED
  BY <1>0, <1>1, <1>7, <1>8, <1>9, <1>10, <1>11, TablesInvPrimed

(* No table is missing, and no file is left without a PGS stream.          *)
LEMMA TablesFound ==
  ASSUME TablesInv, file.kind = "ts", HealthyTs, Healthy, ~ failed, TableFails
  PROVE  FALSE
<1>0. file \in OpenedFiles
  BY DEF TablesInv
<1>1. CASE phase = "pat"
  <2>1. PICK p \in Tables : p.pid = 0
    BY DEF HealthyTs
  <2>2. Table(p.pid, PatLimit) # {}
    BY <1>0, TableReadable
  <2> QED
    BY <1>1, <2>1, <2>2 DEF TableFails
<1>2. CASE phase = "pmt" /\ programs # << >>
  <2>1. Head(programs) \in Members(programs)
    <3>1. programs \in Seq(Nat \ {0})
      BY <1>2 DEF TablesInv
    <3>2. 1 \in DOMAIN programs /\ Head(programs) = programs[1]
      BY <1>2, <3>1
    <3> QED
      BY <3>2 DEF Members
  <2>2. Announced(Head(programs))
    BY <1>2, <2>1 DEF TablesInv
  <2>3. PICK q \in Tables : q.pid = Head(programs)
    BY <2>2 DEF Announced, HealthyTs
  <2>4. Table(q.pid, PmtLimit) # {}
    BY <1>0, TableReadable
  <2> QED
    BY <1>2, <2>3, <2>4 DEF TableFails
<1>3. CASE phase = "pmt" /\ programs = << >> /\ tracks = << >>
  BY <1>3 DEF TablesInv, Members
<1> QED
  BY <1>1, <1>2, <1>3 DEF TableFails

(* The languages are those of the PMT or else of the CLPI file.            *)
LEMMA ClpiTables ==
  ASSUME TablesInv, file.kind = "ts", HealthyTs, Healthy, ~ failed, ApplyClpi
  PROVE  TablesInv'
<1>0. /\ file \in OpenedFiles /\ phase = "pmt" /\ phase' \in {"tail", "open"}
      /\ UNCHANGED << file, failed >>
      /\ tracks \in Seq(Stream) /\ programs = << >>
      /\ \A p \in Tables : p.pid = 0 => Fits(programs, tracks, p.names)
      /\ tracks' = [k \in DOMAIN tracks |-> WithClpi(tracks[k])]
  BY DEF TablesInv, ApplyClpi, GoTo
<1>1. ASSUME NEW s \in Stream
      PROVE  WithClpi(s) = Fallen(s)
  <2>1. s = [pid |-> s.pid, pgs |-> s.pgs, language |-> s.language]
    BY DEF Stream
  <2> QED
    BY <2>1 DEF WithClpi, Fallen, Stream
<1>2. ASSUME NEW p \in Tables, p.pid = 0
      PROVE  Describes(tracks', p.names)
  <2>1. PICK i \in 0 .. Len(p.names) :
          Len(programs) = Len(p.names) - i /\ tracks = ListedUpTo(Tables, p.names, i)
    BY <1>0, <1>2 DEF Fits
  <2>2. Len(p.names) \in Nat /\ Len(programs) = 0
    BY <1>0, <1>2, TablesTyped, LenProperties, EmptySeq
  <2>3. tracks = ListedUpTo(Tables, p.names, Len(p.names))
    <3>1. i = Len(p.names)
      BY <2>1, <2>2
    <3> QED
      BY <2>1, <3>1
  <2>4. \A k \in DOMAIN tracks : WithClpi(tracks[k]) = Fallen(tracks[k])
    BY <1>0, <1>1
  <2>5. tracks' = [k \in DOMAIN tracks |-> Fallen(tracks[k])]
    BY <1>0, <2>4
  <2> QED
    BY <2>3, <2>5 DEF Describes
<1> QED
  BY <1>0, <1>2, TablesInvPrimed

(* The steps of a transport stream; the others do not concern it.         *)
LEMMA TablesInvInit ==
  ASSUME Init
  PROVE  TablesInv
BY DEF Init, M2tsInit, TablesInv

LEMMA TablesInvNext ==
  ASSUME TablesInv, [Next]_vars
  PROVE  TablesInv'
<1>1. file' = file /\ file \in OpenedFiles
  BY FileStays DEF TablesInv
<1>2. CASE file.kind # "ts"
  BY <1>1, <1>2 DEF TablesInv
<1>3. CASE file.kind = "ts" /\ failed'
  BY <1>1, <1>3, TablesInvPrimed
<1>4. CASE file.kind = "ts" /\ ~ failed' /\ ~ Healthy
  BY <1>1, <1>4, TablesInvPrimed
<1>5. CASE file.kind = "ts" /\ ~ failed' /\ Healthy
  <2>0. HealthyTs /\ "ebml" \notin file.magic /\ InPackets
    BY <1>5 DEF Healthy, HealthyTs
  <2>1. CASE \E steps : ReadError(steps)
    BY <1>5, <2>1 DEF ReadError
  <2>2. CASE Detect
    <3>1. phase = "detect" /\ phase' = "pat" /\ ~ failed /\ tracks' = tracks
      BY <1>5, <2>0, <2>2 DEF Detect, Detected, GoTo
    <3>2. tracks = << >>
      BY <1>5, <3>1 DEF TablesInv
    <3> QED
      BY <1>1, <3>1, <3>2, TablesInvPrimed
  <2>3. CASE FindPat
    <3>1. ~ failed
      BY <1>5, <2>3 DEF FindPat, GoTo
    <3> QED
      BY <1>5, <2>0, <2>3, <3>1, FindPatTables
  <2>4. CASE FindPmt
    <3>1. ~ failed
      BY <1>5, <2>4 DEF FindPmt, shared
    <3> QED
      BY <1>5, <2>0, <2>4, <3>1, FindPmtTables
  <2>5. CASE TableFails
    <3>1. ~ failed
      BY <1>5, <2>5 DEF TableFails, GoTo
    <3> QED
      BY <1>5, <2>0, <2>5, <3>1, TablesFound
  <2>6. CASE ApplyClpi
    <3>1. ~ failed
      BY <1>5, <2>6 DEF ApplyClpi, GoTo
    <3> QED
      BY <1>5, <2>0, <2>6, <3>1, ClpiTables
  <2>7. CASE \/ FindLastPts \/ SetTimeRange \/ Probe \/ Settle
             \/ FindLastPtsFails \/ ProbeUnread \/ SearchFails
    <3>1. /\ phase \in {"tail", "open", "search"} /\ phase' \in {"open", "search", "ready"}
          /\ ~ failed /\ tracks' = tracks
      <4>1. CASE FindLastPts \/ SetTimeRange \/ Probe \/ Settle
        BY <1>5, <4>1 DEF FindLastPts, SetTimeRange, Probe, Searching, Settle, GoTo, shared
      <4>2. CASE FindLastPtsFails
        BY <1>5, <4>2 DEF FindLastPtsFails
      <4>3. CASE ProbeUnread
        BY <1>5, <4>3 DEF ProbeUnread, Searching, shared
      <4>4. CASE SearchFails
        BY <1>5, <4>4 DEF SearchFails
      <4> QED
        BY <2>7, <4>1, <4>2, <4>3, <4>4
    <3>2. \A p \in Tables : p.pid = 0 => Describes(tracks', p.names)
      BY <1>5, <3>1 DEF TablesInv, DescribesTs, Describes, Fallen
    <3> QED
      BY <1>1, <3>1, <3>2, TablesInvPrimed
  <2>8. CASE UNCHANGED vars
    <3>1. UNCHANGED << phase, failed, tracks, programs >>
      BY <2>8 DEF vars, shared, m2tsVars
    <3>2. /\ phase' \in {"detect", "pat", "pmt", "tail", "open", "search", "ready"}
          /\ phase' \in {"detect", "pat"} => tracks' = << >>
          /\ phase' = "pmt" =>
               /\ programs' \in Seq(Nat \ {0}) /\ \A pid \in Members(programs') : Announced(pid)
               /\ tracks' \in Seq(Stream)
               /\ \A p \in Tables : p.pid = 0 => Fits(programs', tracks', p.names)
               /\ tracks' # << >> \/ \E pid \in Members(programs') : HasPgs(pid)
          /\ phase' \in {"tail", "open", "search", "ready"} =>
               \A p \in Tables : p.pid = 0 => Describes(tracks', p.names)
      BY <1>5, <3>1 DEF TablesInv, DescribesTs, Describes, Fallen
    <3> QED
      BY <1>1, <3>2, TablesInvPrimed
  <2> QED
    BY <1>5, <2>1, <2>2, <2>3, <2>4, <2>5, <2>6, <2>7, <2>8
       DEF Next, Step, Fault, NoteTimeRange, DetectPacketsFails, SoughtInPackets,
           M2tsStep, M2tsFault
<1> QED
  BY <1>2, <1>3, <1>4, <1>5
-----------------------------------------------------------------------------
(* The PGS entries of Tracks, and what is kept of them.                    *)
PgsOf(body) == Only(body, {e \in Members(body) : e.pgs})
KeptOf(pgs) == [k \in DOMAIN pgs |->
                  [number |-> pgs[k].number, uid |-> pgs[k].uid,
                   language |-> Language(pgs[k]), compression |-> Compression(pgs[k])]]
EntriesFit(kept) == \A k \in Reached("Tracks") : kept = KeptOf(PgsOf(file.elements[k].body))

(* The tracks that cues or positions are of; those of the cues of the file. *)
TracksIn(s) == {p.trk : p \in Members(s)}
TracksAt(points) == UNION {TracksIn(points[j].positions) : j \in DOMAIN points}
NumbersOf(kept) == UNION {kept[k].number : k \in DOMAIN kept}
FileTracks == UNION {TracksAt(file.elements[k].body) : k \in Reached("Cues")}
CuesFit(cues, kept) == TracksIn(cues) = FileTracks \cap NumbersOf(kept)

(* The numbers of frames are those of tags of the file.                    *)
CountsFit(counts) ==
  \A u \in DOMAIN counts :
    \E k \in Reached("Tags") : \E j \in DOMAIN file.elements[k].body :
      LET tag == file.elements[k].body[j]
      IN  counts[u] \in tag.frames /\ u \in tag.uids

(* What was parsed so far is what the elements reached say.                *)
MetadataInv ==
  /\ file \in OpenedFiles
  /\ Healthy /\ ~ failed => phase # "err"
  /\ file.kind = "mkv" /\ Healthy /\ ~ failed =>
       /\ phase \in {"detect", "ebml", "segment", "tracks", "info", "cues", "tags", "open", "ready"}
       /\ phase \notin {"tags", "open", "ready"} => cuePoints = << >>
       /\ phase \notin {"detect", "ebml", "segment", "tracks"} => EntriesFit(entries)
       /\ phase \in {"tags", "open", "ready"} => CuesFit(cuePoints, entries)
       /\ CountsFit(frameCounts)
-----------------------------------------------------------------------------
(* A set of numbers with a bound has a greatest one.                       *)
LEMMA GreatestNumber ==
  ASSUME NEW n \in Nat, NEW S \in SUBSET (1 .. n), S # {}
  PROVE  \E x \in S : \A y \in S : y <= x
<1> DEFINE B == {m \in Nat : \A y \in S : y <= m}
<1>1. B \in SUBSET Nat /\ n \in B
  OBVIOUS
<1>2. PICK b \in B : \A m \in B : b <= m
  <2> HIDE DEF B
  <2> QED
    BY <1>1, LeastNumber
<1>3. PICK y \in S : TRUE
  OBVIOUS
<1>4. b \in Nat \ {0} /\ b - 1 \in Nat /\ ~ (b <= b - 1)
  BY <1>2, <1>3
<1>5. b - 1 \notin B
  BY <1>2, <1>4
<1>6. PICK x \in S : ~ (x <= b - 1)
  BY <1>4, <1>5
<1>7. x = b
  BY <1>2, <1>4, <1>6
<1> QED
  BY <1>2, <1>7

(* An element that is parsed is the one reached, ...                       *)
LEMMA ElementReached ==
  ASSUME NEW id \in Noted, layout[id] = Reached(id), NEW e \in Element(id)
  PROVE  \E k \in Reached(id) : k \in DOMAIN file.elements /\ e = file.elements[k] /\ e.id = id
BY DEF Element

(* ... and one that is reached can be parsed in a file as it should be.    *)
LEMMA ReachedElement ==
  ASSUME NEW id \in Noted \ {"Tags", "Cluster"}, layout[id] = Reached(id), HealthyMkv,
         NEW k \in Reached(id)
  PROVE  /\ k \in DOMAIN file.elements /\ file.elements[k] \in Element(id)
         /\ file.elements[k].id = id
<1>1. k \in DOMAIN file.elements /\ file.elements[k].id = id
  BY DEF Reached, FirstOf
<1>2. file.elements[k].good
  BY <1>1 DEF HealthyMkv, Noted
<1> QED
  BY <1>1, <1>2 DEF Element

(* The bodies of the elements.                                             *)
LEMMA BodiesTyped ==
  ASSUME file \in OpenedFiles, file.kind = "mkv", NEW k \in DOMAIN file.elements
  PROVE  /\ file.elements[k].id = "Tracks" => file.elements[k].body \in Seq(TrackEntry)
         /\ file.elements[k].id = "Cues" => file.elements[k].body \in Seq(CuePoint)
         /\ file.elements[k].id = "Tags" => file.elements[k].body \in Seq(Tag)
<1>1. file.elements[k] \in Members(file.elements)
  BY DEF Members
<1> QED
  BY <1>1, ElementsTyped DEF IsMatroska

(* The PGS entries are those entries that are.                             *)
LEMMA PgsOfSelects ==
  ASSUME NEW body \in Seq(TrackEntry)
  PROVE  /\ PgsOf(body) \in Seq(TrackEntry)
         /\ Members(PgsOf(body)) = {e \in Members(body) : e.pgs}
<1> DEFINE S == {e \in Members(body) : e.pgs}
<1>1. Members(body) \cap S = S
  OBVIOUS
<1> HIDE DEF S
<1>2. Only(body, S) \in Seq(TrackEntry) /\ Members(Only(body, S)) = S
  BY <1>1, OnlyTyped, OnlySelects
<1> QED
  BY <1>2 DEF S, PgsOf

(* The cues of a point.                                                    *)
CuesOf(point) ==
  LET own == Only(point.positions, {p \in Members(point.positions) : p.trk \in Numbers})
  IN  [j \in DOMAIN own |-> [time |-> point.time, trk |-> own[j].trk,
                             cluster |-> own[j].cluster]]
Cue == [time : Nat, trk : Nat, cluster : Nat]

LEMMA CuesOfPoint ==
  ASSUME NEW point \in CuePoint
  PROVE  /\ CuesOf(point) \in Seq(Cue)
         /\ TracksIn(CuesOf(point)) = TracksIn(point.positions) \cap Numbers
<1> DEFINE at == point.positions
           S == {p \in Members(at) : p.trk \in Numbers}
           own == Only(at, S)
           cues == CuesOf(point)
           P == [trk : Nat, cluster : Nat]
<1>1. at \in Seq(P) /\ point.time \in Nat
  BY DEF CuePoint
<1>2. own \in Seq(P) /\ Members(own) = S
  <2>1. Members(at) \cap S = S
    OBVIOUS
  <2> HIDE DEF S, at, P
  <2> QED
    BY <1>1, <2>1, OnlyTyped, OnlySelects
<1>3. cues = [j \in DOMAIN own |-> [time |-> point.time, trk |-> own[j].trk,
                                    cluster |-> own[j].cluster]]
  BY DEF CuesOf
<1> HIDE DEF own, S, cues, at
<1>4. Len(own) \in Nat /\ DOMAIN own = 1 .. Len(own) /\ \A j \in DOMAIN own : own[j] \in P
  BY <1>2, LenProperties, ElementOfSeq
<1>5. cues \in Seq(Cue)
  <2>1. cues \in [1 .. Len(own) -> Cue]
    BY <1>1, <1>3, <1>4 DEF Cue
  <2> QED
    BY <1>4, <2>1
<1>6. TracksIn(cues) = TracksIn(own)
  <2>1. DOMAIN cues = DOMAIN own /\ \A j \in DOMAIN own : cues[j].trk = own[j].trk
    BY <1>3
  <2> QED
    BY <2>1 DEF TracksIn, Members
<1>7. TracksIn(own) = TracksIn(at) \cap Numbers
  BY <1>2 DEF TracksIn, S
<1> QED
  BY <1>5, <1>6, <1>7 DEF cues, at

(* The tracks of cues put together.                                        *)
LEMMA TracksInConcat ==
  ASSUME NEW s \in Seq(Cue), NEW t \in Seq(Cue)
  PROVE  TracksIn(s \o t) = TracksIn(s) \cup TracksIn(t)
<1>1. Members(s \o t) = Members(s) \cup Members(t)
  BY MembersConcat
<1> QED
  BY <1>1 DEF TracksIn

(* f is what collecting the cues of one point after the other makes.       *)
With(cues, point) == cues \o CuesOf(point)
IsCollecting(f, points) ==
  \A n \in 0 .. Len(points) :
    f[n] = IF n = 0 THEN << >> ELSE With(f[n - 1], points[n])

(* Cues is what its equations say.                                         *)
LEMMA CuesExist ==
  ASSUME NEW points \in Seq(CuePoint)
  PROVE  \E f \in [0 .. Len(points) -> Seq(Cue)] :
           IsCollecting(f, points) /\ Cues(points) = f[Len(points)]
<1> DEFINE N == Len(points)
           D == Seq(Cue)
           g == [y \in D \X (1 .. N) |-> With(y[1], points[y[2]])]
           Is(f) == f = [k \in 0 .. N |->
                           IF k = 0 THEN << >> ELSE With(f[k - 1], points[k])]
<1>1. N \in Nat /\ \A n \in 1 .. N : points[n] \in CuePoint
  OBVIOUS
<1>2. g \in [D \X (1 .. N) -> D]
  <2>1. ASSUME NEW y \in D \X (1 .. N)
        PROVE  With(y[1], points[y[2]]) \in D
    <3>1. y[1] \in D /\ points[y[2]] \in CuePoint
      BY <1>1
    <3>2. CuesOf(points[y[2]]) \in D
      BY <3>1, CuesOfPoint
    <3> QED
      BY <3>1, <3>2, ConcatProperties DEF With
  <2> QED
    BY <2>1
<1>3. PICK f \in [0 .. N -> D] : IsRecursive(f, N, << >>, g)
  <2> HIDE DEF g, D
  <2>1. << >> \in D
    BY DEF D
  <2> QED
    BY <1>1, <1>2, <2>1, Recursion
<1>4. \A n \in 0 .. N : f[n] = IF n = 0 THEN << >> ELSE With(f[n - 1], points[n])
  <2>1. \A n \in 1 .. N : << f[n - 1], n >> \in D \X (1 .. N)
    <3> HIDE DEF D
    <3>1. \A n \in 1 .. N : n - 1 \in 0 .. N
      BY <1>1
    <3> QED
      BY <1>3, <3>1
  <2>2. \A n \in 1 .. N : g[<< f[n - 1], n >>] = With(f[n - 1], points[n])
    BY <2>1
  <2>3. \A n \in 0 .. N : n # 0 => n \in 1 .. N
    BY <1>1
  <2> HIDE DEF g, D
  <2> QED
    BY <1>3, <2>2, <2>3 DEF IsRecursive
<1>5. Is(f)
  <2> DEFINE h == [k \in 0 .. N |-> IF k = 0 THEN << >> ELSE With(f[k - 1], points[k])]
  <2>1. \A k \in 0 .. N : f[k] = h[k]
    BY <1>4
  <2>2. DOMAIN f = 0 .. N /\ DOMAIN h = 0 .. N /\ f = [k \in 0 .. N |-> f[k]]
    OBVIOUS
  <2>3. f = h
    BY <2>1, <2>2
  <2> QED
    BY <2>3
<1> DEFINE u == CHOOSE h : Is(h)
<1>6. Is(u)
  <2> HIDE DEF Is
  <2> QED
    BY <1>5
<1>7. Cues(points) = u[N]
  BY DEF Cues, CuesOf, With
<1>8. u = f
  <2> HIDE DEF u
  <2>1. DOMAIN u = 0 .. N /\ u = [n \in 0 .. N |-> u[n]]
    BY <1>6
  <2>2. \A n \in 0 .. N : u[n] = IF n = 0 THEN << >> ELSE With(u[n - 1], points[n])
    BY <1>6
  <2> DEFINE T == {n \in 0 .. N : u[n] = f[n]}
  <2>3. 0 \in T
    BY <1>1, <1>4, <2>2
  <2>4. ASSUME NEW n \in 0 .. N - 1, n \in T PROVE n + 1 \in T
    <3>1. n + 1 \in 0 .. N /\ n + 1 # 0 /\ n + 1 - 1 = n
      BY <1>1
    <3> QED
      BY <1>4, <2>2, <2>4, <3>1
  <2>5. 0 .. N \subseteq T
    <3> HIDE DEF T
    <3> QED
      BY <1>1, <2>3, <2>4, Upto
  <2> QED
    BY <2>1, <2>5
<1> QED
  <2> HIDE DEF u
  <2> QED
    BY <1>4, <1>7, <1>8 DEF IsCollecting

(* The cues are of the PGS tracks that the points have positions of.       *)
LEMMA CuesAreOfTracks ==
  ASSUME NEW points \in Seq(CuePoint)
  PROVE  TracksIn(Cues(points)) = TracksAt(points) \cap Numbers
<1> DEFINE N == Len(points)
           upTo(n) == UNION {TracksIn(points[j].positions) : j \in 1 .. n}
           at(n) == upTo(n) \cap Numbers
<1>1. N \in Nat /\ DOMAIN points = 1 .. N /\ \A n \in 1 .. N : points[n] \in CuePoint
  OBVIOUS
<1>2. PICK f \in [0 .. N -> Seq(Cue)] : IsCollecting(f, points) /\ Cues(points) = f[N]
  BY CuesExist
<1> DEFINE T == {n \in 0 .. N : TracksIn(f[n]) = at(n)}
<1>3. 0 \in T
  <2>1. f[0] = << >> /\ 0 \in 0 .. N
    BY <1>1, <1>2 DEF IsCollecting
  <2>2. TracksIn(<< >>) = {} /\ at(0) = {}
    BY DEF TracksIn, Members
  <2> QED
    BY <2>1, <2>2
<1>4. ASSUME NEW n \in 0 .. N - 1, n \in T PROVE n + 1 \in T
  <2> DEFINE m == n + 1
             own == CuesOf(points[m])
             there == TracksIn(points[m].positions)
  <2>1. m \in 1 .. N /\ m \in 0 .. N /\ m # 0 /\ m - 1 = n /\ n \in 0 .. N
    BY <1>1
  <2>2. f[m] = f[n] \o own
    BY <1>2, <2>1 DEF IsCollecting, With
  <2>3. own \in Seq(Cue) /\ TracksIn(own) = there \cap Numbers
    BY <1>1, <2>1, CuesOfPoint
  <2>4. f[n] \in Seq(Cue)
    BY <2>1
  <2>5. 1 .. m = (1 .. n) \cup {m}
    BY <2>1
  <2> HIDE DEF m, own
  <2>6. TracksIn(f[m]) = TracksIn(f[n]) \cup TracksIn(own)
    BY <2>2, <2>3, <2>4, TracksInConcat
  <2>7. at(m) = at(n) \cup (there \cap Numbers)
    <3>1. \A t : t \in upTo(m) <=> \E j \in 1 .. m : t \in TracksIn(points[j].positions)
      OBVIOUS
    <3>2. \A t : t \in upTo(n) <=> \E j \in 1 .. n : t \in TracksIn(points[j].positions)
      OBVIOUS
    <3>3. \A t : t \in upTo(m) <=> t \in upTo(n) \/ t \in there
      BY <2>5, <3>1, <3>2
    <3> HIDE DEF upTo, there
    <3> QED
      BY <3>3
  <2> HIDE DEF at, there
  <2>8. TracksIn(f[n]) = at(n)
    BY <1>4
  <2>9. TracksIn(f[m]) = at(m)
    BY <2>3, <2>6, <2>7, <2>8
  <2> QED
    BY <2>1, <2>9 DEF m
<1>5. N \in T
  <2> HIDE DEF T
  <2>1. 0 .. N \subseteq T
    BY <1>1, <1>3, <1>4, Upto
  <2> QED
    BY <1>1, <2>1
<1>6. at(N) = TracksAt(points) \cap Numbers
  BY <1>1 DEF TracksAt
<1>7. TracksIn(f[N]) = at(N)
  BY <1>5
<1> QED
  BY <1>2, <1>6, <1>7

(* A number of frames is that of a tag that names the track.               *)
LEMMA CountsAreOfTags ==
  ASSUME NEW tags \in Seq(Tag), NEW u \in DOMAIN FrameCounts(tags)
  PROVE  \E j \in DOMAIN tags : FrameCounts(tags)[u] \in tags[j].frames /\ u \in tags[j].uids
<1> DEFINE counted == {k \in DOMAIN tags : u \in tags[k].uids /\ tags[k].frames # {}}
           latest == CHOOSE k \in counted : \A j \in counted : j <= k
<1>1. counted # {} /\ FrameCounts(tags)[u] = CHOOSE n \in tags[latest].frames : TRUE
  BY DEF FrameCounts
<1>2. Len(tags) \in Nat /\ counted \in SUBSET (1 .. Len(tags))
  OBVIOUS
<1>3. \E k \in counted : \A j \in counted : j <= k
  <2> HIDE DEF counted
  <2> QED
    BY <1>1, <1>2, GreatestNumber
<1>4. latest \in counted
  <2> HIDE DEF counted
  <2> QED
    BY <1>3
<1>5. tags[latest].frames # {}
  BY <1>4
<1>6. (CHOOSE n \in tags[latest].frames : TRUE) \in tags[latest].frames
  <2> DEFINE F == tags[latest].frames
  <2>1. F # {}
    BY <1>5
  <2> HIDE DEF F
  <2>2. (CHOOSE n \in F : TRUE) \in F
    BY <2>1
  <2> QED
    BY <2>2 DEF F
<1> HIDE DEF latest
<1> QED
  BY <1>1, <1>4, <1>6

(* The language kept is the one written last.                              *)
LEMMA LanguageKept ==
  ASSUME NEW e \in TrackEntry
  PROVE  Language(e) = WrittenLast(e) \ {"und"}
<1> DEFINE s == e.languages
           n == Len(s)
<1>1. n \in Nat /\ DOMAIN s = 1 .. n /\ (s = << >> <=> n = 0)
  <2>1. s \in Seq({"legacy", "bcp47"} \X STRING)
    BY DEF TrackEntry
  <2> HIDE DEF s
  <2> QED
    BY <2>1, EmptySeq, LenProperties
<1>2. WrittenLast(e) = {s[k][2] : k \in {j \in 1 .. n : \A i \in 1 .. n : i <= j}}
  BY <1>1 DEF WrittenLast
<1>3. Language(e) = IF n = 0 THEN {} ELSE {s[n][2]} \ {"und"}
  BY <1>1 DEF Language
<1> HIDE DEF s, n
<1>4. CASE n = 0
  <2>1. 1 .. n = {}
    BY <1>4
  <2> QED
    BY <1>2, <1>3, <1>4, <2>1
<1>5. CASE n # 0
  <2>1. {j \in 1 .. n : \A i \in 1 .. n : i <= j} = {n}
    BY <1>1, <1>5
  <2> QED
    BY <1>2, <1>3, <1>5, <2>1
<1> QED
  BY <1>4, <1>5

(* MetadataInv speaks of the file, which stays, and of what was parsed.    *)
LEMMA MetadataInvPrimed ==
  ASSUME file \in OpenedFiles, file' = file,
         Healthy /\ ~ failed' => phase' # "err",
         file.kind = "mkv" /\ Healthy /\ ~ failed' =>
           /\ phase' \in {"detect", "ebml", "segment", "tracks", "info", "cues", "tags",
                          "open", "ready"}
           /\ phase' \notin {"tags", "open", "ready"} => cuePoints' = << >>
           /\ phase' \notin {"detect", "ebml", "segment", "tracks"} => EntriesFit(entries')
           /\ phase' \in {"tags", "open", "ready"} => CuesFit(cuePoints', entries')
           /\ CountsFit(frameCounts')
  PROVE  MetadataInv'
<1>1. Healthy' = Healthy
  <2>1. HealthyTs' = HealthyTs
    BY DEF HealthyTs, InPackets, Packet, Walked, Tables
  <2>2. HealthyMkv' = HealthyMkv
    BY DEF HealthyMkv, RightlyListed, Reached, Lists, Walkable, FirstOf
  <2> QED
    BY <2>1, <2>2 DEF Healthy
<1>2. \A id : Reached(id)' = Reached(id)
  BY DEF Reached, Lists, Walkable, FirstOf
<1>3. EntriesFit(entries)' = EntriesFit(entries')
  BY <1>2 DEF EntriesFit
<1>4. CuesFit(cuePoints, entries)' = CuesFit(cuePoints', entries')
  <2>1. FileTracks' = FileTracks
    BY <1>2 DEF FileTracks, TracksAt, TracksIn, Members
  <2>2. TracksIn(cuePoints)' = TracksIn(cuePoints') /\ NumbersOf(entries)' = NumbersOf(entries')
    BY DEF TracksIn, Members, NumbersOf
  <2> QED
    BY <2>1, <2>2 DEF CuesFit
<1>5. CountsFit(frameCounts)' = CountsFit(frameCounts')
  BY <1>2 DEF CountsFit
<1> QED
  BY <1>1, <1>3, <1>4, <1>5 DEF MetadataInv

LEMMA MetadataInvInit ==
  ASSUME Init
  PROVE  MetadataInv
BY DEF Init, MkvInit, MetadataInv, CountsFit

(* Where the opening of a Matroska file that is as it should be stands.    *)
Sound == /\ LayoutInv /\ MetadataInv /\ file \in OpenedFiles /\ file.kind = "mkv"
         /\ Healthy /\ ~ failed /\ HealthyMkv /\ RightlyListed

(* Tracks is found, and there is a PGS track in it.                        *)
LEMMA TracksParsed ==
  ASSUME Sound, phase = "tracks"
  PROVE  /\ PgsEntries # {}
         /\ \A pgs \in PgsEntries : EntriesFit(KeptOf(pgs))
<1>1. layout["Tracks"] = Reached("Tracks") /\ "Tracks" \in Noted \ {"Tags", "Cluster"}
  BY DEF Sound, LayoutInv, Noted
<1>2. PICK k \in Reached("Tracks") : \E j \in DOMAIN file.elements[k].body :
                                       file.elements[k].body[j].pgs
  BY DEF Sound, HealthyMkv
<1>3. /\ k \in DOMAIN file.elements /\ file.elements[k] \in Element("Tracks")
      /\ file.elements[k].id = "Tracks"
  BY <1>1, ReachedElement DEF Sound
<1> DEFINE body == file.elements[k].body
           pgs == PgsOf(body)
<1>4. body \in Seq(TrackEntry)
  BY <1>3, BodiesTyped DEF Sound
<1>5. pgs \in Seq(TrackEntry) /\ Members(pgs) = {e \in Members(body) : e.pgs}
  BY <1>4, PgsOfSelects
<1>6. pgs # << >>
  <2>1. Members(pgs) # {}
    BY <1>2, <1>5 DEF Members
  <2> HIDE DEF pgs
  <2> QED
    BY <2>1 DEF Members
<1>7. \A i \in DOMAIN pgs : pgs[i].number # {}
  <2>1. \A j \in DOMAIN body : body[j].number # {}
    BY DEF Sound, HealthyMkv
  <2>2. \A e \in Members(body) : e.number # {}
    BY <2>1 DEF Members
  <2> HIDE DEF pgs, body
  <2>3. \A i \in DOMAIN pgs : pgs[i] \in Members(body)
    BY <1>5 DEF Members
  <2> QED
    BY <2>2, <2>3
<1>8. pgs \in PgsEntries
  BY <1>3, <1>6, <1>7 DEF PgsEntries, PgsOf
<1>9. \A p \in PgsEntries : EntriesFit(KeptOf(p))
  <2> SUFFICES ASSUME NEW p \in PgsEntries, NEW m \in Reached("Tracks")
               PROVE  KeptOf(p) = KeptOf(PgsOf(file.elements[m].body))
    BY DEF EntriesFit
  <2>1. PICK t \in Element("Tracks") : p = PgsOf(t.body)
    BY DEF PgsEntries, PgsOf
  <2>2. PICK i \in Reached("Tracks") : t = file.elements[i]
    BY <1>1, ElementReached
  <2>3. i = m
    BY FirstIsOne DEF Sound, Reached
  <2> QED
    BY <2>1, <2>2, <2>3
<1> QED
  BY <1>8, <1>9

(* The cues are those of the Cues reached, if any.                         *)
LEMMA CuesParsed ==
  ASSUME Sound, phase = "cues"
  PROVE  /\ layout["Cues"] = {} => CuesFit(<< >>, entries)
         /\ layout["Cues"] # {} => Element("Cues") # {}
         /\ \A c \in Element("Cues") : CuesFit(Cues(c.body), entries)
<1>1. layout["Cues"] = Reached("Cues") /\ "Cues" \in Noted \ {"Tags", "Cluster"}
  BY DEF Sound, LayoutInv, Noted
<1>2. ASSUME Reached("Cues") = {}
      PROVE  CuesFit(<< >>, entries)
  BY <1>2 DEF CuesFit, FileTracks, TracksIn, Members
<1>3. \A k \in Reached("Cues") : file.elements[k] \in Element("Cues")
  BY <1>1, ReachedElement DEF Sound
<1>4. ASSUME NEW c \in Element("Cues")
      PROVE  CuesFit(Cues(c.body), entries)
  <2>1. PICK k \in Reached("Cues") : k \in DOMAIN file.elements /\ c = file.elements[k] /\ c.id = "Cues"
    BY <1>1, ElementReached
  <2>2. Reached("Cues") = {k}
    BY FirstIsOne DEF Sound, Reached
  <2>3. c.body \in Seq(CuePoint)
    BY <2>1, BodiesTyped DEF Sound
  <2>4. TracksIn(Cues(c.body)) = TracksAt(c.body) \cap Numbers
    BY <2>3, CuesAreOfTracks
  <2>5. FileTracks = TracksAt(c.body)
    BY <2>1, <2>2 DEF FileTracks
  <2>6. Numbers = NumbersOf(entries)
    BY DEF Numbers, NumbersOf
  <2> QED
    BY <2>4, <2>5, <2>6 DEF CuesFit
<1> QED
  BY <1>1, <1>2, <1>3, <1>4

(* The numbers of frames are those of the Tags reached.                    *)
LEMMA TagsParsed ==
  ASSUME Sound, phase = "tags", NEW t \in Element("Tags")
  PROVE  CountsFit(FrameCounts(t.body))
<1>1. layout["Tags"] = Reached("Tags") /\ "Tags" \in Noted
  BY DEF Sound, LayoutInv, Noted
<1>2. PICK k \in Reached("Tags") : k \in DOMAIN file.elements /\ t = file.elements[k] /\ t.id = "Tags"
  BY <1>1, ElementReached
<1>3. t.body \in Seq(Tag)
  BY <1>2, BodiesTyped DEF Sound
<1>4. \A u \in DOMAIN FrameCounts(t.body) : \E j \in DOMAIN t.body :
        FrameCounts(t.body)[u] \in t.body[j].frames /\ u \in t.body[j].uids
  BY <1>3, CountsAreOfTags
<1> QED
  BY <1>2, <1>4 DEF CountsFit

(* Info is found if it is noted.                                           *)
LEMMA InfoParsed ==
  ASSUME Sound, phase = "info", layout["Info"] # {}
  PROVE  Element("Info") # {}
<1>1. layout["Info"] = Reached("Info") /\ "Info" \in Noted \ {"Tags", "Cluster"}
  BY DEF Sound, LayoutInv, Noted
<1>2. PICK k \in Reached("Info") : TRUE
  BY <1>1
<1>3. file.elements[k] \in Element("Info")
  BY <1>1, ReachedElement DEF Sound
<1> QED
  BY <1>3

(* The steps of a Matroska file that is as it should be.                   *)
LEMMA SoundStep ==
  ASSUME Sound, ~ failed', Step
  PROVE  MetadataInv'
<1>1. file' = file /\ file \in OpenedFiles /\ file.kind = "mkv" /\ Healthy
  <2>1. [Next]_vars
    BY DEF Next
  <2> QED
    BY <2>1, FileStays DEF Sound
<1>0. /\ phase \notin {"tags", "open", "ready"} => cuePoints = << >>
      /\ phase \notin {"detect", "ebml", "segment", "tracks"} => EntriesFit(entries)
      /\ phase \in {"tags", "open", "ready"} => CuesFit(cuePoints, entries)
      /\ CountsFit(frameCounts)
  BY DEF Sound, MetadataInv
<1>2. CASE Detect
  <2>1. phase = "detect" /\ phase' = "ebml" /\ UNCHANGED << entries, cuePoints, frameCounts >>
    BY <1>1, <1>2, ElementsTyped DEF Detect, Detected, GoTo, mkvVars
  <2> QED
    BY <1>0, <1>1, <2>1, MetadataInvPrimed
<1>3. CASE NoteTimeRange
  <2>1. phase = "open" /\ phase' = "ready" /\ UNCHANGED << entries, cuePoints, frameCounts >>
    BY <1>3 DEF NoteTimeRange, GoTo, mkvVars
  <2> QED
    BY <1>0, <1>1, <2>1, MetadataInvPrimed
<1>4. CASE ParseHeader
  <2>1. phase = "ebml" /\ phase' = "segment" /\ UNCHANGED << entries, cuePoints, frameCounts >>
    BY <1>4 DEF ParseHeader, GoTo, mkvVars, Sound, HealthyMkv
  <2> QED
    BY <1>0, <1>1, <2>1, MetadataInvPrimed
<1>5. CASE WalkSeekHead
  <2>1. walk \in DOMAIN file.elements /\ file.elements[walk].id = "SeekHead"
    <3>1. walk \in 1 .. Len(file.elements) + 1 /\ walk <= Len(file.elements)
      BY <1>1, <1>5 DEF WalkSeekHead, Sound, LayoutInv
    <3>2. Len(file.elements) \in Nat /\ DOMAIN file.elements = 1 .. Len(file.elements)
      BY <1>1, ElementsTyped
    <3> QED
      BY <1>5, <3>1, <3>2 DEF WalkSeekHead
  <2>2. file.elements[walk].good
    BY <2>1 DEF Sound, HealthyMkv
  <2>3. phase = "segment" /\ phase' = "segment" /\ UNCHANGED << entries, cuePoints, frameCounts >>
    BY <1>5, <2>2 DEF WalkSeekHead, GoTo
  <2> QED
    BY <1>0, <1>1, <2>3, MetadataInvPrimed
<1>6. CASE WalkElement \/ WalkEnds
  <2>1. /\ phase = "segment" /\ phase' \in {"segment", "tracks"}
        /\ UNCHANGED << entries, cuePoints, frameCounts >>
    BY <1>6 DEF WalkElement, WalkEnds, GoTo, mkvVars
  <2> QED
    BY <1>0, <1>1, <2>1, MetadataInvPrimed
<1>7. CASE ParseTracks
  <2>1. phase = "tracks" /\ phase' = "info" /\ UNCHANGED << cuePoints, frameCounts >>
    BY <1>7 DEF ParseTracks, GoTo
  <2>2. PICK pgs \in PgsEntries : entries' = KeptOf(pgs)
    BY <1>7 DEF ParseTracks, KeptOf
  <2>3. EntriesFit(entries')
    BY <2>1, <2>2, TracksParsed
  <2> QED
    BY <1>0, <1>1, <2>1, <2>3, MetadataInvPrimed
<1>8. CASE ParseInfo
  <2>1. phase = "info" /\ phase' = "cues" /\ UNCHANGED << entries, cuePoints, frameCounts >>
    BY <1>8 DEF ParseInfo, GoTo
  <2> QED
    BY <1>0, <1>1, <2>1, MetadataInvPrimed
<1>9. CASE ParseCues
  <2>1. phase = "cues" /\ phase' = "tags" /\ UNCHANGED << entries, frameCounts >>
    BY <1>9 DEF ParseCues, GoTo
  <2>2. CuesFit(cuePoints', entries)
    BY <1>0, <1>9, <2>1, CuesParsed DEF ParseCues
  <2>3. EntriesFit(entries') /\ CuesFit(cuePoints', entries')
    BY <1>0, <2>1, <2>2
  <2> QED
    BY <1>0, <1>1, <2>1, <2>3, MetadataInvPrimed
<1>10. CASE ElementFails
  BY <1>10, TracksParsed, CuesParsed, InfoParsed DEF ElementFails
<1>11. CASE ParseTags
  <2>1. phase = "tags" /\ phase' = "open" /\ UNCHANGED << entries, cuePoints >>
    BY <1>11 DEF ParseTags, GoTo
  <2>2. CountsFit(frameCounts')
    BY <1>0, <1>11, <2>1, TagsParsed DEF ParseTags
  <2> QED
    BY <1>0, <1>1, <2>1, <2>2, MetadataInvPrimed
<1> QED
  BY <1>1, <1>2, <1>3, <1>4, <1>5, <1>6, <1>7, <1>8, <1>9, <1>10, <1>11 DEF Step, MkvStep

(* All of it, and the subtitle files, of which nothing is read.            *)
DescriptionInv == LayoutInv /\ TablesInv /\ MetadataInv
          /\ (file.kind \notin {"ts", "mkv"} /\ Healthy /\ ~ failed =>
                phase \in {"detect", "open", "ready"})

LEMMA DescriptionInvNext ==
  ASSUME DescriptionInv, [Next]_vars
  PROVE  DescriptionInv'
<1>1. LayoutInv' /\ TablesInv' /\ file' = file /\ file \in OpenedFiles
  BY LayoutInvNext, TablesInvNext, FileStays DEF DescriptionInv, LayoutInv
<1>2. Healthy' = Healthy
  BY <1>1 DEF Healthy, HealthyTs, HealthyMkv, RightlyListed, Reached, Lists, Walkable, FirstOf,
         InPackets, Packet, Walked, Tables
<1>3. CASE failed' \/ ~ Healthy
  BY <1>1, <1>2, <1>3, MetadataInvPrimed DEF DescriptionInv
<1>4. CASE ~ failed' /\ Healthy
  <2>1. CASE Fault
    <3>1. file.kind = "ts"
      BY <1>4, <2>1 DEF Fault, ReadError, DetectPacketsFails, MkvFault, WalkBreaks
    <3>2. phase' # "err"
      BY <1>1, <1>2, <1>4, <3>1 DEF TablesInv
    <3> QED
      BY <1>1, <3>1, <3>2, MetadataInvPrimed DEF DescriptionInv
  <2>2. CASE Step
    <3>1. ~ failed
      BY <1>4, <2>2 DEF Step, Detect, NoteTimeRange, GoTo, shared, M2tsStep, FindPat, FindPmt,
        TableFails, ApplyClpi, FindLastPts, SetTimeRange, Probe, Settle, MkvStep, ParseHeader,
        WalkSeekHead, WalkElement, WalkEnds, ParseTracks, ParseInfo, ParseCues, ElementFails,
        ParseTags
    <3>2. CASE file.kind = "ts"
      <4>1. phase' # "err"
        BY <1>1, <1>2, <1>4, <3>2 DEF TablesInv
      <4> QED
        BY <1>1, <3>2, <4>1, MetadataInvPrimed DEF DescriptionInv
    <3>3. CASE file.kind = "mkv"
      <4>1. Sound
        BY <1>1, <1>4, <3>1, <3>3 DEF Sound, Healthy, HealthyMkv, DescriptionInv
      <4>2. MetadataInv'
        BY <1>4, <2>2, <4>1, SoundStep
      <4> QED
        BY <1>1, <3>3, <4>2 DEF DescriptionInv
    <3>4. CASE file.kind \notin {"ts", "mkv"}
      <4>1. phase \in {"detect", "open", "ready"}
        BY <1>4, <3>1, <3>4 DEF DescriptionInv
      <4>2. phase' \in {"open", "ready"}
        <5>1. CASE Detect
          BY <1>4, <3>4, <5>1 DEF Detect, Detected, GoTo, InPackets, Healthy
        <5>2. CASE NoteTimeRange
          BY <5>2 DEF NoteTimeRange, GoTo
        <5> QED
          BY <2>2, <3>4, <5>1, <5>2 DEF Step
      <4> QED
        BY <1>1, <3>4, <4>2, MetadataInvPrimed DEF DescriptionInv
    <3> QED
      BY <3>2, <3>3, <3>4
  <2>3. CASE UNCHANGED vars
    <3>1. UNCHANGED << phase, failed, entries, cuePoints, frameCounts >>
      BY <2>3 DEF vars, shared, mkvVars
    <3>2. MetadataInv'
      <4>1. MetadataInv
        BY DEF DescriptionInv
      <4> QED
        BY <1>1, <3>1, <4>1, MetadataInvPrimed DEF MetadataInv
    <3> QED
      BY <1>1, <1>2, <3>1, <3>2 DEF DescriptionInv
  <2> QED
    BY <2>1, <2>2, <2>3 DEF Next
<1> QED
  BY <1>3, <1>4

LEMMA DescriptionInvInit ==
  ASSUME Init
  PROVE  DescriptionInv
BY LayoutInvInit, TablesInvInit, MetadataInvInit DEF DescriptionInv, Init

(* What was kept describes the PGS tracks of Tracks.                       *)
LEMMA KeptDescribe ==
  ASSUME MetadataInv, file.kind = "mkv", Opened, Healthy, ~ failed, NEW k \in Reached("Tracks"),
         NEW pgs, pgs = PgsOf(file.elements[k].body)
  PROVE  /\ Len(entries) = Len(pgs)
         /\ \A j \in DOMAIN pgs : DescribesMkv(TrackInfo(entries[j]), pgs[j])
<1>1. /\ file \in OpenedFiles /\ entries = KeptOf(pgs) /\ CuesFit(cuePoints, entries)
      /\ CountsFit(frameCounts)
  BY DEF MetadataInv, Opened, EntriesFit
<1>2. pgs \in Seq(TrackEntry)
  <2>1. k \in DOMAIN file.elements /\ file.elements[k].id = "Tracks"
    BY DEF Reached, FirstOf
  <2> QED
    BY <1>1, <2>1, BodiesTyped, PgsOfSelects
<1>3. Len(pgs) \in Nat /\ DOMAIN pgs = 1 .. Len(pgs)
  BY <1>2, LenProperties
<1>4. DOMAIN entries = DOMAIN pgs /\ Len(entries) = Len(pgs)
  BY <1>1, <1>3 DEF KeptOf
<1>5. ASSUME NEW j \in DOMAIN pgs
      PROVE  DescribesMkv(TrackInfo(entries[j]), pgs[j])
  <2> DEFINE e == pgs[j]
             t == TrackInfo(entries[j])
             cues == UNION {{file.elements[i].body[l].positions :
                              l \in DOMAIN file.elements[i].body} : i \in Reached("Cues")}
  <2>1. e \in TrackEntry
    BY <1>2, <1>3
  <2>2. /\ entries[j].number = e.number /\ entries[j].uid = e.uid
        /\ entries[j].language = Language(e)
    BY <1>1 DEF KeptOf
  <2>3. /\ t.id = e.number /\ t.language = Language(e)
        /\ t.sets = UNION {{frameCounts[u]} : u \in e.uid \cap DOMAIN frameCounts}
        /\ t.cued = \E i \in DOMAIN cuePoints : cuePoints[i].trk \in e.number
    BY <2>2 DEF TrackInfo
  <2> HIDE DEF e, t, cues
  <2>4. t.language = WrittenLast(e) \ {"und"}
    BY <2>1, <2>3, LanguageKept
  <2>5. t.cued = (\E c \in cues : \E i \in DOMAIN c : c[i].trk \in e.number)
    <3>2. \A n \in e.number : n \in NumbersOf(entries)
      BY <1>4, <2>2 DEF NumbersOf, e
    <3>3. \A n : n \in FileTracks <=> \E c \in cues : \E i \in DOMAIN c : c[i].trk = n
      <4>1. \A c, n : n \in TracksIn(c) <=> \E i \in DOMAIN c : c[i].trk = n
        BY DEF TracksIn, Members
      <4>2. \A i, n : n \in TracksAt(file.elements[i].body) <=>
              \E l \in DOMAIN file.elements[i].body :
                 n \in TracksIn(file.elements[i].body[l].positions)
        BY DEF TracksAt
      <4>3. \A n : n \in FileTracks <=>
              \E i \in Reached("Cues") : n \in TracksAt(file.elements[i].body)
        BY DEF FileTracks
      <4>4. \A c : c \in cues <=>
              \E i \in Reached("Cues") : \E l \in DOMAIN file.elements[i].body :
                 c = file.elements[i].body[l].positions
        BY DEF cues
      <4>5. \A n : n \in FileTracks <=> \E c \in cues : n \in TracksIn(c)
        <5>1. ASSUME NEW n, NEW i \in Reached("Cues"), NEW l \in DOMAIN file.elements[i].body,
                     n \in TracksIn(file.elements[i].body[l].positions)
              PROVE  \E c \in cues : n \in TracksIn(c)
          BY <4>4, <5>1
        <5>2. ASSUME NEW n, NEW c \in cues, n \in TracksIn(c)
              PROVE  \E i \in Reached("Cues") : \E l \in DOMAIN file.elements[i].body :
                        n \in TracksIn(file.elements[i].body[l].positions)
          BY <4>4, <5>2
        <5>3. ASSUME NEW n, n \in FileTracks
              PROVE  \E i \in Reached("Cues") : \E l \in DOMAIN file.elements[i].body :
                        n \in TracksIn(file.elements[i].body[l].positions)
          BY <4>2, <4>3, <5>3
        <5>4. ASSUME NEW n, NEW i \in Reached("Cues"), NEW l \in DOMAIN file.elements[i].body,
                     n \in TracksIn(file.elements[i].body[l].positions)
              PROVE  n \in FileTracks
          BY <4>2, <4>3, <5>4
        <5> QED
          BY <5>1, <5>2, <5>3, <5>4
      <4> QED
        BY <4>1, <4>5
    <3>4. \A n \in e.number :
            n \in TracksIn(cuePoints) <=> \E c \in cues : \E i \in DOMAIN c : c[i].trk = n
      BY <1>1, <3>2, <3>3 DEF CuesFit
    <3> DEFINE written == \E c \in cues : \E i \in DOMAIN c : c[i].trk \in e.number
               kept == \E i \in DOMAIN cuePoints : cuePoints[i].trk \in e.number
    <3>5. kept <=> \E n \in e.number : n \in TracksIn(cuePoints)
      BY DEF TracksIn, Members
    <3>6. written <=> \E n \in e.number : \E c \in cues : \E i \in DOMAIN c : c[i].trk = n
      OBVIOUS
    <3>7. kept <=> written
      BY <3>4, <3>5, <3>6
    <3>8. kept \in BOOLEAN /\ written \in BOOLEAN /\ t.cued = kept
      BY <2>3
    <3> HIDE DEF kept, written
    <3>9. t.cued = written
      BY <3>7, <3>8
    <3> QED
      BY <3>9 DEF written
  <2>6. \A n \in t.sets : \E i \in Reached("Tags") : \E l \in DOMAIN file.elements[i].body :
          n \in file.elements[i].body[l].frames /\ file.elements[i].body[l].uids \cap e.uid # {}
    <3> SUFFICES ASSUME NEW u \in e.uid \cap DOMAIN frameCounts
                 PROVE  \E i \in Reached("Tags") : \E l \in DOMAIN file.elements[i].body :
                          /\ frameCounts[u] \in file.elements[i].body[l].frames
                          /\ file.elements[i].body[l].uids \cap e.uid # {}
      BY <2>3
    <3>1. PICK i \in Reached("Tags") : \E l \in DOMAIN file.elements[i].body :
            frameCounts[u] \in file.elements[i].body[l].frames /\ u \in file.elements[i].body[l].uids
      BY <1>1 DEF CountsFit
    <3> QED
      BY <3>1
  <2>7. DescribesMkv(t, e)
    BY <2>3, <2>4, <2>5, <2>6 DEF DescribesMkv, cues
  <2> QED
    BY <2>7 DEF t, e
<1> QED
  BY <1>4, <1>5

LEMMA DescriptionInvDescribes ==
  ASSUME DescriptionInv
  PROVE  HealthyFilesOpen /\ TracksDescribeFile
<1>1. HealthyFilesOpen
  BY DEF DescriptionInv, MetadataInv, HealthyFilesOpen
<1>2. ASSUME Opened, Healthy, ~ failed, file.kind = "ts"
      PROVE  \A p \in Tables : p.pid = 0 => DescribesTs(p)
  BY <1>2 DEF DescriptionInv, TablesInv, Opened
<1>3. ASSUME Opened, Healthy, ~ failed, file.kind = "mkv", NEW k \in Reached("Tracks")
      PROVE  LET body == file.elements[k].body
                 pgs == Only(body, {e \in Members(body) : e.pgs})
             IN  /\ Len(entries) = Len(pgs)
                 /\ \A j \in DOMAIN pgs : DescribesMkv(TrackInfo(entries[j]), pgs[j])
  <2> DEFINE pgs == PgsOf(file.elements[k].body)
  <2>1. /\ Len(entries) = Len(pgs)
        /\ \A j \in DOMAIN pgs : DescribesMkv(TrackInfo(entries[j]), pgs[j])
    BY <1>3, KeptDescribe DEF DescriptionInv
  <2> QED
    BY <2>1 DEF PgsOf
<1>4. TracksDescribeFile
  BY <1>2, <1>3 DEF TracksDescribeFile
<1> QED
  BY <1>1, <1>4

(* Extractor::open (lib.rs) refuses no file that is as it should be, unless *)
(* a read fails: tables in sync and within the limits are found, and so are *)
(* Tracks, Info and Cues wherever they stand or are listed.                 *)
THEOREM HealthyFilesAreOpened == Spec => []HealthyFilesOpen
<1>1. Init => DescriptionInv
  BY DescriptionInvInit
<1>2. DescriptionInv /\ [Next]_vars => DescriptionInv'
  BY DescriptionInvNext
<1>3. DescriptionInv => HealthyFilesOpen
  BY DescriptionInvDescribes
<1> QED
  BY <1>1, <1>2, <1>3, PTL DEF Spec

(* tracks() describes the PGS tracks of the file: m2ts/mod.rs and           *)
(* mkv/tracks.rs, whatever the order of the elements, tables and languages. *)
THEOREM TracksAreDescribed == Spec => []TracksDescribeFile
<1>1. Init => DescriptionInv
  BY DescriptionInvInit
<1>2. DescriptionInv /\ [Next]_vars => DescriptionInv'
  BY DescriptionInvNext
<1>3. DescriptionInv => TracksDescribeFile
  BY DescriptionInvDescribes
<1> QED
  BY <1>1, <1>2, <1>3, PTL DEF Spec
=============================================================================

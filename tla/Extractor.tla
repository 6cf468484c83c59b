----------------------------- MODULE Extractor -----------------------------
(***************************************************************************)
(* The Extractor of src/src/lib.rs: a builder (with_mkv_strategy,          *)
(* with_track_filter, with_history, with_time_range), then an iterator     *)
(* over the display sets of a container scanner, with a history of what    *)
(* was handed out and a batch drain, collect_by_track.                     *)
(*                                                                         *)
(* The scanner is the TrackStreams its implementations promise (see        *)
(* M2tsRefinement); left, given and ended are its state, and opening the   *)
(* file again replaces it.  An Option is a set of at most one value.       *)
(***************************************************************************)
EXTENDS Selection

CONSTANTS Tracks,      (* track ids; 0 is the only track of a SUP file     *)
          Files,       (* the files: format, content of each track, and    *)
                       (* whether there are enough cue points and cores    *)
                       (* for the parallel collect                         *)
          Filters,     (* the arguments of with_track_filter               *)
          Ranges,      (* the arguments of with_time_range                 *)
          MaxSetup,    (* bound on the number of builder calls             *)
          MayFail,     (* whether opening or reading the file may fail     *)
          AnyOrder     (* whether builder calls come in any order, or each *)
                       (* strategy before each filter before each range    *)

(* A display set as far as the Extractor looks at it: its track, its place *)
(* on the track and its time.                                              *)
Scanned == [trk : Tracks, n : Nat, pts : Nat]

(* A SUP file has no track but 0 (sup_track_info).                         *)
ASSUME FilesAssumption ==
  \A f \in Files :
    /\ f.content \in [Tracks -> Seq(Scanned)]
    /\ \A t \in Tracks :
         /\ \A k \in 1 .. Len(f.content[t]) : f.content[t][k].trk = t
         /\ f.format = "sup" /\ t # 0 => f.content[t] = << >>
ASSUME FiltersAssumption == \A ids \in Filters : ids \subseteq Tracks
ASSUME RangesAssumption == Ranges \subseteq [lo : SUBSET Nat, hi : SUBSET Nat]
ASSUME MaxSetupAssumption == MaxSetup \in Nat
ASSUME SwitchAssumption == MayFail \in BOOLEAN /\ AnyOrder \in BOOLEAN

VARIABLES file,             (* the file opened; it does not change         *)
          left, given, ended,          (* the scanner                      *)
          inner,            (* "open", or "done": ExtractorInner::Done     *)
          active,           (* the tracks the scanner extracts             *)
          range,            (* time_range_start_ms and time_range_end_ms   *)
          strategy,         (* mkv_strategy                                *)
          historyOn, catalog,
          mode,             (* "setup", "next" (next was called),          *)
                            (* "collect" (in collect_by_track) or "over"   *)
          last,             (* what the last call to next returned         *)
          collected,        (* result of collect_by_track                  *)
          setup,            (* history: the builder calls                  *)
          delivered,        (* history: the items next returned            *)
          byHand,           (* history: how many of them before collect    *)
          drained           (* history: what drain_history returned        *)

scanner == << left, given, ended >>
request == << active, range, strategy >>
books   == << catalog, delivered, drained >>
vars == << file, scanner, inner, request, historyOn, books, mode, last,
           collected, setup, byHand >>

Scanner == INSTANCE TrackStreams WITH Contents <- {f.content : f \in Files}
-----------------------------------------------------------------------------
NoRange == [lo |-> {}, hi |-> {}]
Early(x, r) == \E b \in r.lo : x.pts < b
Late(x, r) == \E b \in r.hi : x.pts > b
Within(r) == {x \in Scanned : ~ Early(x, r) /\ ~ Late(x, r)}

Opened(ids) ==
  [t \in Tracks |-> IF t \in ids THEN file.content[t] ELSE << >>]

(* open: all tracks, no range, history on.                                 *)
Init ==
  /\ file \in Files
  /\ left = file.content /\ given = << >> /\ ended = "more"
  /\ inner = "open"
  /\ active = Tracks /\ range = NoRange /\ strategy = "Auto"
  /\ historyOn = TRUE /\ catalog = << >>
  /\ mode = "setup" /\ last = "nothing" /\ collected = << >>
  /\ setup = << >> /\ delivered = << >> /\ byHand = 0 /\ drained = << >>

-----------------------------------------------------------------------------
(* The builder.  rank is the order of calls in which nothing is lost.      *)
rank == [strategy |-> 1, filter |-> 2, range |-> 3]

Setup(name, ids, r, ok) ==
  /\ mode = "setup" /\ Len(setup) < MaxSetup
  /\ AnyOrder \/ \A k \in DOMAIN setup : rank[setup[k].call] <= rank[name]
  /\ setup' = Append(setup, [call |-> name, ids |-> ids, range |-> r, ok |-> ok])
  /\ UNCHANGED << file, delivered, drained, mode, last, collected, byHand >>

(* open_with_strategy and open_filtered: a new Extractor for these tracks; *)
(* a SUP file without its track 0 has nothing to scan.                     *)
Reopen(ids, s) ==
  /\ left' = Opened(ids) /\ given' = << >> /\ ended' = "more"
  /\ inner' = IF file.format = "sup" /\ 0 \notin ids THEN "done" ELSE "open"
  /\ active' = ids /\ range' = NoRange /\ strategy' = s
  /\ catalog' = << >>
  /\ UNCHANGED historyOn

WithMkvStrategy(s) ==
  IF file.format # "mkv" \/ s = strategy
  THEN UNCHANGED vars
  ELSE \/ /\ Setup("strategy", Tracks, NoRange, TRUE)
          /\ Reopen(Tracks, s)
       \/ /\ MayFail
          /\ Setup("strategy", Tracks, NoRange, FALSE)
          /\ strategy' = s
          /\ UNCHANGED << scanner, inner, active, range, historyOn, catalog >>

WithTrackFilter(ids) ==
  IF ids = {}
  THEN UNCHANGED vars
  ELSE \/ /\ Setup("filter", ids, NoRange, TRUE)
          /\ Reopen(ids, IF file.format = "mkv" THEN strategy ELSE "Auto")
       \/ /\ MayFail
          /\ Setup("filter", ids, NoRange, FALSE)
          /\ UNCHANGED << scanner, inner, request, historyOn, catalog >>

(* The scanner's set_time_range: the MKV scanner leaves out sets before    *)
(* the start and behind the end when it starts; the M2TS and SUP scanners  *)
(* look for a position before the start, and stay where they are when the  *)
(* range has no start.  That the position found is not behind the start is *)
(* assumed here.                                                           *)
Narrowed(r, sets, rest) ==
  \E i, j \in 0 .. Len(sets) :
    /\ i <= j /\ rest = SubSeq(sets, i + 1, j)
    /\ \A k \in 1 .. i : Early(sets[k], r)
    /\ j = Len(sets) \/ file.format = "mkv"
    /\ \A k \in j + 1 .. Len(sets) : Late(sets[k], r)

SubSeqs(sets) == {SubSeq(sets, i + 1, j) : i, j \in 0 .. Len(sets)}

SetTimeRange(r) ==
  \/ /\ inner = "open" /\ (file.format = "mkv" \/ r.lo # {})
     /\ \E new \in [Tracks -> UNION {SubSeqs(Opened(active)[t]) : t \in Tracks}] :
          /\ \A t \in Tracks : Narrowed(r, Opened(active)[t], new[t])
          /\ left' = new
  \/ /\ inner = "done" \/ (file.format # "mkv" /\ r.lo = {})
     /\ UNCHANGED left

WithTimeRange(r) ==
  IF r = NoRange
  THEN UNCHANGED vars
  ELSE /\ Setup("range", Tracks, r, TRUE)
       /\ range' = r
       /\ SetTimeRange(r)
       /\ UNCHANGED << given, ended, inner, active, strategy, historyOn,
                       catalog >>

WithHistory(on) ==
  /\ mode = "setup" /\ on # historyOn
  /\ historyOn' = on
  /\ catalog' = IF on THEN catalog ELSE << >>
  /\ UNCHANGED << file, scanner, inner, request, mode, last, collected, setup,
                  delivered, byHand, drained >>
-----------------------------------------------------------------------------
(* The iterator: next asks the scanner until it can return.                *)
Calling == mode' = IF mode = "setup" THEN "next" ELSE mode
MayCall == mode \in {"setup", "next", "collect"}
OneGiven == given'[Len(given')][2]

OfTrack(t) == {x \in Scanned : x.trk = t}
GroupedByTrack(sets) == [t \in Tracks |-> Only(sets, OfTrack(t))]

(* next returns None or an error; collect_by_track then groups, or fails.  *)
Return(what) ==
  /\ inner' = "done"
  /\ last' = what
  /\ mode' = CASE mode = "collect" -> "over"
               [] mode = "setup" -> "next"
               [] OTHER -> mode
  /\ collected' = IF mode = "collect" /\ what = "none"
                  THEN GroupedByTrack(SubSeq(delivered, byHand + 1, Len(delivered)))
                  ELSE collected
  /\ UNCHANGED << file, request, historyOn, books, setup, byHand >>

(* Mutant of Deliver: the history is written even when it is off.          *)
DeliverAlwaysCataloged(t) ==
  /\ MayCall /\ inner = "open"
  /\ Scanner!Give(t)
  /\ ~ Late(OneGiven, range) /\ ~ Early(OneGiven, range)
  /\ delivered' = Append(delivered, OneGiven)
  /\ catalog' = Append(catalog, OneGiven)
  /\ last' = "item" /\ Calling
  /\ UNCHANGED << file, inner, request, historyOn, drained, collected, setup,
                  byHand >>

Deliver(t) ==
  /\ MayCall /\ inner = "open"
  /\ Scanner!Give(t)
  /\ ~ Late(OneGiven, range) /\ ~ Early(OneGiven, range)
  /\ delivered' = Append(delivered, OneGiven)
  /\ catalog' = IF historyOn THEN Append(catalog, OneGiven) ELSE catalog
  /\ last' = "item" /\ Calling
  /\ UNCHANGED << file, inner, request, historyOn, drained, collected, setup,
                  byHand >>

(* Mutant of SkipEarly: a set before the start ends the iteration.         *)
SkipEarlyStops(t) ==
  /\ MayCall /\ inner = "open"
  /\ Scanner!Give(t)
  /\ ~ Late(OneGiven, range) /\ Early(OneGiven, range)
  /\ Return("none")

SkipEarly(t) ==
  /\ MayCall /\ inner = "open"
  /\ Scanner!Give(t)
  /\ ~ Late(OneGiven, range) /\ Early(OneGiven, range)
  /\ Calling
  /\ UNCHANGED << file, inner, request, historyOn, books, last, collected,
                  setup, byHand >>

(* Mutant of StopLate: the late set is passed over.                        *)
StopLateButStayOpen(t) ==
  /\ MayCall /\ inner = "open"
  /\ Scanner!Give(t)
  /\ Late(OneGiven, range)
  /\ last' = "none" /\ Calling
  /\ UNCHANGED << file, inner, request, historyOn, books, collected, setup,
                  byHand >>

StopLate(t) ==
  /\ MayCall /\ inner = "open"
  /\ Scanner!Give(t)
  /\ Late(OneGiven, range)
  /\ Return("none")

(* Mutant of ScannerEnds: the end of the scanner is not passed on.         *)
ScannerEndsUnreported ==
  /\ MayCall /\ inner = "open"
  /\ Scanner!End
  /\ Calling
  /\ UNCHANGED << file, inner, request, historyOn, books, last, collected,
                  setup, byHand >>

ScannerEnds ==
  /\ MayCall /\ inner = "open"
  /\ Scanner!End
  /\ Return("none")

ScannerFails ==
  /\ MayFail /\ MayCall /\ inner = "open"
  /\ Scanner!Error
  /\ Return("err")

(* next on a finished Extractor.                                           *)
NextWhenDone ==
  /\ MayCall /\ inner = "done"
  /\ Return("none")
  /\ UNCHANGED scanner

(* drain_history; clear_history is the same with the result thrown away.   *)
DrainHistory ==
  /\ mode = "next" /\ catalog # << >>
  /\ drained' = drained \o catalog
  /\ catalog' = << >>
  /\ UNCHANGED << file, scanner, inner, request, historyOn, delivered, mode,
                  last, collected, setup, byHand >>
-----------------------------------------------------------------------------
(* collect_by_track consumes the Extractor: in parallel when nothing was   *)
(* yielded yet, else by calling next to the end.                           *)
(* Mutant of Parallel: the time range is forgotten.                        *)
ParallelIgnoringRange ==
  inner = "open" /\ given = << >> /\ file.format = "mkv" /\ file.manyCues

Parallel == /\ range = NoRange /\ inner = "open" /\ given = << >>
            /\ file.format = "mkv" /\ file.manyCues

CollectInParallel ==
  /\ mode \in {"setup", "next"} /\ Parallel
  /\ \/ /\ last' = "none"
        /\ collected' = Opened(active)
     \/ /\ MayFail /\ last' = "err"
        /\ UNCHANGED collected
  /\ mode' = "over"
  /\ UNCHANGED << file, scanner, inner, request, historyOn, books, setup,
                  byHand >>

CollectByNext ==
  /\ mode \in {"setup", "next"} /\ ~ Parallel
  /\ mode' = "collect"
  /\ byHand' = Len(delivered)
  /\ UNCHANGED << file, scanner, inner, request, historyOn, books, last,
                  collected, setup >>

NextCall == \/ \E t \in Tracks : Deliver(t) \/ SkipEarly(t) \/ StopLate(t)
            \/ ScannerEnds \/ ScannerFails \/ NextWhenDone

Next == \/ \E s \in {"Auto", "Sequential"} : WithMkvStrategy(s)
        \/ \E ids \in Filters : WithTrackFilter(ids)
        \/ \E r \in Ranges : WithTimeRange(r)
        \/ \E on \in BOOLEAN : WithHistory(on)
        \/ NextCall
        \/ DrainHistory \/ CollectInParallel \/ CollectByNext

Spec == Init /\ [][Next]_vars

(* The consumer calls next until it returns None, or collects.             *)
FairSpec == Spec /\ WF_vars(NextCall)
-----------------------------------------------------------------------------
(* What the builder calls ask for: the last filter and the last range.     *)
LastCall(name) ==
  LET at == {k \in DOMAIN setup : setup[k].call = name}
  IN  IF at = {} THEN [ids |-> Tracks, range |-> NoRange]
      ELSE setup[CHOOSE k \in at : \A j \in at : j <= k]
WantedTracks == LastCall("filter").ids
WantedRange == LastCall("range").range
Wanted(t) == IF t \in WantedTracks
             THEN Only(file.content[t], Within(WantedRange))
             ELSE << >>

(* No call that opens the file again after a setting it does not carry     *)
(* over, none that failed to open it, and no range without a start after   *)
(* one with a start: M2TS and SUP files do not go back.                    *)
CarriedOver ==
  \A k \in DOMAIN setup :
    /\ setup[k].ok
    /\ setup[k].call = "strategy" =>
         \A j \in 1 .. k - 1 : setup[j].call = "strategy"
    /\ setup[k].call = "filter" =>
         \A j \in 1 .. k - 1 : setup[j].call # "range"
    /\ setup[k].call = "range" /\ setup[k].range.lo = {} =>
         \A j \in 1 .. k - 1 : setup[j].range.lo = {}

(* What the consumer has got of track t: by next, then by collect.         *)
Received(t) ==
  IF mode = "over" /\ last = "none"
  THEN GroupedByTrack(SubSeq(delivered, 1, byHand))[t] \o collected[t]
  ELSE GroupedByTrack(delivered)[t]

IsPrefixOf(s, t) == Len(s) <= Len(t) /\ s = SubSeq(t, 1, Len(s))
-----------------------------------------------------------------------------
TypeOK ==
  /\ file \in Files
  /\ left \in [Tracks -> Seq(Scanned)]
  /\ given \in Seq(Tracks \X Scanned)
  /\ delivered \in Seq(Scanned)
  /\ catalog \in Seq(Scanned) /\ drained \in Seq(Scanned)
  /\ ended \in {"more", "end", "err"} /\ inner \in {"open", "done"}
  /\ active \subseteq Tracks
  /\ range \in Ranges \cup {NoRange} /\ strategy \in {"Auto", "Sequential"}
  /\ historyOn \in BOOLEAN
  /\ mode \in {"setup", "next", "collect", "over"}
  /\ last \in {"nothing", "item", "none", "err"}
  /\ byHand \in 0 .. Len(delivered)

(* What was delivered so far is, on every track, the beginning of what the *)
(* builder calls asked for: no other track, nothing outside the range,     *)
(* nothing twice and nothing out of order, whichever calls built the       *)
(* Extractor in the order that carries the settings over.                  *)
DeliversOnlyTheRequest ==
  CarriedOver => \A t \in Tracks : IsPrefixOf(Received(t), Wanted(t))

(* The same for every chain of builder calls that succeed: each documents  *)
(* itself as chainable, and as a restriction of what is extracted.         *)
ChainableInAnyOrder ==
  (\A k \in DOMAIN setup : setup[k].ok) =>
    \A t \in Tracks : IsPrefixOf(Received(t), Wanted(t))

(* The times of a track never go back.                                     *)
InOrder(t) == \A j, k \in 1 .. Len(file.content[t]) :
                j <= k => file.content[t][j].pts <= file.content[t][k].pts

(* When the iterator ends without an error nothing asked for is missing,   *)
(* except behind a set past the end, which stops the iteration for all     *)
(* tracks: what is missing is of another track, or its track goes back in  *)
(* time.                                                                   *)
EndsWithTheRequest ==
  CarriedOver /\ last = "none" /\ ended # "err" /\ mode # "collect" =>
    \A t \in Tracks :
      \/ Received(t) = Wanted(t)
      \/ /\ given # << >> /\ Late(given[Len(given)][2], range)
         /\ given[Len(given)][1] # t \/ ~ InOrder(t)

(* The history is what next returned since it was last drained, and empty  *)
(* when it is off.                                                         *)
HistoryIsDelivered ==
  IF historyOn THEN drained \o catalog = delivered
  ELSE catalog = << >> /\ drained = << >>

(* Once next has returned None or an error it never returns an item again. *)
Fused == [][(last = "none" \/ last = "err") => delivered' = delivered]_vars

(* A consumer that keeps calling next comes to the end.                    *)
Terminates == (mode \in {"next", "collect"}) ~> (last \in {"none", "err"})
=============================================================================

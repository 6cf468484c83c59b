---------------------------- MODULE PgsAssembly ----------------------------
(***************************************************************************)
(* The display set assembler of src/src/pgs/display_set.rs as operators:   *)
(* one assembler is a record, a push is a function of the assembler and    *)
(* the segment, and what the push returns is an Option written as a        *)
(* sequence of length at most one.  Every container module (M2TS, MKV,     *)
(* SUP) feeds segments through these operators.                            *)
(*                                                                         *)
(* A segment is a record with at least the fields                          *)
(*    type  - the segment type byte, decoded                               *)
(*    pts   - the 90 kHz presentation time                                 *)
(*    comp  - what composition_state() returns: None for every segment     *)
(*            that is no PCS, and for a PCS whose payload is shorter than  *)
(*            8 bytes or whose state byte is unknown                       *)
(* Bitmaps, palettes and windows are not interpreted here.                 *)
(***************************************************************************)
EXTENDS Selection

SegmentType == {"PCS", "WDS", "PDS", "ODS", "END"}
CompositionState == {"Normal", "AcquisitionPoint", "EpochStart"}
None == "None"

(* The segments the assembler only stores.                                 *)
BodyType == SegmentType \ {"PCS", "END"}

AsmNew == [segments |-> << >>, pts |-> 0, state |-> None]

(* DisplaySetAssembler::reset keeps the last pts.                          *)
AsmReset(a) == [a EXCEPT !.segments = << >>, !.state = None]

(* Mutants of AsmPush: a PCS keeps the partial set before it; END leaves   *)
(* the composition state.                                                  *)
AsmPushKeepPartial(a, s) ==
  CASE s.type = "PCS" ->
         [segments |-> Append(a.segments, s), pts |-> s.pts, state |-> s.comp]
    [] s.type = "END" -> AsmReset(a)
    [] OTHER -> [a EXCEPT !.segments = Append(@, s)]

AsmPushKeepState(a, s) ==
  CASE s.type = "PCS" ->
         [segments |-> << s >>, pts |-> s.pts, state |-> s.comp]
    [] s.type = "END" -> [a EXCEPT !.segments = << >>]
    [] OTHER -> [a EXCEPT !.segments = Append(@, s)]

(* The assembler after push(s).                                            *)
AsmPush(a, s) ==
  CASE s.type = "PCS" ->
         [segments |-> << s >>, pts |-> s.pts, state |-> s.comp]
    [] s.type = "END" -> AsmReset(a)
    [] OTHER -> [a EXCEPT !.segments = Append(@, s)]

(* What push(s) returns: a display set when s ends an open one.            *)
AsmOut(a, s) ==
  IF s.type = "END" /\ a.state # None
  THEN << [pts |-> a.pts, state |-> a.state,
           segments |-> Append(a.segments, s)] >>
  ELSE << >>

(* Pushing several segments one after the other: the assembler after the   *)
(* last one and the display sets returned, in order.                       *)
AsmFeed(a, segs) ==
  LET after[k \in 0 .. Len(segs)] ==
        IF k = 0 THEN a ELSE AsmPush(after[k - 1], segs[k])
      out[k \in 0 .. Len(segs)] ==
        IF k = 0 THEN << >> ELSE out[k - 1] \o AsmOut(after[k - 1], segs[k])
  IN  [asm |-> after[Len(segs)], sets |-> out[Len(segs)]]
-----------------------------------------------------------------------------
(* Several tracks with an assembler each (TrackAssemblers of mkv/mod.rs):  *)
(* an item is the segments of one block and its track.                     *)
Tracked(t, sets) == [k \in DOMAIN sets |-> [trk |-> t, set |-> sets[k]]]

FeedTrack(fed, item) ==
  LET one == AsmFeed(fed.asms[item.trk], item.segments)
  IN  [asms |-> [fed.asms EXCEPT ![item.trk] = one.asm],
       sets |-> fed.sets \o Tracked(item.trk, one.sets)]

(* The assemblers after the last item and the display sets returned.       *)
FeedTracks(asms, items) ==
  LET fed[k \in 0 .. Len(items)] ==
        IF k = 0 THEN [asms |-> asms, sets |-> << >>]
        ELSE CHOOSE r \in {FeedTrack(f, items[k]) : f \in {fed[k - 1]}} : TRUE
  IN  fed[Len(items)]

(* The display sets of track t among those of several tracks.              *)
SetsOfTrack(tracked, t) ==
  LET own == Only(tracked, {y \in Members(tracked) : y.trk = t})
  IN  [k \in DOMAIN own |-> own[k].set]

-----------------------------------------------------------------------------
(* What a display set is, independently of the assembler: a segment log    *)
(* holds one at i..j when it opens with a PCS of known composition state,  *)
(* ends with END, and has only window, palette and object segments         *)
(* between them.                                                           *)
OpenRun(log, i) ==
  /\ i \in 1 .. Len(log)
  /\ log[i].type = "PCS" /\ log[i].comp # None
  /\ \A m \in i + 1 .. Len(log) : log[m].type \in BodyType

IsRun(log, i, j) ==
  /\ i \in 1 .. Len(log) /\ j \in i + 1 .. Len(log)
  /\ log[i].type = "PCS" /\ log[i].comp # None
  /\ log[j].type = "END"
  /\ \A m \in i + 1 .. j - 1 : log[m].type \in BodyType

RunSet(log, i, j) ==
  [pts |-> log[i].pts, state |-> log[i].comp, segments |-> SubSeq(log, i, j)]

(* The display sets of a log, in their order.                              *)
SetsIn(log) ==
  LET upTo[j \in 0 .. Len(log)] ==
        IF j = 0 THEN << >>
        ELSE upTo[j - 1] \o
             (IF \E i \in 1 .. j - 1 : IsRun(log, i, j)
              THEN << RunSet(log, CHOOSE i \in 1 .. j - 1 : IsRun(log, i, j), j) >>
              ELSE << >>)
  IN  upTo[Len(log)]
=============================================================================

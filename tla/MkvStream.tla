----------------------------- MODULE MkvStream -----------------------------
(***************************************************************************)
(* MkvExtractorState of src/src/mkv/stream.rs: the block source is chosen  *)
(* at the first call of next_display_set, either the cue points of the     *)
(* active tracks within the time range or a scan through the Segment;      *)
(* every step reads the blocks of one cue point or one Cluster, feeds them *)
(* to the assemblers, and the display sets wait in a queue.                *)
(***************************************************************************)
EXTENDS MkvExtraction

CONSTANTS Ranges   (* time ranges in milliseconds, bounds as Options       *)
ASSUME RangesAssumption == \A r \in Ranges : r.lo \subseteq Nat /\ r.hi \subseteq Nat

VARIABLES strategy, range,   (* fixed at the start                         *)
          source,    (* "uninit", "cues", "scan" or "done"                 *)
          cues,      (* the cue points followed                            *)
          index,     (* the next cue point, or the next element            *)
          visited,   (* clusters scanned because of a cue point            *)
          asms,      (* DisplaySetAssembler of each active track           *)
          pending, yielded,
          result,    (* "more" until None ("end") or an error ("err")      *)
          pushed,    (* history: ids of the blocks processed, in order     *)
          lost,      (* history: whether a header could not be read        *)
          astray,    (* history: whether the scan started at an estimate   *)
          cued       (* history: FullyCued, for the active tracks          *)

config == << file, active, strategy, range, cued, content >>
vars == << config, source, cues, index, visited, asms, pending, yielded,
           result, pushed, lost, astray >>
-----------------------------------------------------------------------------
(* Milliseconds to ticks, rounded down.                                    *)
ToTicks(ms) == (ms * 1000000) \div TimestampScale

(* Mutant of CueInRange: the end of the range is exclusive.                *)
CueInRangeExclusive(c, r) ==
  /\ \A lo \in r.lo : c.time >= ToTicks(lo)
  /\ \A hi \in r.hi : c.time < ToTicks(hi)

CueInRange(c, r) ==
  /\ \A lo \in r.lo : c.time >= ToTicks(lo)
  /\ \A hi \in r.hi : c.time <= ToTicks(hi)

FilteredCues ==
  Only(file.cues, {c \in Members(file.cues) : c.trk \in active /\ CueInRange(c, range)})

Clusters == {e \in DOMAIN file.elements : file.elements[e].kind = "cluster"}
-----------------------------------------------------------------------------
Init ==
  /\ ChooseFile
  /\ strategy \in {"Auto", "Sequential"} /\ range \in Ranges
  /\ source = "uninit" /\ cues = << >> /\ index = 1 /\ visited = {}
  /\ asms = [t \in active |-> AsmNew]
  /\ pending = << >> /\ yielded = << >>
  /\ result = "more" /\ pushed = << >> /\ lost = FALSE /\ astray = FALSE
  /\ cued = FullyCued(file, active)

Calling == result = "more" /\ pending = << >>

Stop(how) ==
  /\ source' = "done" /\ result' = how
  /\ UNCHANGED << config, cues, index, visited, asms, pending, yielded, pushed >>
Halt(how) == Stop(how) /\ UNCHANGED << lost, astray >>

(* init_source.                                                            *)
ByCues == strategy = "Auto" /\ FilteredCues # << >>

InitSource ==
  /\ Calling /\ source = "uninit" /\ Clusters # {}
  /\ IF ByCues
     THEN source' = "cues" /\ cues' = FilteredCues
     ELSE source' = "scan" /\ UNCHANGED cues
  /\ UNCHANGED << config, index, visited, asms, pending, yielded, result, pushed,
                  lost, astray >>

(* init_source with a start of the range and a Duration: the scan starts   *)
(* 2 MiB before an estimate, at a byte that need not begin an element, and *)
(* so do the probes that choose the estimate.  What the bytes there say is *)
(* followed: to the beginning of some element, to an error, or to bytes    *)
(* that are no header, which count as the end.  (In a file too short for   *)
(* that the scan starts at the first Cluster: InitSource.)                 *)
ScanFromEstimate ==
  /\ Calling /\ source = "uninit" /\ Clusters # {}
  /\ ~ ByCues /\ file.timed /\ range.lo # {}
  /\ \/ /\ source' = "scan"
        /\ index' \in 1 .. Len(file.elements) + 1
        /\ UNCHANGED << config, cues, visited, asms, pending, yielded, result,
                        pushed >>
     \/ \E how \in {"end", "err"} : Stop(how)
  /\ astray' = TRUE
  /\ UNCHANGED lost

InitWithoutClusters ==
  /\ Calling /\ source = "uninit" /\ Clusters = {}
  /\ Halt("err")

(* next_display_set hands out the front of the queue.                      *)
PopPending ==
  /\ result = "more" /\ pending # << >>
  /\ yielded' = Append(yielded, Head(pending))
  /\ pending' = Tail(pending)
  /\ UNCHANGED << config, source, cues, index, visited, asms, result, pushed,
                  lost, astray >>

ProcessBlocks(blocks) ==
  \E fed \in {FeedBlocks(asms, blocks)} :
    /\ asms' = fed.asms
    /\ pending' = pending \o fed.sets
    /\ pushed' = pushed \o [k \in DOMAIN blocks |-> blocks[k].id]

(* advance_source: the next cue point.                                     *)
FollowCue ==
  /\ Calling /\ source = "cues" /\ index <= Len(cues)
  /\ \E read \in {CueBlocks(file.elements, cues[index], active, visited)} :
       /\ ~ read.fails
       /\ visited' = read.visited
       /\ ProcessBlocks(read.blocks)
  /\ index' = index + 1
  /\ UNCHANGED << config, source, cues, yielded, result, lost, astray >>

(* advance_source: the next element of the Segment.  Nothing is read from  *)
(* an element of unknown size on.                                          *)
ScanElement ==
  /\ Calling /\ source = "scan" /\ index <= Len(file.elements)
  /\ LET element == file.elements[index]
     IN  /\ element.known
         /\ ~ CutOff(element, active, TRUE)
         /\ IF element.kind = "cluster"
            THEN \E blocks \in {ScanCluster(element, active)} : ProcessBlocks(blocks)
            ELSE UNCHANGED << asms, pending, pushed >>
  /\ index' = index + 1
  /\ UNCHANGED << config, source, cues, visited, yielded, result, lost, astray >>

(* Mutant of SourceUsedUp: the end of the cue points is not reported.      *)
SourceUsedUpOnlyByScan ==
  /\ Calling
  /\ source = "scan"
  /\ \/ index > Len(file.elements)
     \/ index <= Len(file.elements) /\ ~ file.elements[index].known
  /\ Halt("end")

SourceUsedUp ==
  /\ Calling
  /\ \/ source = "cues" /\ index > Len(cues)
     \/ /\ source = "scan"
        /\ \/ index > Len(file.elements)
           \/ index <= Len(file.elements) /\ ~ file.elements[index].known
  /\ Halt("end")

(* A block that is cut off: nothing of the cue point or Cluster is         *)
(* processed.                                                              *)
MeetCutOff ==
  /\ Calling
  /\ \/ /\ source = "cues" /\ index <= Len(cues)
        /\ CueBlocks(file.elements, cues[index], active, visited).fails
     \/ /\ source = "scan" /\ index <= Len(file.elements)
        /\ file.elements[index].known
        /\ CutOff(file.elements[index], active, TRUE)
  /\ Halt("err")

(* The same with a read or seek that fails.                                *)
ReadFails ==
  /\ MayFail /\ Calling
  /\ \/ source = "cues" /\ index <= Len(cues)
     \/ /\ source = "scan" /\ index <= Len(file.elements)
        /\ file.elements[index].known
     \/ source = "uninit" /\ Clusters # {} /\ ~ ByCues
  /\ Halt("err")

(* The header of an element cannot be read, because of an I/O error or of  *)
(* damage.  No error is returned: inside a Cluster, or where a cue points, *)
(* the blocks before it are all there is; between the elements of the      *)
(* Segment it counts as the end.                                           *)
KeepBlocksBefore(blocks) ==
  \E n \in 0 .. Len(blocks) - 1 : ProcessBlocks(SubSeq(blocks, 1, n))

HeaderUnreadable ==
  /\ ~ file.legible /\ Calling
  /\ \/ /\ source = "cues" /\ index <= Len(cues)
        /\ LET read == CueBlocks(file.elements, cues[index], active, visited)
           IN  visited' = read.visited /\ KeepBlocksBefore(read.blocks)
        /\ index' = index + 1
        /\ UNCHANGED << config, source, cues, yielded, result >>
     \/ /\ source = "scan" /\ index <= Len(file.elements)
        /\ file.elements[index].known /\ file.elements[index].kind = "cluster"
        /\ KeepBlocksBefore(ScanCluster(file.elements[index], active))
        /\ index' = index + 1
        /\ UNCHANGED << config, source, cues, visited, yielded, result >>
     \/ /\ source = "scan" /\ index <= Len(file.elements)
        /\ Stop("end")
  /\ lost' = TRUE
  /\ UNCHANGED astray

Next == \/ InitSource \/ ScanFromEstimate \/ InitWithoutClusters
        \/ PopPending
        \/ SourceUsedUp \/ MeetCutOff \/ ReadFails
        \/ FollowCue \/ ScanElement \/ HeaderUnreadable

Spec == Init /\ [][Next]_vars

(* next_display_set loops until it can return, and the consumer drains the *)
(* iterator; that reads fail is not relied on.                             *)
FairSpec ==
  Spec /\ WF_vars(\/ InitSource \/ InitWithoutClusters \/ PopPending
                  \/ SourceUsedUp \/ MeetCutOff \/ FollowCue \/ ScanElement)
-----------------------------------------------------------------------------
Out == yielded \o pending
OutOf(t) == SetsOfTrack(Out, t)

(* Whether the whole content can be reached: every block through a cue, or *)
(* by a scan over elements of known size, and all headers can be read.     *)
Reachable ==
  /\ Undamaged(file) /\ ~ lost /\ ~ astray
  /\ cues # << >> => cued

InRange(set) ==
  /\ \A lo \in range.lo : set.pts >= 90 * lo
  /\ \A hi \in range.hi : set.pts <= 90 * hi
WhollyInRange(set) == InRange(set) /\ \A s \in Members(set.segments) : InRange(s)
-----------------------------------------------------------------------------
(* The blocks of one track are processed in file order and none of them    *)
(* twice, also when several cue points lead to one Cluster.                *)
BlocksInFileOrder ==
  cued \/ cues = << >> =>
    \A j, k \in DOMAIN pushed :
      j < k => \/ pushed[j][1] < pushed[k][1]
               \/ pushed[j][1] = pushed[k][1] /\ pushed[j][2] < pushed[k][2]

(* The display sets handed out for a track follow one another in the file, *)
(* none left out, repeated or made up, also when a read fails behind them, *)
(* the file is cut off, or the scan started in the middle of it; without a *)
(* start of the range they are its first ones (stream.rs:205-263, 265-290).*)
YieldsContent ==
  /\ ~ lost
  /\ cues # << >> => /\ cued /\ TimesAscend(file, active)
                     /\ \A e \in DOMAIN file.elements : file.elements[e].known
  => \A t \in active :
       LET out == OutOf(t)
       IN  \E from \in IF range.lo = {} THEN {0} ELSE 0 .. Len(content[t]) :
             /\ from + Len(out) <= Len(content[t])
             /\ out = SubSeq(content[t], from + 1, from + Len(out))

(* When the iterator is exhausted every display set that lies within the   *)
(* time range to its last segment has been handed out, once: by cues       *)
(* (stream.rs:178-188), and by a scan unless it started at an estimate.    *)
RangeIsComplete ==
  result = "end" /\ Reachable =>
    \A t \in active :
      SelectSeq(OutOf(t), WhollyInRange) = SelectSeq(content[t], WhollyInRange)

(* What the documents say: all PGS tracks are extracted (lib.rs:165,       *)
(* lib.rs:743), and with Cues the seeking to a time range, to which        *)
(* display sets belong by their presentation time, is exact                *)
(* (README.md:125).  The code keeps neither: cues of some tracks hide the  *)
(* tracks without, and the cue of an END behind the range is left out, and *)
(* with it the display set that began in the range.                        *)
AllInRangeExtracted ==
  result = "end" /\ Undamaged(file) =>
    \A t \in active : SelectSeq(OutOf(t), InRange) = SelectSeq(content[t], InRange)

(* The iterator comes to an end on every file.                             *)
Terminates == <>(result # "more")
=============================================================================

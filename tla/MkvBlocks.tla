----------------------------- MODULE MkvBlocks -----------------------------
(***************************************************************************)
(* Matroska files as the extractors of src/src/mkv see them, and the block *)
(* extraction that the streaming scanner (mkv/stream.rs) and the parallel  *)
(* workers (mkv/mod.rs) share.                                             *)
(*                                                                         *)
(* The Segment is a sequence of elements, from the first Cluster on:       *)
(*   kind   - "cluster", or "other" (Void, Cues, Tags ...)                 *)
(*   known  - whether its size is known                                    *)
(*   cut    - whether the file ends in the payload of its last block       *)
(*   blocks - the blocks of a Cluster in file order                        *)
(* A block has an id, a track, its absolute time in ticks, its segments,   *)
(* ok (its content decodes) and sup (its segments have headers of their    *)
(* own, with a pts).  A cue has a time, a track, the number of the element *)
(* its position points at and, in rel, the number of the block its         *)
(* relative position points at, if it has one.                             *)
(***************************************************************************)
EXTENDS PgsAssembly, Integers, FiniteSets

CONSTANTS TimestampScale   (* nanoseconds per tick                         *)
ASSUME ScaleAssumption == TimestampScale \in Nat \ {0}

Segment == [type: SegmentType, pts: Nat, comp: CompositionState \cup {None}]
Block == [id: Nat \X Nat, trk: Nat, time: Int, segs: Seq(Segment),
          ok: BOOLEAN, sup: BOOLEAN]
Element == [kind: {"cluster", "other"}, known: BOOLEAN, cut: BOOLEAN,
            blocks: Seq(Block)]
Cue == [time: Nat, trk: Nat, cluster: Nat, rel: SUBSET Nat]

(* The id of a block is the number of its element and its place there; a   *)
(* cue points at an element.                                               *)
IsFile(f) ==
  /\ f.elements \in Seq(Element) /\ f.cues \in Seq(Cue)
  /\ \A e \in DOMAIN f.elements : \A n \in DOMAIN f.elements[e].blocks :
       f.elements[e].blocks[n].id = << e, n >>
  /\ \A e \in DOMAIN f.elements :
       f.elements[e].kind = "other" => f.elements[e].blocks = << >>
  /\ \A k \in DOMAIN f.cues : f.cues[k].cluster \in DOMAIN f.elements

(* mkv_timestamp_to_pts: 90 kHz ticks, never negative.                     *)
ToPts(ticks) ==
  IF ticks < 0 THEN 0 ELSE (ticks * TimestampScale * 9) \div 100000

(* process_pgs_block: the segments of a decoded block.                     *)
SegmentsOf(b) ==
  [k \in DOMAIN b.segs |->
     [b.segs[k] EXCEPT !.pts = IF b.sup THEN @ ELSE ToPts(b.time)]]

(* The segments of several blocks, one after the other, and with tracks.   *)
LogOf(blocks) == Joined([k \in DOMAIN blocks |-> SegmentsOf(blocks[k])])
ItemsOf(blocks) ==
  [k \in DOMAIN blocks |-> [trk |-> blocks[k].trk, segments |-> SegmentsOf(blocks[k])]]

(* Mutant of FeedBlocks: a block that does not decode ends the batch.      *)
FeedBlocksUntilUndecodable(asms, blocks) ==
  LET bad == {k \in DOMAIN blocks : ~ blocks[k].ok}
  IN  FeedTracks(asms, ItemsOf(IF bad = {} THEN blocks
                               ELSE SubSeq(blocks, 1, (CHOOSE k \in bad :
                                                         \A j \in bad : k <= j) - 1)))

(* process_blocks: every block goes to the assembler of its track; blocks  *)
(* that do not decode are passed over.                                     *)
Decodable(blocks) == Only(blocks, {b \in Members(blocks) : b.ok})
FeedBlocks(asms, blocks) == FeedTracks(asms, ItemsOf(Decodable(blocks)))
-----------------------------------------------------------------------------
(* scan_cluster_for_pgs: the blocks of the active tracks.                  *)
ScanCluster(element, active) ==
  Only(element.blocks, {b \in Members(element.blocks) : b.trk \in active})

(* The file ends in the payload of the last block: reading it is an error, *)
(* and so is draining it, while skipping it is not.                        *)
CutOff(element, active, sequential) ==
  element.cut /\ (sequential \/ element.blocks[Len(element.blocks)].trk \in active)

(* read_block_at_position: the block there if it is of an active track,    *)
(* with the time of the cue.                                               *)
ReadBlockAt(element, n, time, active) ==
  IF n \in DOMAIN element.blocks /\ element.blocks[n].trk \in active
  THEN << [element.blocks[n] EXCEPT !.time = time] >>
  ELSE << >>

(* Mutant of CueBlocks: the clusters visited are not remembered.           *)
CueBlocksUnvisited(elements, cue, active, visited) ==
  LET element == elements[cue.cluster]
  IN  IF cue.rel # {}
      THEN [visited |-> visited, fails |-> FALSE,
            blocks |-> ReadBlockAt(element, CHOOSE n \in cue.rel : TRUE,
                                   cue.time, active)]
      ELSE [visited |-> visited, fails |-> FALSE,
            blocks |-> ScanCluster(element, active)]

(* extract_blocks_for_cue_point: one block when the cue has a relative     *)
(* position, else the whole cluster the first time a cue points to it.     *)
CueBlocks(elements, cue, active, visited) ==
  LET element == elements[cue.cluster]
      n == CHOOSE n \in cue.rel : TRUE
  IN  IF cue.rel # {}
      THEN [visited |-> visited,
            fails  |-> /\ element.kind = "cluster" /\ CutOff(element, active, FALSE)
                       /\ n = Len(element.blocks),
            blocks |-> IF element.kind = "cluster"
                       THEN ReadBlockAt(element, n, cue.time, active)
                       ELSE << >>]
      ELSE LET scans == /\ cue.cluster \notin visited
                        /\ element.kind = "cluster" /\ element.known
           IN  [visited |-> visited \cup {cue.cluster},
                fails  |-> scans /\ CutOff(element, active, FALSE),
                blocks |-> IF scans THEN ScanCluster(element, active)
                           ELSE << >>]
-----------------------------------------------------------------------------
(* What a file holds, independently of how it is read: the segments of the *)
(* decodable blocks of a track in file order, and the display sets in      *)
(* them.                                                                   *)
BlocksOf(elements, t) ==
  LET own(blocks) == Only(blocks, {b \in Members(blocks) : b.trk = t /\ b.ok})
  IN  Joined([e \in DOMAIN elements |-> own(elements[e].blocks)])

Content(elements, t) == SetsIn(LogOf(BlocksOf(elements, t)))

(* The Cues index a muxer writes for subtitles: one cue for every block of *)
(* these tracks, in file order and with the time of the block, and either  *)
(* all of them with a relative position or none.                           *)
FullyCued(f, tracks) ==
  LET placed(e, n, c) == /\ c.cluster = e /\ c.rel \subseteq {n}
                         /\ c.time = f.elements[e].blocks[n].time
                         /\ c.trk = f.elements[e].blocks[n].trk
      before(c, d) == \/ c.cluster < d.cluster
                      \/ /\ c.cluster = d.cluster
                         /\ \A m \in c.rel, n \in d.rel : m < n
  IN  /\ \A e \in DOMAIN f.elements : \A n \in DOMAIN f.elements[e].blocks :
           f.elements[e].blocks[n].trk \in tracks =>
             \E k \in DOMAIN f.cues : placed(e, n, f.cues[k])
      /\ \A k \in DOMAIN f.cues : f.cues[k].trk \in tracks =>
           \E e \in DOMAIN f.elements : \E n \in DOMAIN f.elements[e].blocks :
             placed(e, n, f.cues[k])
      /\ \A j, k \in DOMAIN f.cues :
           j < k => /\ before(f.cues[j], f.cues[k])
                    /\ (f.cues[j].rel = {}) = (f.cues[k].rel = {})

(* The blocks of these tracks stand in the order of their times, within a  *)
(* track everywhere and between the tracks from Cluster to Cluster.        *)
TimesAscend(f, tracks) ==
  \A d, e \in DOMAIN f.elements :
    \A m \in DOMAIN f.elements[d].blocks, n \in DOMAIN f.elements[e].blocks :
      LET b == f.elements[d].blocks[m]
          c == f.elements[e].blocks[n]
      IN  /\ b.trk \in tracks /\ c.trk \in tracks
          /\ d < e \/ (d = e /\ m < n /\ b.trk = c.trk)
          => b.time <= c.time

Undamaged(f) ==
  \A e \in DOMAIN f.elements : f.elements[e].known /\ ~ f.elements[e].cut
=============================================================================

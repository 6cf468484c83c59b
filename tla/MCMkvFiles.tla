---------------------------- MODULE MCMkvFiles ----------------------------
(***************************************************************************)
(* Small Matroska files: two PGS tracks and a video track, every way of    *)
(* cutting their blocks into Clusters, and the Cues indexes muxers write.  *)
(***************************************************************************)
EXTENDS Integers, Sequences, FiniteSets

Seg(type) == [type |-> type, pts |-> 250,
              comp |-> IF type = "PCS" THEN "EpochStart" ELSE "None"]
Segs(types) == [k \in DOMAIN types |-> Seg(types[k])]
ABlock(t, time, types, ok, sup) ==
  [trk |-> t, time |-> time, segs |-> Segs(types), ok |-> ok, sup |-> sup]
Whole == << "PCS", "ODS", "END" >>

(* Track 1: two whole sets and a block that does not decode between them.  *)
(* Track 2: a set in two blocks, the second one a tick later, as in        *)
(* mkv/cluster.rs:363-380, then one with segment headers of its own.       *)
(* Track 9 is video.  The instances have 700000 nanoseconds to a tick, so  *)
(* that no bound of a range is a whole tick.                               *)
Blocks ==
  << ABlock(1, 1, Whole, TRUE, FALSE),
     ABlock(2, 1, << "PCS", "ODS" >>, TRUE, FALSE),
     ABlock(2, 2, << "END" >>, TRUE, FALSE),
     ABlock(9, 2, << >>, TRUE, FALSE),
     ABlock(1, 2, Whole, FALSE, FALSE),
     ABlock(1, 3, Whole, TRUE, FALSE),
     ABlock(2, 4, Whole, TRUE, TRUE) >>
N == Len(Blocks)

(* The blocks after each cut start a new Cluster; another element follows  *)
(* the first Cluster.                                                      *)
Cut(from, to, e) ==
  [n \in 1 .. to - from |->
     [id |-> << e, n >>, trk |-> Blocks[from + n].trk, sup |-> Blocks[from + n].sup,
      time |-> Blocks[from + n].time, segs |-> Blocks[from + n].segs,
      ok |-> Blocks[from + n].ok]]
Cluster(blocks) ==
  [kind |-> "cluster", known |-> TRUE, cut |-> FALSE, blocks |-> blocks]
Other == [kind |-> "other", known |-> TRUE, cut |-> FALSE, blocks |-> << >>]
Layout(a, b) == << Cluster(Cut(0, a, 1)), Other,
                   Cluster(Cut(a, b, 3)), Cluster(Cut(b, N, 4)) >>
Layouts == {Layout(c[1], c[2]) : c \in {d \in (1 .. N) \X (1 .. N) : d[1] < d[2]}}

(* Cues for the blocks of these tracks, in file order.                     *)
CuesFor(elements, tracks, relative) ==
  LET upTo[e \in 0 .. Len(elements)] ==
        IF e = 0 THEN << >>
        ELSE LET own == SelectSeq(elements[e].blocks, LAMBDA b : b.trk \in tracks)
             IN  upTo[e - 1] \o
                 [k \in DOMAIN own |->
                    [time |-> own[k].time, trk |-> own[k].trk, cluster |-> e,
                     rel |-> IF relative THEN {own[k].id[2]} ELSE {}]]
  IN  upTo[Len(elements)]

(* Headers can be read unless this is about files where they cannot, and   *)
(* there is no Duration unless this is about files with one.               *)
File(elements, cues) ==
  [elements |-> elements, cues |-> cues, legible |-> TRUE, timed |-> FALSE]
Illegible(files) == {[f EXCEPT !.legible = FALSE] : f \in files}
Timed(files) == {[f EXCEPT !.timed = TRUE] : f \in files}
CuedFiles(layouts) ==
  {File(l, CuesFor(l, {1, 2}, relative)) : l \in layouts, relative \in BOOLEAN}
UncuedFiles(layouts) == {File(l, << >>) : l \in layouts}
HalfCuedFiles ==
  {File(l, CuesFor(l, {1}, relative)) : l \in Layouts, relative \in BOOLEAN}

(* An element of unknown size, a block cut off at the end of the file, a   *)
(* cue that points at no Cluster, and a Segment without Clusters.          *)
FewLayouts == {Layout(2, 4), Layout(3, 6), Layout(1, 5)}
Damage(l) == { [l EXCEPT ![3].known = FALSE], [l EXCEPT ![4].cut = TRUE] }
DamagedFiles ==
  LET damaged == UNION {Damage(l) : l \in FewLayouts}
  IN  {File(l, CuesFor(l, {1, 2}, relative)) : l \in damaged, relative \in BOOLEAN}
        \cup {File(l, << >>) : l \in damaged}
        \cup {File(Layout(2, 4),
                   << [time |-> 1, trk |-> 1, cluster |-> 2, rel |-> rel] >>) :
                rel \in {{}, {1}}}
        \cup {File(<< Other >>, << >>)}

NoRange == [lo |-> {}, hi |-> {}]
UpToTheFirst == [lo |-> {}, hi |-> {1}]   (* ends between these two blocks *)
SomeRanges == { NoRange, UpToTheFirst, [lo |-> {2}, hi |-> {}],
                [lo |-> {2}, hi |-> {3}] }
=============================================================================

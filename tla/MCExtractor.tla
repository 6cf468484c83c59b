---------------------------- MODULE MCExtractor ----------------------------
(***************************************************************************)
(* Small files of every format: up to two tracks whose sets lie before, in *)
(* and behind the time ranges asked for, and one track that goes back in   *)
(* time.                                                                   *)
(***************************************************************************)
EXTENDS Extractor

Sets(t, times) == [n \in DOMAIN times |-> [trk |-> t, n |-> n, pts |-> times[n]]]
Two(a, b) == [t \in Tracks |-> CASE t = 1 -> Sets(1, a) [] t = 2 -> Sets(2, b)
                                 [] OTHER -> << >>]
One(a) == [t \in Tracks |-> IF t = 0 THEN Sets(0, a) ELSE << >>]
File(f, c, many) == [format |-> f, content |-> c, manyCues |-> many]

MCFiles ==
  { File("mkv", Two(<< 1, 2, 3 >>, << 2, 4 >>), TRUE),
    File("mkv", Two(<< 1, 3 >>, << 2 >>), FALSE),
    File("m2ts", Two(<< 1, 4, 2 >>, << 2, 3 >>), FALSE),
    File("sup", One(<< 1, 2, 4 >>), FALSE) }
MCFilters == {{}, {1}, {0, 2}}
MCRanges == { [lo |-> {}, hi |-> {}], [lo |-> {2}, hi |-> {}],
              [lo |-> {2}, hi |-> {3}], [lo |-> {}, hi |-> {3}] }
=============================================================================

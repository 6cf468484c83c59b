--------------------------- MODULE SupRefinement ---------------------------
(***************************************************************************)
(* The SUP scanner as a TrackStreams with the one track 0: what the        *)
(* Extractor may rely on without a time range, if the detection left the   *)
(* reader at the beginning.  Otherwise the promise is YieldsFromAim of     *)
(* SupStream, and the stream mapped to is empty.                           *)
(***************************************************************************)
EXTENDS SupStream

SetsOf(f) == LET found == ContentOf(f)
             IN  [k \in DOMAIN found |-> found[k].set]

Given == IF FromBeginning
         THEN [k \in DOMAIN yielded |-> << 0, yielded[k] >>] ELSE << >>
Left == [t \in {0} |->
           IF FromBeginning
           THEN LET sets == SetsFrom(0)
                IN  SubSeq(sets, Len(yielded) + 1, Len(sets))
           ELSE << >>]

Stream == INSTANCE TrackStreams
            WITH Tracks <- {0}, left <- Left, given <- Given, ended <- result,
                 Contents <- {[t \in {0} |-> SetsOf(f)] : f \in Files}
                               \cup {[t \in {0} |-> << >>]}

(* SupExtractorState implements the stream of the Extractor: the display   *)
(* sets of the file in order, then the end.                                *)
IsTrackStream == Stream!FairSpec
=============================================================================

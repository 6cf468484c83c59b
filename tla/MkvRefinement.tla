--------------------------- MODULE MkvRefinement ---------------------------
(***************************************************************************)
(* The MKV scanner as a TrackStreams: what the Extractor may rely on.      *)
(***************************************************************************)
EXTENDS MkvStream

(* The file can be read throughout, there are cues for every block of the  *)
(* active tracks or none at all, and no time range is set.                 *)
Sound == /\ file.legible /\ Undamaged(file)
         /\ file.cues = << >> \/ cued
         /\ range.lo = {} /\ range.hi = {}

(* Nothing is said about other files: they map to an empty stream.         *)
Given == IF Sound
         THEN [k \in DOMAIN yielded |-> << yielded[k].trk, yielded[k].set >>]
         ELSE << >>
Left == [t \in PgsTracks |->
           IF t \in active /\ Sound
           THEN LET got == SetsOfTrack(yielded, t)
                IN  SubSeq(content[t], Len(got) + 1, Len(content[t]))
           ELSE << >>]

Stored == UNION {Members(sets) : sets \in {Content(f.elements, t) : f \in Files, t \in PgsTracks}}

Stream == INSTANCE TrackStreams
            WITH Tracks <- PgsTracks, left <- Left, given <- Given,
                 ended <- result, Contents <- [PgsTracks -> Seq(Stored)]

(* MkvExtractorState implements the stream of the Extractor: the display   *)
(* sets of every active track in file order, then the end.                 *)
IsTrackStream == Stream!FairSpec
=============================================================================

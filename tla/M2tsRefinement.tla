--------------------------- MODULE M2tsRefinement ---------------------------
(***************************************************************************)
(* The M2TS scanner as a TrackStreams: what the Extractor may rely on.     *)
(***************************************************************************)
EXTENDS M2tsStream

(* Nothing is said about files with packet loss: they map to an empty      *)
(* stream.  Without it the scanner is a stream of the display sets that    *)
(* begin behind the position it was started at.                            *)
Given == IF junk = {}
         THEN [k \in DOMAIN yielded |-> << yielded[k].pid, FirstId(yielded[k])[1] >>]
         ELSE << >>
Left == [p \in Pids |->
           IF junk = {}
           THEN LET got == Cardinality({k \in DOMAIN yielded : yielded[k].pid = p})
                IN  SubSeq(ahead[p], got + 1, Len(ahead[p]))
           ELSE << >>]

Stream == INSTANCE TrackStreams
            WITH Tracks <- Pids, Contents <- [Pids -> Seq(DisplaySets)],
                 left <- Left, given <- Given, ended <- result

(* M2tsExtractorState implements the stream of the Extractor: every        *)
(* display set behind the start position, track by track in order, then    *)
(* the end.                                                                *)
IsTrackStream == Stream!FairSpec
=============================================================================

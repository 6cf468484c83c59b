---------------------------- MODULE TrackStreams ----------------------------
(***************************************************************************)
(* What every container scanner promises to the Extractor: a stream that   *)
(* hands out the display sets of each track in order, none twice, and says *)
(* "no more" only when every track is used up.  How the tracks interleave  *)
(* is left open.  A read error may end the stream early.                   *)
(***************************************************************************)
EXTENDS Sequences

CONSTANTS Tracks,       (* the tracks extracted                            *)
          Contents      (* the possible contents: for each track, the      *)
                        (* sequence of its display sets                    *)

VARIABLES left,         (* for each track, the display sets still to come  *)
          given,        (* << track, display set >> handed out, in order   *)
          ended         (* "more", "end" or "err"                          *)
vars == << left, given, ended >>

Init == /\ left \in Contents
        /\ given = << >>
        /\ ended = "more"

Give(t) ==
  /\ ended = "more" /\ left[t] # << >>
  /\ given' = Append(given, << t, Head(left[t]) >>)
  /\ left' = [left EXCEPT ![t] = Tail(@)]
  /\ UNCHANGED ended

End == /\ ended = "more" /\ \A t \in Tracks : left[t] = << >>
       /\ ended' = "end"
       /\ UNCHANGED << left, given >>

Error == /\ ended = "more"
         /\ ended' = "err"
         /\ UNCHANGED << left, given >>

Next == (\E t \in Tracks : Give(t)) \/ End \/ Error

Spec == Init /\ [][Next]_vars
FairSpec == Spec /\ WF_vars(Next)
=============================================================================

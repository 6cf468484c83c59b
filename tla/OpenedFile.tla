----------------------------- MODULE OpenedFile -----------------------------
(***************************************************************************)
(* What the openings of the formats share: the file Extractor::open was    *)
(* called with, and how far it has come.                                   *)
(***************************************************************************)
EXTENDS Selection, Integers, FiniteSets

CONSTANTS MayFail   (* whether reads and seeks may fail                    *)

ASSUME MayFailAssumption == MayFail \in BOOLEAN

VARIABLES file,     (* the file; it never changes                          *)
          phase,    (* the step to be done, "err" after an error, "open"   *)
                    (* once the Extractor is there, or "ready" once its    *)
                    (* time range is set                                   *)
          failed    (* history: whether a read or seek that failed ended   *)
                    (* the opening or left the reader where it should not  *)
                    (* be; others only cost what they would have told      *)

shared == << file, phase, failed >>

GoTo(step) == phase' = step /\ UNCHANGED << file, failed >>

(* The error of a read or a seek that fails becomes the result of open.    *)
ReadError(steps) ==
  /\ MayFail /\ phase \in steps
  /\ phase' = "err" /\ failed' = TRUE /\ UNCHANGED file
=============================================================================

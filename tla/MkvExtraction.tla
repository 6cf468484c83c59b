--------------------------- MODULE MkvExtraction ---------------------------
(***************************************************************************)
(* What the two ways to extract a Matroska file have in common, next_-     *)
(* display_set and try_collect_parallel of MkvExtractorState: the file,    *)
(* the tracks that are wanted of it, and what it holds.                    *)
(***************************************************************************)
EXTENDS MkvBlocks

CONSTANTS PgsTracks,   (* the PGS tracks of the file                       *)
          Files,       (* records of elements and cues, of legible:        *)
                       (* whether every element header can be read, and    *)
                       (* timed: whether the Info has a Duration           *)
          ActiveSets,  (* the track filters, applied to PgsTracks          *)
          MayFail      (* whether reads, seeks or workers may fail         *)

ASSUME FilesAssumption == \A f \in Files : IsFile(f)
ASSUME ActiveAssumption == \A s \in ActiveSets : s \subseteq PgsTracks
ASSUME MayFailAssumption == MayFail \in BOOLEAN

VARIABLES file, active,   (* fixed at the start                            *)
          content         (* history: the display sets the file holds for  *)
                          (* each PGS track                                *)

ChooseFile ==
  /\ file \in Files /\ active \in ActiveSets
  /\ content = [t \in PgsTracks |-> Content(file.elements, t)]
=============================================================================

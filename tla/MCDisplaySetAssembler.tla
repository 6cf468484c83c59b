---------------------- MODULE MCDisplaySetAssembler ----------------------
(* Model-checking instance of DisplaySetAssembler.                         *)
EXTENDS DisplaySetAssembler

(* Two times and two states tell "of this PCS" from "of another"; one PCS  *)
(* has no known composition state; two body segments can be told apart.    *)
MCSegment ==
  { [type |-> "PCS", pts |-> 1, comp |-> "EpochStart"],
    [type |-> "PCS", pts |-> 2, comp |-> "Normal"],
    [type |-> "PCS", pts |-> 2, comp |-> None],
    [type |-> "WDS", pts |-> 1, comp |-> None],
    [type |-> "ODS", pts |-> 2, comp |-> None],
    [type |-> "END", pts |-> 1, comp |-> None] }
=============================================================================

------------------------ MODULE DisplaySetAssembler ------------------------
(***************************************************************************)
(* One DisplaySetAssembler driven by its caller: the caller pushes         *)
(* segments in any order (a stream may start in the middle of a display    *)
(* set, lose its END, or carry a PCS with an unknown composition state)    *)
(* and may reset the assembler between two pushes.                         *)
(*                                                                         *)
(* log and returned are history: every call made, with a reset written as  *)
(* an entry of type "RESET", and what each call returned.                  *)
(***************************************************************************)
EXTENDS PgsAssembly

CONSTANTS Segment,   (* the segments the callers push                      *)
          MaxCalls   (* bound on the number of calls                       *)

(* PgsSegment as the assembler reads it: composition_state() is Some only  *)
(* for a PCS with a full payload and a known state byte.                   *)
PgsSegment ==
  [type : {"PCS"}, pts : Nat, comp : CompositionState \cup {None}]
    \cup [type : SegmentType \ {"PCS"}, pts : Nat, comp : {None}]

ASSUME SegmentAssumption == Segment \subseteq PgsSegment
ASSUME MaxCallsAssumption == MaxCalls \in Nat

VARIABLES asm,       (* current_segments, current_pts and current_state    *)
          log,       (* history: the calls                                 *)
          returned   (* history: their results                             *)
vars == << asm, log, returned >>

ResetCall == [type |-> "RESET", pts |-> 0, comp |-> None]
DisplaySet == [pts : Nat, state : CompositionState, segments : Seq(PgsSegment)]
-----------------------------------------------------------------------------
Init == /\ asm = AsmNew
        /\ log = << >>
        /\ returned = << >>

Push(s) == /\ Len(log) < MaxCalls
           /\ asm' = AsmPush(asm, s)
           /\ log' = Append(log, s)
           /\ returned' = Append(returned, AsmOut(asm, s))

Reset == /\ Len(log) < MaxCalls
         /\ asm' = AsmReset(asm)
         /\ log' = Append(log, ResetCall)
         /\ returned' = Append(returned, << >>)

Next == (\E s \in Segment : Push(s)) \/ Reset

Spec == Init /\ [][Next]_vars
-----------------------------------------------------------------------------
(* Type invariant of the assembler and its histories.                      *)
TypeOK ==
  /\ asm.segments \in Seq(PgsSegment)
  /\ asm.pts \in Nat
  /\ asm.state \in CompositionState \cup {None}
  /\ asm = [segments |-> asm.segments, pts |-> asm.pts, state |-> asm.state]
  /\ log \in Seq(PgsSegment \cup {ResetCall})
  /\ returned \in Seq(Seq(DisplaySet))
  /\ Len(returned) = Len(log)

(* DisplaySetAssembler::push returns a display set exactly at the calls    *)
(* where the segments pushed so far end with one, and returns precisely    *)
(* that set: nothing of an abandoned set before it, its own PCS's pts and  *)
(* composition state, every segment in order, and never a set whose PCS    *)
(* was lost, superseded or discarded by a reset.                           *)
ReturnsExactlyTheRuns ==
  \A j \in 1 .. Len(log) :
    \/ \E i \in 1 .. j - 1 : /\ IsRun(log, i, j)
                             /\ returned[j] = << RunSet(log, i, j) >>
    \/ /\ returned[j] = << >>
       /\ \A i \in 1 .. j - 1 : ~ IsRun(log, i, j)

(* While a display set is open the assembler holds exactly what was pushed *)
(* since its PCS; while none is open, no push sequence since the last PCS  *)
(* could still complete one.                                               *)
HoldsTheOpenRun ==
  /\ asm.state # None =>
       \E i \in 1 .. Len(log) :
         /\ OpenRun(log, i)
         /\ asm.pts = log[i].pts
         /\ asm.state = log[i].comp
         /\ asm.segments = SubSeq(log, i, Len(log))
  /\ asm.state = None => \A i \in 1 .. Len(log) : ~ OpenRun(log, i)
=============================================================================

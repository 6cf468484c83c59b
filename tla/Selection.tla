----------------------------- MODULE Selection -----------------------------
(***************************************************************************)
(* What a pass over a list with a condition keeps.  It does what SelectSeq *)
(* does, but says so by recursion over the list and with the condition as  *)
(* a set, which is what a proof can work with (see SequenceLemmas).        *)
(***************************************************************************)
EXTENDS Naturals, Sequences

Members(s) == {s[k] : k \in DOMAIN s}

(* The members of s that are in S, in their order.                         *)
Only(s, S) ==
  LET upTo[n \in 0 .. Len(s)] ==
        IF n = 0 THEN << >>
        ELSE IF s[n] \in S THEN Append(upTo[n - 1], s[n]) ELSE upTo[n - 1]
  IN  upTo[Len(s)]

(* The values that a list of Options holds, in their order.                *)
Present(options) ==
  LET upTo(t) ==
        LET f[n \in 0 .. Len(t)] ==
              IF n = 0 THEN << >>
              ELSE IF t[n] = {} THEN f[n - 1]
              ELSE Append(f[n - 1], CHOOSE v \in t[n] : TRUE)
        IN  f
  IN  CHOOSE r \in {upTo(t)[Len(t)] : t \in {options}} : TRUE

(* The sequences of a list one behind the other.                           *)
Joined(ss) ==
  LET upTo(tt) ==
        LET f[n \in 0 .. Len(tt)] == IF n = 0 THEN << >> ELSE f[n - 1] \o tt[n]
        IN  f
  IN  CHOOSE r \in {upTo(tt)[Len(tt)] : tt \in {ss}} : TRUE
=============================================================================

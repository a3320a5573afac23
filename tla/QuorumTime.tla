------------------------------ MODULE QuorumTime ------------------------------
(***************************************************************************)
(* What a checkpoint promises about time, without saying how it is         *)
(* computed: the witnesses' claims are fixed, and in one step the verdict  *)
(* names every maximal run of instants that a quorum supports.             *)
(***************************************************************************)
EXTENDS TimeClaims

CONSTANT Undecided     \* the answer before a verdict exists

VARIABLES
    iv,         \* the claim of each witness
    answer      \* the verdict, or Undecided

vars == <<iv, answer>>

Init ==
    /\ iv \in [Witness -> Interval]
    /\ answer = Undecided

Decide ==
    /\ answer = Undecided
    /\ answer' = Verdict(Regions(iv))
    /\ UNCHANGED iv

Spec == Init /\ [][Decide]_vars
===============================================================================

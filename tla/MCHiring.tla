------------------------------ MODULE MCHiring ------------------------------
(***************************************************************************)
(* Instances of HiringSystem for TLC: ids of one kind are interchangeable. *)
(***************************************************************************)
EXTENDS HiringSystem, TLC

HiringSymmetry ==
    Permutations(Request) \cup Permutations(Candidate)
    \cup Permutations(App) \cup Permutations(Offer)
=============================================================================

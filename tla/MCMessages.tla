----------------------------- MODULE MCMessages -----------------------------
(***************************************************************************)
(* Instances of Messages for TLC.                                          *)
(***************************************************************************)
EXTENDS Messages, TLC

ChatSymmetry == Permutations(Request) \cup Permutations(Conv)
=============================================================================

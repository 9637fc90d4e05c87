------------------------------ MODULE MCCalls -------------------------------
(***************************************************************************)
(* Instances of CallSessions for TLC.                                      *)
(***************************************************************************)
EXTENDS CallSessions, TLC

CallSymmetry == Permutations(User) \cup Permutations(Event)
=============================================================================

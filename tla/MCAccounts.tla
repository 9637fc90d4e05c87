----------------------------- MODULE MCAccounts -----------------------------
(***************************************************************************)
(* Instances of Accounts for TLC.                                          *)
(***************************************************************************)
EXTENDS Accounts, TLC

\* Bound: of two codes and three tokens one is left out of each behaviour.
Budget == codes + Len(tokens) <= 4

AccountSymmetry == Permutations(Request) \cup Permutations(Draft)
=============================================================================

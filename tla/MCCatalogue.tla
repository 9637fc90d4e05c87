---------------------------- MODULE MCCatalogue ----------------------------
(***************************************************************************)
(* An instance of Catalogue for TLC.                                       *)
(***************************************************************************)
EXTENDS Catalogue, TLC

CatalogueSymmetry == Permutations(Request) \cup Permutations(Plan) \cup Permutations(Terms)

\* The name "pro" is found in "proPlus".
Names == {"free", "pro", "proPlus"}

NamesWithin == {<<n, n>> : n \in Names} \cup {<<"pro", "proPlus">>}
=============================================================================

--------------------------- MODULE MCSubscription ---------------------------
(***************************************************************************)
(* Instances of SubscriptionSystem for TLC; the configurations choose the  *)
(* ids, the slots and the operations.  Ids are ordered (see Least), so     *)
(* only request slots are interchangeable.                                 *)
(***************************************************************************)
EXTENDS SubscriptionSystem

SlotSymmetry == Permutations(Client)

\* One charged intent confirms any subscription and any add-on: this bound
\* keeps the serial run to it, with uncharged intents beside it.
OneCharge == Cardinality(Succeeded) <= 1
\* Bound: what failed half way is followed up to the tick before the last.
CalmEnd == now = MaxNow => fails = 0
=============================================================================

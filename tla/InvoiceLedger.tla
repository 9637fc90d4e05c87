--------------------------- MODULE InvoiceLedger ----------------------------
(***************************************************************************)
(* What the invoice collection promises an accountant: for each month, a   *)
(* list of invoices that only ever grows at its end.  The place of an      *)
(* invoice in the list is its number.                                      *)
(***************************************************************************)
EXTENDS Naturals, Sequences

CONSTANTS Sub, Month

VARIABLE ledger

LedgerInit == ledger = [m \in Month |-> <<>>]

Enter(m, s) == ledger' = [ledger EXCEPT ![m] = Append(@, {s})]

LedgerNext == \E m \in Month, s \in Sub : Enter(m, s)

Ledger == LedgerInit /\ [][LedgerNext]_ledger
=============================================================================

----------------------------- MODULE Invoicing ------------------------------
(***************************************************************************)
(* InvoiceService.generateInvoiceForSubscription, called by the            *)
(* confirmation of a payment: look for an invoice, compute the next number *)
(* of the month from the last one, insert, upload the PDF.  The four are   *)
(* separate awaits of requests that overlap.  invoiceNumber carries a      *)
(* unique index: inserting a number that is taken throws.                  *)
(*                                                                         *)
(* Numbers are strings, INV-<year><month>-<sequence>, the sequence padded  *)
(* to four digits, and the last one is found by sorting the strings.       *)
(* Padded is the largest sequence the padding covers (9999) and Base the   *)
(* base it is written in (10).                                             *)
(***************************************************************************)
EXTENDS Naturals, FiniteSets

CONSTANTS
    Sub,       \* subscriptions whose payments are confirmed
    Request,   \* slots for confirmations in flight
    Padded, Base,
    MaxMonth   \* bound on the calendar

ASSUME InvoicingAssumption ==
    /\ Padded \in Nat \ {0}
    /\ Base \in Nat /\ Base > 1
    /\ MaxMonth \in Nat \ {0}

VARIABLES
    month,   \* the current month
    book,    \* the invoices collection
    stored,  \* the invoices that have a PDF
    call     \* per slot, the await it is at and its locals

vars == <<month, book, stored, call>>

Month == 1..MaxMonth
Invoice == [month: Month, seq: Nat \ {0}, sub: Sub]

Call ==
    [at: {"idle"}]
    \cup [at: {"number"}, sub: Sub]
    \cup [at: {"create"}, sub: Sub, month: Month, seq: Nat \ {0}]
    \cup [at: {"upload"}, invoice: Invoice]

InvoicingTypeOK ==
    /\ month \in Month
    /\ book \subseteq Invoice
    /\ stored \subseteq Invoice
    /\ call \in [Request -> Call]

OfMonth(m) == {i \in book : i.month = m}
SeqsOf(m)  == {i.seq : i \in OfMonth(m)}

\* The order of the padded strings.  One digit more than the padding makes a
\* string sort with its first digits.
TextKey(n) == IF n <= Padded THEN n ELSE n \div Base
SortsBefore(a, b) ==
    \/ TextKey(a) < TextKey(b)
    \/ TextKey(a) = TextKey(b) /\ a < b

Last(S) == {n \in S : \A k \in S \ {n} : SortsBefore(k, n)}

-----------------------------------------------------------------------------
Init ==
    /\ month = 1
    /\ book = {}
    /\ stored = {}
    /\ call = [p \in Request |-> [at |-> "idle"]]

NextMonth ==
    /\ month < MaxMonth
    /\ month' = month + 1
    /\ UNCHANGED <<book, stored, call>>

Become(p, c) == call' = [call EXCEPT ![p] = c]
End(p)       == Become(p, [at |-> "idle"])

\* An existing invoice is returned as it is.
Lookup(p) ==
    /\ call[p].at = "idle"
    /\ \E s \in Sub :
          IF \E i \in book : i.sub = s
          THEN UNCHANGED call
          ELSE Become(p, [at |-> "number", sub |-> s])
    /\ UNCHANGED <<month, book, stored>>

\* Mutant: the sequence is advanced twice.
NumberTwice(p) ==
    /\ call[p].at = "number"
    /\ \E n \in IF SeqsOf(month) = {} THEN {1} ELSE {l + 2 : l \in Last(SeqsOf(month))} :
          Become(p, [at |-> "create", sub |-> call[p].sub, month |-> month, seq |-> n])
    /\ UNCHANGED <<month, book, stored>>

\* generateInvoiceNumber: one more than the last of the current month.
Number(p) ==
    /\ call[p].at = "number"
    /\ \E n \in IF SeqsOf(month) = {} THEN {1} ELSE {l + 1 : l \in Last(SeqsOf(month))} :
          Become(p, [at |-> "create", sub |-> call[p].sub, month |-> month, seq |-> n])
    /\ UNCHANGED <<month, book, stored>>

\* Mutant: the index is not unique.
CreateAnyway(p) ==
    /\ call[p].at = "create"
    /\ LET i == [month |-> call[p].month, seq |-> call[p].seq, sub |-> call[p].sub]
       IN  book' = book \cup {i} /\ Become(p, [at |-> "upload", invoice |-> i])
    /\ UNCHANGED <<month, stored>>

\* The insert throws when the number is taken.
Create(p) ==
    /\ call[p].at = "create"
    /\ LET i == [month |-> call[p].month, seq |-> call[p].seq, sub |-> call[p].sub]
       IN  IF i.seq \in SeqsOf(i.month)
           THEN End(p) /\ UNCHANGED book
           ELSE book' = book \cup {i} /\ Become(p, [at |-> "upload", invoice |-> i])
    /\ UNCHANGED <<month, stored>>

\* Rendering or the upload may throw; the invoice stays without a PDF.
Upload(p) ==
    /\ call[p].at = "upload"
    /\ stored' \in {stored, stored \cup {call[p].invoice}}
    /\ End(p)
    /\ UNCHANGED <<month, book>>

Next ==
    \/ NextMonth
    \/ \E p \in Request : Lookup(p) \/ Number(p) \/ Create(p) \/ Upload(p)

Spec == Init /\ [][Next]_vars

-----------------------------------------------------------------------------
\* The numbers of a month are 1, 2, 3 ... with none missing and none twice:
\* confirmations that compute the same number, or insert it after the month
\* is over, never leave a gap.
NumbersGapless ==
    \A m \in Month : SeqsOf(m) = 1..Cardinality(OfMonth(m))

\* The collection implements the ledger.
L == INSTANCE InvoiceLedger WITH
        ledger <- [m \in Month |-> [n \in 1..Cardinality(OfMonth(m)) |->
                      {i.sub : i \in {j \in OfMonth(m) : j.seq = n}}]]

ImplementsLedger == L!Ledger
=============================================================================

-------------------------- MODULE SubscriptionSystem --------------------------
(***************************************************************************)
(* The subscription handlers composed over the collections they share:     *)
(* checkout, queue management and add-ons, any number in flight, with the  *)
(* clock, Stripe and failures.                                             *)
(***************************************************************************)
EXTENDS Checkout, QueueManagement, AddonPurchase

Activity == {Idle} \cup CheckoutRequest \cup QueueRequest \cup AddonRequest

Init == StoreInit

Step(p) == CheckoutStep(p) \/ ProcessStep(p) \/ CancelStep(p) \/ AddonStep(p)

Next ==
    \/ Tick
    \/ Charge
    \/ \E p \in Slot : Step(p) \/ HandlerFails(p)

Spec == Init /\ [][Next]_vars

TypeOK == StoreTypeOK /\ req \in [Slot -> Activity]

(***************************************************************************)
(* Fairness: BullMQ keeps running the hourly job and takes each run on to  *)
(* its end (a run that rejects is started again).  Nothing is assumed of   *)
(* clients or of the clock.                                                *)
(***************************************************************************)
FairSpec == Spec /\ \A p \in Worker : WF_vars(ProcessStep(p))

-----------------------------------------------------------------------------
(***************************************************************************)
(* Properties of every interleaving, with handlers failing half way.       *)
(***************************************************************************)

\* A payment is recorded as completed, with the transaction that paid it,
\* only when Stripe did charge that transaction: no order of confirm, retry
\* and add-on requests pairs a completed payment with an unpaid intent.
CompletedMeansCharged ==
    \A y \in Pay : pays[y].status = "completed" =>
        pays[y].intent # Null /\ intents[pays[y].intent] = "succeeded"

\* The invoice comes before the books close: a completed plan payment always
\* belongs to a subscription that has its invoice, wherever a request died.
CompletedMeansInvoiced ==
    \A y \in Pay : pays[y].status = "completed" /\ pays[y].type = "plan" =>
        pays[y].sub \in invoices

Settled == {s \in Sub : \E y \in Pay : /\ pays[y].sub = s
                                       /\ pays[y].gatewayResponse \in Succeeded}

\* A walk-in subscription (never queued) has access only if a payment of its
\* own was completed with a transaction that Stripe charged and its invoice
\* exists: also after it was cancelled or expired and came back, whichever
\* pending payment confirm picked up, and when a retry that overlapped the
\* confirmation has put that payment back to pending.
WalkInLiveMeansPaid ==
    \A s \in Sub : subs[s].status = "active" /\ subs[s].previous = Null =>
        s \in Settled /\ s \in invoices

\* A paid plan payment whose subscription is still waiting for payment is a
\* confirm request between its last two awaits, or the trace of one that
\* failed exactly there; no other race strands the money.
StrandedOnlyByFailure ==
    \A y \in Pay :
        (/\ pays[y].status = "completed" /\ pays[y].type = "plan"
         /\ subs[pays[y].sub].status = "pending")
        => \/ fails > 0
           \/ \E p \in Slot : At(p, "confirmStatus") /\ req[p].sub = pays[y].sub

\* The detailed system implements the life of each subscription.
PhaseOf(status) ==
    IF status = "none" THEN "absent"
    ELSE IF status = "pending" THEN "checkout"
    ELSE IF status = "queued" THEN "waiting"
    ELSE IF status = "active" THEN "live"
    ELSE "over"

L == INSTANCE SubscriptionLifecycle WITH
        phase   <- [s \in Sub |-> PhaseOf(subs[s].status)],
        walkIn  <- {s \in Sub : subs[s].status # "none" /\ subs[s].previous = Null},
        charged <- Succeeded,
        settled <- Settled

ImplementsLifecycle == L!Lifecycle

-----------------------------------------------------------------------------
(***************************************************************************)
(* Properties of one handler at a time (a single slot), failing half way.  *)
(***************************************************************************)

\* The flag and the status that the queue's queries both test agree: no
\* sequence of requests takes a subscription out of reach of every query.
QueuedFlagAgrees ==
    \A s \in Sub : subs[s].isQueued <=> subs[s].status = "queued"

\* A subscription expires only after the last day it was sold for, also when
\* a cancellation moved its dates.
NoEarlyExpiry ==
    \A s \in Sub : subs[s].status = "expired" => subs[s].endDate < now

\* When nothing is in flight and nothing has failed, a company's queue always
\* stands behind somebody: cancelling, expiring and activating in any order
\* never leaves queued subscriptions with no active or pending one before them.
QueueIsLed ==
    (fails = 0 /\ \A p \in Slot : At(p, "idle")) =>
        \A s \in Waiting : \E t \in Sub :
            /\ subs[t].company = subs[s].company
            /\ ~subs[t].isQueued
            /\ subs[t].status \in {"active", "pending"}

(***************************************************************************)
(* Liveness: a queued subscription whose scheduled start has come, in a    *)
(* company nothing is active for, is activated or stops being due, even if *)
(* the job that expired its predecessor failed before promoting it.        *)
(***************************************************************************)
Due(s) == s \in Waiting /\ subs[s].scheduledStart <= now

DueIsServed ==
    \A s \in Sub : Due(s) ~> (~Due(s) \/ ActiveByCompany(subs[s].company) # {})
=============================================================================

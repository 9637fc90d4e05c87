------------------------------ MODULE Checkout ------------------------------
(***************************************************************************)
(* Buying a plan: createPaymentIntentAndSubscribe, retryPayment and        *)
(* confirmPaymentAndActivateSubscription of SubscriptionPaymentService,    *)
(* one action for each await that touches a shared collection.             *)
(***************************************************************************)
EXTENDS SubscriptionStore

CheckoutRequest ==
    [at: {"createPayment"},
       company: Company, active: Sub \cup {Null}, from: Nat]
    \cup
    [at: {"createQueue"},
       company: Company, active: Sub, from: Nat, pay: Pay, intent: Intent]
    \cup
    [at: {"createSub"},
       company: Company, active: Sub \cup {Null}, from: Nat,
       pay: Pay, intent: Intent, position: Nat]
    \cup
    [at: {"createLink"}, sub: Sub, pay: Pay, intent: Intent]
    \cup
    [at: {"confirmFind"}, sub: Sub, intent: Intent, queued: BOOLEAN]
    \cup
    [at: {"confirmInvoice", "confirmComplete", "confirmStatus"},
       sub: Sub, intent: Intent, queued: BOOLEAN, pay: Pay]
    \cup
    [at: {"retryFind"}, sub: Sub]
    \cup
    [at: {"retryIssue"}, sub: Sub, pay: Pay]

(***************************************************************************)
(* Bound on the instance: a request that inserts documents starts only     *)
(* while ids are left for it and for those already in flight.              *)
(***************************************************************************)
Inserting(labels) == Cardinality({p \in Slot : req[p].at \in labels})

RoomForIntent ==
    Cardinality({i \in Intent : intents[i] = "none"})
        > Inserting({"createPayment", "retryFind", "retryIssue", "addonPayment"})

RoomToSubscribe ==
    /\ RoomForIntent
    /\ Cardinality({q \in Pay : pays[q].status = "none"})
           > Inserting({"createPayment", "addonPayment"})
    /\ Cardinality({s \in Sub : subs[s].status = "none"})
           > Inserting({"createPayment", "createQueue", "createSub"})

-----------------------------------------------------------------------------
(***************************************************************************)
(* createPaymentIntentAndSubscribe                                         *)
(***************************************************************************)

\* findActiveByCompany; the plan read before it never changes the outcome.
CreateStart(p) ==
    /\ Starting(p, "create")
    /\ RoomToSubscribe
    /\ \E c \in Company : \E a \in FindOne(ActiveByCompany(c)) :
          Goto(p, [at |-> "createPayment", company |-> c, active |-> a,
                   from |-> IF a = Null THEN 0 ELSE subs[a].endDate])
    /\ UNCHANGED <<now, fails, dbVars, intents, issued>>

\* The Stripe intent, then a pending payment that names no subscription yet:
\* neither is visible to any other handler, so the two awaits are one step.
CreatePayment(p) ==
    /\ At(p, "createPayment")
    /\ \E i \in FreshIntent, y \in FreshPay :
          /\ intents' = [intents EXCEPT ![i] = "open"]
          /\ pays' = [pays EXCEPT ![y] = [status |-> "pending", type |-> "plan",
                                          sub |-> Null, intent |-> i,
                                          gatewayResponse |-> Null]]
          /\ Goto(p, IF req[p].active = Null
                     THEN [at |-> "createSub", company |-> req[p].company,
                           active |-> Null, from |-> 0,
                           pay |-> y, intent |-> i, position |-> 0]
                     ELSE [at |-> "createQueue", company |-> req[p].company,
                           active |-> req[p].active, from |-> req[p].from,
                           pay |-> y, intent |-> i])
    /\ UNCHANGED <<now, fails, subs, invoices, credits, issued>>

\* Mutant: the position of an empty queue's first entry is one below its length.
CreateQueueOffByOne(p) ==
    /\ At(p, "createQueue")
    /\ \E q \in QueuedByCompany(req[p].company) :
          Goto(p, [at |-> "createSub", company |-> req[p].company,
                   active |-> req[p].active,
                   from |-> IF q = <<>> THEN req[p].from
                            ELSE subs[q[Len(q)]].endDate,
                   pay |-> req[p].pay, intent |-> req[p].intent,
                   position |-> Len(q) - 1])
    /\ UNCHANGED <<now, fails, dbVars, intents, issued>>

\* findQueuedByCompany: the new position and the subscription to start after.
CreateQueue(p) ==
    /\ At(p, "createQueue")
    /\ \E q \in QueuedByCompany(req[p].company) :
          Goto(p, [at |-> "createSub", company |-> req[p].company,
                   active |-> req[p].active,
                   from |-> IF q = <<>> THEN req[p].from
                            ELSE subs[q[Len(q)]].endDate,
                   pay |-> req[p].pay, intent |-> req[p].intent,
                   position |-> Len(q) + 1])
    /\ UNCHANGED <<now, fails, dbVars, intents, issued>>

\* Mutant: a subscription that is not queued is created active.
CreateSubUnpaid(p) ==
    /\ At(p, "createSub")
    /\ \E s \in FreshSub, d \in Durations :
          LET queued == req[p].active # Null
              start  == IF queued THEN req[p].from + 1 ELSE now
          IN  /\ subs' = [subs EXCEPT ![s] =
                    [company |-> req[p].company,
                     status |-> IF queued THEN "queued" ELSE "active",
                     isQueued |-> queued, queuePosition |-> req[p].position,
                     startDate |-> start, endDate |-> start + d,
                     scheduledStart |-> IF queued THEN start ELSE 0,
                     duration |-> d, previous |-> req[p].active,
                     cancelledAt |-> FALSE, paymentId |-> req[p].pay]]
              /\ Goto(p, [at |-> "createLink", sub |-> s,
                          pay |-> req[p].pay, intent |-> req[p].intent])
    /\ UNCHANGED <<now, fails, pays, invoices, credits, intents, issued>>

CreateSub(p) ==
    /\ At(p, "createSub")
    /\ \E s \in FreshSub, d \in Durations :
          LET queued == req[p].active # Null
              start  == IF queued THEN req[p].from + 1 ELSE now
          IN  /\ subs' = [subs EXCEPT ![s] =
                    [company |-> req[p].company,
                     status |-> IF queued THEN "queued" ELSE "pending",
                     isQueued |-> queued, queuePosition |-> req[p].position,
                     startDate |-> start, endDate |-> start + d,
                     scheduledStart |-> IF queued THEN start ELSE 0,
                     duration |-> d, previous |-> req[p].active,
                     cancelledAt |-> FALSE, paymentId |-> req[p].pay]]
              /\ Goto(p, [at |-> "createLink", sub |-> s,
                          pay |-> req[p].pay, intent |-> req[p].intent])
    /\ UNCHANGED <<now, fails, pays, invoices, credits, intents, issued>>

\* The payment learns its subscription; the client gets both ids.
CreateLink(p) ==
    /\ At(p, "createLink")
    /\ pays' = [pays EXCEPT ![req[p].pay].status = "pending",
                            ![req[p].pay].sub = req[p].sub]
    /\ issued' = issued \cup {req[p].intent}
    /\ Done(p)
    /\ UNCHANGED <<now, fails, subs, invoices, credits, intents>>

-----------------------------------------------------------------------------
(***************************************************************************)
(* confirmPaymentAndActivateSubscription                                   *)
(***************************************************************************)

\* Mutant: Stripe's status is not checked.
ConfirmStartUnchecked(p) ==
    /\ Starting(p, "confirm")
    /\ \E s \in Sub, i \in issued :
          /\ Exists(s)
          /\ Goto(p, [at |-> "confirmFind", sub |-> s, intent |-> i,
                      queued |-> subs[s].isQueued])
    /\ UNCHANGED <<now, fails, dbVars, intents, issued>>

\* The body names a subscription and an intent, and nothing relates the two:
\* any intent that Stripe says succeeded will do.  Stripe never unsays it, so
\* that read and the findById are one step.  isQueued is kept for the last await.
ConfirmStart(p) ==
    /\ Starting(p, "confirm")
    /\ \E s \in Sub, i \in Succeeded :
          /\ Exists(s)
          /\ Goto(p, [at |-> "confirmFind", sub |-> s, intent |-> i,
                      queued |-> subs[s].isQueued])
    /\ UNCHANGED <<now, fails, dbVars, intents, issued>>

\* findPendingBySubscription; without one the request ends in an error.
ConfirmFind(p) ==
    /\ At(p, "confirmFind")
    /\ \E y \in FindOne(PendingBySubscription(req[p].sub)) :
          IF y = Null
          THEN Done(p)
          ELSE Goto(p, [at |-> "confirmInvoice", sub |-> req[p].sub,
                        intent |-> req[p].intent, queued |-> req[p].queued,
                        pay |-> y])
    /\ UNCHANGED <<now, fails, dbVars, intents, issued>>

\* Mutant: the invoice call is not awaited.
ConfirmInvoiceNotAwaited(p) ==
    /\ At(p, "confirmInvoice")
    /\ \/ invoices' = invoices \cup {req[p].sub}
       \/ UNCHANGED invoices
    /\ Goto(p, [req[p] EXCEPT !.at = "confirmComplete"])
    /\ UNCHANGED <<now, fails, subs, pays, credits, intents, issued>>

\* generateInvoiceForSubscription: when it returns, an invoice exists.  It may
\* throw instead, before or after inserting one (module Invoicing has its
\* awaits: a number already taken, a PDF that is not uploaded).
ConfirmInvoice(p) ==
    /\ At(p, "confirmInvoice")
    /\ \/ /\ invoices' = invoices \cup {req[p].sub}
          /\ Goto(p, [req[p] EXCEPT !.at = "confirmComplete"])
       \/ /\ invoices' \in {invoices, invoices \cup {req[p].sub}}
          /\ Done(p)
    /\ UNCHANGED <<now, fails, subs, pays, credits, intents, issued>>

\* Mutant: the request answers once the payment is completed.
ConfirmCompleteOnly(p) ==
    /\ At(p, "confirmComplete")
    /\ pays' = [pays EXCEPT ![req[p].pay].status = "completed",
                            ![req[p].pay].intent = req[p].intent,
                            ![req[p].pay].gatewayResponse = req[p].intent]
    /\ Done(p)
    /\ UNCHANGED <<now, fails, subs, invoices, credits, intents, issued>>

ConfirmComplete(p) ==
    /\ At(p, "confirmComplete")
    /\ pays' = [pays EXCEPT ![req[p].pay].status = "completed",
                            ![req[p].pay].intent = req[p].intent,
                            ![req[p].pay].gatewayResponse = req[p].intent]
    /\ Goto(p, [req[p] EXCEPT !.at = "confirmStatus"])
    /\ UNCHANGED <<now, fails, subs, invoices, credits, intents, issued>>

\* Mutant: the two outcomes are swapped.
ConfirmStatusSwapped(p) ==
    /\ At(p, "confirmStatus")
    /\ subs' = [subs EXCEPT ![req[p].sub].status =
                    IF req[p].queued THEN "active" ELSE "queued"]
    /\ Done(p)
    /\ UNCHANGED <<now, fails, pays, invoices, credits, intents, issued>>

\* updateStatus, with the isQueued read four awaits earlier.
ConfirmStatus(p) ==
    /\ At(p, "confirmStatus")
    /\ subs' = [subs EXCEPT ![req[p].sub].status =
                    IF req[p].queued THEN "queued" ELSE "active"]
    /\ Done(p)
    /\ UNCHANGED <<now, fails, pays, invoices, credits, intents, issued>>

-----------------------------------------------------------------------------
(***************************************************************************)
(* retryPayment                                                            *)
(***************************************************************************)
RetryStart(p) ==
    /\ Starting(p, "retry")
    /\ RoomForIntent
    /\ \E s \in Sub :
          /\ subs[s].status = "pending"
          /\ Goto(p, [at |-> "retryFind", sub |-> s])
    /\ UNCHANGED <<now, fails, dbVars, intents, issued>>

RetryFind(p) ==
    /\ At(p, "retryFind")
    /\ \E y \in FindOne(PendingBySubscription(req[p].sub)) :
          IF y = Null
          THEN Done(p)
          ELSE Goto(p, [at |-> "retryIssue", sub |-> req[p].sub, pay |-> y])
    /\ UNCHANGED <<now, fails, dbVars, intents, issued>>

\* A fresh intent, and the payment rewritten to it and to pending, also when a
\* confirmation has completed it since: its gatewayResponse is left.  The old
\* intent is left as it is at Stripe.
RetryIssue(p) ==
    /\ At(p, "retryIssue")
    /\ \E i \in FreshIntent :
          /\ intents' = [intents EXCEPT ![i] = "open"]
          /\ pays' = [pays EXCEPT ![req[p].pay].status = "pending",
                                  ![req[p].pay].intent = i]
          /\ issued' = issued \cup {i}
    /\ Done(p)
    /\ UNCHANGED <<now, fails, subs, invoices, credits>>

-----------------------------------------------------------------------------
CheckoutStep(p) ==
    \/ CreateStart(p) \/ CreatePayment(p) \/ CreateQueue(p)
    \/ CreateSub(p) \/ CreateLink(p)
    \/ ConfirmStart(p) \/ ConfirmFind(p) \/ ConfirmInvoice(p)
    \/ ConfirmComplete(p) \/ ConfirmStatus(p)
    \/ RetryStart(p) \/ RetryFind(p) \/ RetryIssue(p)
=============================================================================

---------------------------- MODULE AddonPurchase ----------------------------
(***************************************************************************)
(* purchaseAddon and confirmAddonPurchase of SubscriptionPaymentService:   *)
(* an add-on is bought for the subscription that is active when the intent *)
(* is asked for, and credited to it when the payment is confirmed.         *)
(***************************************************************************)
EXTENDS SubscriptionStore

AddonRequest ==
    [at: {"addonPayment"}, sub: Sub]
    \cup
    [at: {"addonCredit", "addonComplete"}, pay: Pay, intent: Intent]

\* Bound on the instance: ids are left for the documents of this purchase.
RoomForAddon ==
    /\ Cardinality({i \in Intent : intents[i] = "none"})
           > Cardinality({p \in Slot : req[p].at \in
                {"createPayment", "retryFind", "retryIssue", "addonPayment"}})
    /\ Cardinality({y \in Pay : pays[y].status = "none"})
           > Cardinality({p \in Slot : req[p].at \in {"createPayment", "addonPayment"}})

\* findActiveByCompany; the add-on's own document never changes here.
AddonStart(p) ==
    /\ Starting(p, "addon")
    /\ RoomForAddon
    /\ \E c \in Company : \E s \in ActiveByCompany(c) :
          Goto(p, [at |-> "addonPayment", sub |-> s])
    /\ UNCHANGED <<now, fails, dbVars, intents, issued>>

\* The intent, the payment that names the subscription, and the response.
AddonPayment(p) ==
    /\ At(p, "addonPayment")
    /\ \E i \in FreshIntent, y \in FreshPay :
          /\ intents' = [intents EXCEPT ![i] = "open"]
          /\ pays' = [pays EXCEPT ![y] = [status |-> "pending", type |-> "addon",
                                          sub |-> req[p].sub, intent |-> i,
                                          gatewayResponse |-> Null]]
          /\ issued' = issued \cup {i}
    /\ Done(p)
    /\ UNCHANGED <<now, fails, subs, invoices, credits>>

\* Some intent succeeded and some payment is for an add-on; neither of the two,
\* nor the subscription the payment names, ever changes.  The payment's own
\* intent and its status are not read.
AddonConfirm(p) ==
    /\ Starting(p, "addon")
    /\ \E y \in Pay, i \in Succeeded :
          /\ pays[y].type = "addon"
          /\ credits[y] < MaxCredits
          /\ Goto(p, [at |-> "addonCredit", pay |-> y, intent |-> i])
    /\ UNCHANGED <<now, fails, dbVars, intents, issued>>

\* addAddon: one update pushes the entry and increments the limit.
AddonCredit(p) ==
    /\ At(p, "addonCredit")
    /\ credits' = [credits EXCEPT ![req[p].pay] = @ + 1]
    /\ Goto(p, [req[p] EXCEPT !.at = "addonComplete"])
    /\ UNCHANGED <<now, fails, subs, pays, invoices, intents, issued>>

AddonComplete(p) ==
    /\ At(p, "addonComplete")
    /\ pays' = [pays EXCEPT ![req[p].pay].status = "completed",
                            ![req[p].pay].intent = req[p].intent,
                            ![req[p].pay].gatewayResponse = req[p].intent]
    /\ Done(p)
    /\ UNCHANGED <<now, fails, subs, invoices, credits, intents, issued>>

AddonStep(p) ==
    \/ AddonStart(p) \/ AddonPayment(p)
    \/ AddonConfirm(p) \/ AddonCredit(p) \/ AddonComplete(p)
=============================================================================

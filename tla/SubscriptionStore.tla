------------------------- MODULE SubscriptionStore -------------------------
(***************************************************************************)
(* The collections the subscription handlers share, the queries they run   *)
(* on them and the types of both.  A handler is an Express request or a    *)
(* BullMQ job; it runs from one await to the next without being            *)
(* interrupted, so a read and a later write of the same handler are two    *)
(* steps with anything in between.  No transaction or lock protects them.  *)
(***************************************************************************)
EXTENDS Naturals, FiniteSets, Sequences, SequencesExt

CONSTANTS
    Company,    \* companies that subscribe
    Sub,        \* ids of company_subscriptions documents
    Pay,        \* ids of payments documents
    Intent,     \* ids of Stripe payment intents
    Null,       \* an absent reference
    Client,     \* slots for requests in flight
    Worker,     \* slots for BullMQ jobs in flight
    Ops,        \* the operations a run lets start
    Durations,  \* plan durations, in clock ticks
    MaxNow,     \* bound on the clock
    MaxFail,    \* bound on handlers that reject half way
    MaxCredits  \* bound on confirmations of one add-on payment

Operations == {"create", "confirm", "retry", "cancel", "process", "addon"}

ASSUME StoreAssumption ==
    /\ IsFiniteSet(Sub) /\ IsFiniteSet(Pay) /\ IsFiniteSet(Intent)
    /\ Sub \cup Pay \cup Intent \subseteq Nat
    /\ Null \notin Company \cup Nat
    /\ Ops \subseteq Operations
    /\ Durations \subseteq Nat \ {0}
    /\ MaxNow \in Nat /\ MaxFail \in Nat /\ MaxCredits \in Nat

VARIABLES
    now,       \* the wall clock
    fails,     \* handlers that rejected half way so far
    subs,      \* company_subscriptions
    pays,      \* payments
    intents,   \* Stripe's side: what became of each intent
    issued,    \* the intents whose secret a response gave to a client
    invoices,  \* subscriptions an invoice document exists for
    credits,   \* per payment, entries it has in its subscription's addons
    req        \* what each slot is doing: the await it is at, its locals

Slot == Client \cup Worker

dbVars == <<subs, pays, invoices, credits>>
vars == <<now, fails, subs, pays, intents, issued, invoices, credits, req>>

(***************************************************************************)
(* Documents.  A subscription with no previousSubscriptionId was created   *)
(* while the company had no active one: it was never queued.               *)
(***************************************************************************)
SubStatus == {"none", "pending", "queued", "active", "cancelled", "expired"}

SubDoc == [company: Company \cup {Null}, status: SubStatus,
           isQueued: BOOLEAN, queuePosition: Nat,
           startDate: Nat, endDate: Nat, scheduledStart: Nat, duration: Nat,
           previous: Sub \cup {Null}, cancelledAt: BOOLEAN,
           paymentId: Pay \cup {Null}]

NoSubDoc == [company |-> Null, status |-> "none",
             isQueued |-> FALSE, queuePosition |-> 0,
             startDate |-> 0, endDate |-> 0, scheduledStart |-> 0, duration |-> 0,
             previous |-> Null, cancelledAt |-> FALSE, paymentId |-> Null]

PayDoc == [status: {"none", "pending", "completed"},
           type: {"plan", "addon"},
           sub: Sub \cup {Null},
           intent: Intent \cup {Null},            \* transactionId
           gatewayResponse: Intent \cup {Null}]   \* the transaction Stripe confirmed

NoPayDoc == [status |-> "none", type |-> "plan", sub |-> Null, intent |-> Null,
             gatewayResponse |-> Null]

(***************************************************************************)
(* Queries.  findOne without a sort returns any match; a sort on           *)
(* queuePosition leaves ties in any order.                                 *)
(***************************************************************************)
FindOne(S) == IF S = {} THEN {Null} ELSE S

\* Ids grow with every insert, as ObjectIds do: the next one is the least left.
Least(S) == {x \in S : \A y \in S : x <= y}

FreshSub    == Least({s \in Sub : subs[s].status = "none"})
FreshPay    == Least({y \in Pay : pays[y].status = "none"})
FreshIntent == Least({i \in Intent : intents[i] = "none"})

ActiveByCompany(c) ==
    {s \in Sub : /\ subs[s].company = c
                 /\ subs[s].status \in {"active", "pending"}
                 /\ ~subs[s].isQueued
                 /\ subs[s].startDate <= now
                 /\ now <= subs[s].endDate}

ByPosition(S) ==
    {q \in SetToSeqs(S) : \A i, j \in DOMAIN q :
        i < j => subs[q[i]].queuePosition <= subs[q[j]].queuePosition}

Waiting == {s \in Sub : subs[s].isQueued /\ subs[s].status = "queued"}

QueuedByCompany(c) == ByPosition({s \in Waiting : subs[s].company = c})

ReadyToActivate == ByPosition({s \in Waiting : subs[s].scheduledStart <= now})

\* Mutant: the last day already counts as over.
ExpiredOnLastDay ==
    SetToSeqs({s \in Sub : /\ subs[s].status = "active"
                           /\ ~subs[s].isQueued
                           /\ subs[s].endDate <= now})

Expired ==
    SetToSeqs({s \in Sub : /\ subs[s].status = "active"
                           /\ ~subs[s].isQueued
                           /\ subs[s].endDate < now})

PendingBySubscription(s) ==
    {p \in Pay : pays[p].sub = s /\ pays[p].status = "pending"}

\* findById: what a client may name in a request is any document there is.
Exists(s) == subs[s].status # "none"

\* getPaymentStatus: what Stripe says of an intent, whoever it was made for.
Succeeded == {i \in Intent : intents[i] = "succeeded"}

(***************************************************************************)
(* Slots.                                                                  *)
(***************************************************************************)
Idle == [at |-> "idle"]

At(p, label) == req[p].at = label

Goto(p, r) == req' = [req EXCEPT ![p] = r]

Done(p) == Goto(p, Idle)

Starting(p, op) ==
    /\ At(p, "idle")
    /\ op \in Ops
    /\ p \in IF op = "process" THEN Worker ELSE Client

StoreInit ==
    /\ now = 1
    /\ fails = 0
    /\ subs = [s \in Sub |-> NoSubDoc]
    /\ pays = [p \in Pay |-> NoPayDoc]
    /\ intents = [i \in Intent |-> "none"]
    /\ issued = {}
    /\ invoices = {}
    /\ credits = [p \in Pay |-> 0]
    /\ req = [p \in Slot |-> Idle]

StoreTypeOK ==
    /\ now \in Nat
    /\ fails \in Nat
    /\ subs \in [Sub -> SubDoc]
    /\ pays \in [Pay -> PayDoc]
    /\ intents \in [Intent -> {"none", "open", "succeeded"}]
    /\ issued \subseteq Intent
    /\ invoices \subseteq Sub
    /\ credits \in [Pay -> Nat]

(***************************************************************************)
(* The clock, and Stripe charging an intent its client was given.          *)
(***************************************************************************)
Tick ==
    /\ now < MaxNow
    /\ now' = now + 1
    /\ UNCHANGED <<fails, dbVars, intents, issued, req>>

Charge ==
    /\ \E i \in issued :
          /\ intents[i] = "open"
          /\ intents' = [intents EXCEPT ![i] = "succeeded"]
    /\ UNCHANGED <<now, fails, dbVars, issued, req>>

(***************************************************************************)
(* Any await may reject (the driver, Stripe or the process fails): the     *)
(* handler stops there and what it has written stays written.              *)
(***************************************************************************)
HandlerFails(p) ==
    /\ ~At(p, "idle")
    /\ fails < MaxFail
    /\ fails' = fails + 1
    /\ Done(p)
    /\ UNCHANGED <<now, dbVars, intents, issued>>
=============================================================================

------------------------------- MODULE Plans -------------------------------
(***************************************************************************)
(* The catalogue the administrator keeps: subscription plans and skills,   *)
(* and what a checkout takes from a plan while it is being edited.         *)
(* Checkout models when a payment is made; this module models what for.    *)
(***************************************************************************)
EXTENDS Naturals, FiniteSets

CONSTANTS
    Plan,       \* subscription_plans ids; an id is used once
    Skill,      \* skills ids; an id is used once
    Sale,       \* checkouts
    Name,       \* names of plans and of skills
    Free,       \* the name of the free plan
    Within,     \* the pairs of names the first of which is found in the second
    Price,      \* prices
    Terms,      \* duration, limits and features of a plan
    Request,    \* slots for requests in flight
    MaxRequest, \* bound on the requests started
    MaxFail,    \* bound on awaits that reject
    Null,       \* nothing there yet
    Gone        \* deleted

ASSUME CatalogueAssumption ==
    /\ Free \in Name
    /\ Within \subseteq Name \X Name
    /\ \A n \in Name : <<n, n>> \in Within
    /\ Price \subseteq Nat /\ 0 \in Price
    /\ {MaxRequest, MaxFail} \subseteq Nat
    /\ Null # Gone /\ Null \notin BOOLEAN
    /\ \A d \in [name: Name, price: Price, terms: Terms, isActive: BOOLEAN]
               \cup [name: Name, blocked: BOOLEAN] : d \notin {Null, Gone}

VARIABLES
    plans,
    skills,
    sales,   \* what Stripe was asked for, the payment, the subscription's snapshot
    req,     \* what each slot is doing: the await it is at, its locals
    started, \* requests so far
    fails,   \* awaits that rejected so far
    flips,   \* history: flags that requests have left the other way than a new
             \* plan (active) or a new skill (not blocked) has them
    raced    \* history: flags written, since a body last set them, between the
             \* read and the save of a toggle; plans renamed to Free with a
             \* price kept or on its way

catalogueVars == <<plans, skills, sales, req, started, fails, flips, raced>>
slotVars == <<started, fails>>
historyVars == <<flips, raced>>

PlanDoc == [name: Name, price: Price, terms: Terms, isActive: BOOLEAN]

SkillDoc == [name: Name, blocked: BOOLEAN]

Snapshot == [name: Name, price: Price, terms: Terms]

SaleDoc == [asked: SUBSET Price, amount: Price \cup {Null}, snapshot: Snapshot \cup {Null}]

NoSale == [asked |-> {}, amount |-> Null, snapshot |-> Null]

Unborn(collection) == {i \in DOMAIN collection : collection[i] = Null}

Alive(collection) == {i \in DOMAIN collection : collection[i] \notin {Null, Gone}}

\* The unique index: an insert or update that would repeat a name is refused.
NameTaken(collection, n, i) == \E j \in Alive(collection) \ {i} : collection[j].name = n

\* findByName of plans matches the name anywhere in another, by a pattern.
findByName(n) == {i \in Alive(plans) : <<n, plans[i].name>> \in Within}

Idle == [at |-> "idle"]

At(p, label) == req[p].at = label

Goto(p, r) == req' = [req EXCEPT ![p] = r]

Done(p) == Goto(p, Idle)

\* Bound: a request starts while MaxRequest leaves room for it.
Starts(p) == At(p, "idle") /\ started < MaxRequest /\ started' = started + 1

CatalogueInit ==
    /\ plans = [i \in Plan |-> Null]
    /\ skills = [s \in Skill |-> Null]
    /\ sales = [y \in Sale |-> NoSale]
    /\ req = [p \in Request |-> Idle]
    /\ started = 0
    /\ fails = 0
    /\ flips = {}
    /\ raced = {}

(***************************************************************************)
(* The administrator's plans.                                              *)
(***************************************************************************)
\* The service and the schema's validator ask for the same.
PriceFits(n, price) == n = Free <=> price = 0

\* The body is the document, isActive included.
createPlan(p) ==
    /\ Starts(p)
    /\ \E d \in PlanDoc :
          /\ findByName(d.name) = {}
          /\ PriceFits(d.name, d.price)
          /\ Goto(p, [at |-> "planInsert", doc |-> d])
    /\ UNCHANGED <<plans, skills, sales, fails, historyVars>>

\* History: what a body that may name a flag leaves of its count.
Counted(flag, new, usual) ==
    IF new = Null THEN flips
    ELSE IF new = usual THEN flips \ {flag} ELSE flips \cup {flag}

Turning(flag) == \E p \in Request : At(p, "toggleSave") /\ req[p].flag = flag

\* History: a body that names a flag comes between the read and the save of
\* a toggle, or makes good what overlapped before.
Overlapped(flag, new) ==
    IF new = Null THEN raced
    ELSE IF Turning(flag) THEN raced \cup {flag} ELSE raced \ {flag}

PlanInsert(p) ==
    /\ At(p, "planInsert")
    /\ \/ /\ ~NameTaken(plans, req[p].doc.name, Null)
          /\ \E i \in Unborn(plans) :
                /\ plans' = [plans EXCEPT ![i] = req[p].doc]
                /\ flips' = Counted(<<"plan", i>>, req[p].doc.isActive, TRUE)
       \/ /\ NameTaken(plans, req[p].doc.name, Null)
          /\ UNCHANGED <<plans, flips>>
    /\ Done(p)
    /\ UNCHANGED <<skills, sales, slotVars, raced>>

\* What the body of an update brings; Null where it leaves a field alone.
Update == [name: Name \cup {Null}, price: Price \cup {Null}, terms: Terms \cup {Null},
           isActive: BOOLEAN \cup {Null}]

\* Mutant: only the new name is looked at.
UpdateFitsNew(was, u) == u.name = Free => u.price \in {Null, 0}

\* The price is looked at only if the update brings one, and no validator
\* runs on an update.
UpdateFits(was, u) == Free \in {was, u.name} => u.price \in {Null, 0}

updatePlan(p) ==
    /\ Starts(p)
    /\ \E i \in Alive(plans), u \in Update :
          LET was == plans[i].name
              renames == u.name \notin {Null, was}
          IN /\ renames \/ UpdateFits(was, u)
             /\ Goto(p, [at |-> IF renames THEN "updateName" ELSE "updateWrite",
                         plan |-> i, was |-> was, update |-> u])
    /\ UNCHANGED <<plans, skills, sales, fails, historyVars>>

UpdateName(p) ==
    /\ At(p, "updateName")
    /\ IF findByName(req[p].update.name) = {} /\ UpdateFits(req[p].was, req[p].update)
       THEN Goto(p, [req[p] EXCEPT !.at = "updateWrite"])
       ELSE Done(p)
    /\ UNCHANGED <<plans, skills, sales, slotVars, historyVars>>

Given(new, old) == IF new = Null THEN old ELSE new

Updated(plan, u) ==
    [name |-> Given(u.name, plan.name), price |-> Given(u.price, plan.price),
     terms |-> Given(u.terms, plan.terms), isActive |-> Given(u.isActive, plan.isActive)]

\* An update that has looked at the name and not yet written a price.
Pricing(q, i) ==
    /\ req[q].at \in {"updateName", "updateWrite"}
    /\ req[q].plan = i
    /\ req[q].update.price \notin {Null, 0}

\* History: a plan becomes the free one and keeps its price, or another
\* update is about to price it.
RenamedFree(p, i, u) ==
    IF /\ u.name = Free /\ plans[i].name # Free
       /\ \/ u.price = Null /\ plans[i].price # 0
          \/ \E q \in Request \ {p} : Pricing(q, i)
    THEN {<<"free", i>>} ELSE {}

UpdateWrite(p) ==
    /\ At(p, "updateWrite")
    /\ LET i == req[p].plan
           u == req[p].update
       IN IF i \in Alive(plans) /\ ~NameTaken(plans, u.name, i)
          THEN /\ plans' = [plans EXCEPT ![i] = Updated(@, u)]
               /\ flips' = Counted(<<"plan", i>>, u.isActive, TRUE)
               /\ raced' = Overlapped(<<"plan", i>>, u.isActive) \cup RenamedFree(p, i, u)
          ELSE UNCHANGED <<plans, historyVars>>
    /\ Done(p)
    /\ UNCHANGED <<skills, sales, slotVars>>

SetTerms ==
    /\ started < MaxRequest /\ started' = started + 1
    /\ \E i \in Alive(plans), t \in Terms : plans' = [plans EXCEPT ![i].terms = t]
    /\ UNCHANGED <<skills, sales, req, fails, historyVars>>

updatePlanLimits == SetTerms

updatePlanFeatures == SetTerms

Delete(collection, i) == [collection EXCEPT ![i] = Gone]

deletePlan(p) ==
    /\ Starts(p)
    /\ \E i \in Alive(plans) : Goto(p, [at |-> "planDelete", plan |-> i])
    /\ UNCHANGED <<plans, skills, sales, fails, historyVars>>

\* Deleting what is gone already is no error.
PlanDelete(p) ==
    /\ At(p, "planDelete")
    /\ plans' = Delete(plans, req[p].plan)
    /\ Done(p)
    /\ UNCHANGED <<skills, sales, slotVars, historyVars>>

(***************************************************************************)
(* Flags turned over: read, then written as the opposite of what was read. *)
(***************************************************************************)
Turn(p, flag, seen) ==
    /\ Starts(p)
    /\ Goto(p, [at |-> "toggleSave", flag |-> flag, seen |-> seen])
    /\ raced' = IF Turning(flag) THEN raced \cup {flag} ELSE raced
    /\ UNCHANGED <<plans, skills, sales, fails, flips>>

togglePlanStatus(p) == \E i \in Alive(plans) : Turn(p, <<"plan", i>>, plans[i].isActive)

Flip(flag) == flips' = IF flag \in flips THEN flips \ {flag} ELSE flips \cup {flag}

\* save rejects when the document was deleted. Mutant: a toggle only turns off.
PlanToggleSaveOff(p) ==
    /\ At(p, "toggleSave") /\ req[p].flag[1] = "plan"
    /\ LET i == req[p].flag[2]
       IN IF i \in Alive(plans)
          THEN plans' = [plans EXCEPT ![i].isActive = FALSE] /\ Flip(req[p].flag)
          ELSE UNCHANGED <<plans, flips>>
    /\ Done(p)
    /\ UNCHANGED <<skills, sales, slotVars, raced>>

PlanToggleSave(p) ==
    /\ At(p, "toggleSave") /\ req[p].flag[1] = "plan"
    /\ LET i == req[p].flag[2]
       IN IF i \in Alive(plans)
          THEN plans' = [plans EXCEPT ![i].isActive = ~req[p].seen] /\ Flip(req[p].flag)
          ELSE UNCHANGED <<plans, flips>>
    /\ Done(p)
    /\ UNCHANGED <<skills, sales, slotVars, raced>>

(***************************************************************************)
(* A checkout, as far as what it sells: the plan is read once, whether it  *)
(* is active or not. Stripe is asked, the payment and the subscription     *)
(* written, from that reading.                                             *)
(***************************************************************************)
Selling == {"saleAsk", "salePay", "saleCreate"}

SaleRead(p) ==
    /\ Starts(p)
    /\ \E y \in Sale, i \in Alive(plans) :
          /\ sales[y] = NoSale
          /\ \A q \in Request : req[q].at \in Selling => req[q].sale # y
          /\ Goto(p, [at |-> "saleAsk", sale |-> y, id |-> i, plan |-> plans[i]])
    /\ UNCHANGED <<plans, skills, sales, fails, historyVars>>

SaleAsk(p) ==
    /\ At(p, "saleAsk")
    /\ sales' = [sales EXCEPT ![req[p].sale].asked = {req[p].plan.price}]
    /\ Goto(p, [req[p] EXCEPT !.at = "salePay"])
    /\ UNCHANGED <<plans, skills, slotVars, historyVars>>

SalePay(p) ==
    /\ At(p, "salePay")
    /\ sales' = [sales EXCEPT ![req[p].sale].amount = req[p].plan.price]
    /\ Goto(p, [req[p] EXCEPT !.at = "saleCreate"])
    /\ UNCHANGED <<plans, skills, slotVars, historyVars>>

\* What a subscription keeps of its plan. Mutant: the plan as it is by now.
SoldNow(r) ==
    LET plan == IF r.id \in Alive(plans) THEN plans[r.id] ELSE r.plan
    IN [name |-> plan.name, price |-> plan.price, terms |-> plan.terms]

Sold(r) == [name |-> r.plan.name, price |-> r.plan.price, terms |-> r.plan.terms]

SaleCreate(p) ==
    /\ At(p, "saleCreate")
    /\ sales' = [sales EXCEPT ![req[p].sale].snapshot = Sold(req[p])]
    /\ Done(p)
    /\ UNCHANGED <<plans, skills, slotVars, historyVars>>

\* The amount asked for again is that of the payment.
RetryRead(p) ==
    /\ Starts(p)
    /\ \E y \in Sale :
          /\ sales[y].snapshot # Null
          /\ Goto(p, [at |-> "retryAsk", sale |-> y, amount |-> sales[y].amount])
    /\ UNCHANGED <<plans, skills, sales, fails, historyVars>>

RetryAsk(p) ==
    /\ At(p, "retryAsk")
    /\ sales' = [sales EXCEPT ![req[p].sale].asked = @ \cup {req[p].amount}]
    /\ Done(p)
    /\ UNCHANGED <<plans, skills, slotVars, historyVars>>
=============================================================================

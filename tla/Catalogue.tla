----------------------------- MODULE Catalogue -----------------------------
(***************************************************************************)
(* The administrator's skills beside the plans of Plans, and the whole     *)
(* catalogue with every request interleaved with every other.              *)
(***************************************************************************)
EXTENDS Plans

createSkill(p) ==
    /\ Starts(p)
    /\ \E n \in Name :
          /\ \A s \in Alive(skills) : skills[s].name # n
          /\ Goto(p, [at |-> "skillInsert", doc |-> [name |-> n, blocked |-> FALSE]])
    /\ UNCHANGED <<plans, skills, sales, fails, historyVars>>

SkillInsert(p) ==
    /\ At(p, "skillInsert")
    /\ \/ /\ ~NameTaken(skills, req[p].doc.name, Null)
          /\ \E s \in Unborn(skills) : skills' = [skills EXCEPT ![s] = req[p].doc]
       \/ /\ NameTaken(skills, req[p].doc.name, Null)
          /\ UNCHANGED skills
    /\ Done(p)
    /\ UNCHANGED <<plans, sales, slotVars, historyVars>>

\* One write of the whole body, blocked included; nothing is read before it.
updateSkill ==
    /\ started < MaxRequest /\ started' = started + 1
    /\ \E s \in Alive(skills), n \in Name \cup {Null}, b \in BOOLEAN \cup {Null} :
          /\ ~NameTaken(skills, n, s)
          /\ skills' = [skills EXCEPT ![s] = [name |-> Given(n, @.name),
                                              blocked |-> Given(b, @.blocked)]]
          /\ flips' = Counted(<<"skill", s>>, b, FALSE)
          /\ raced' = Overlapped(<<"skill", s>>, b)
    /\ UNCHANGED <<plans, sales, req, fails>>

blockOrUnblockSkill(p) == \E s \in Alive(skills) : Turn(p, <<"skill", s>>, skills[s].blocked)

SkillToggleSave(p) ==
    /\ At(p, "toggleSave") /\ req[p].flag[1] = "skill"
    /\ LET s == req[p].flag[2]
       IN IF s \in Alive(skills)
          THEN skills' = [skills EXCEPT ![s].blocked = ~req[p].seen] /\ Flip(req[p].flag)
          ELSE UNCHANGED <<skills, flips>>
    /\ Done(p)
    /\ UNCHANGED <<plans, sales, slotVars, raced>>

deleteSkill ==
    /\ started < MaxRequest /\ started' = started + 1
    /\ \E s \in Alive(skills) : skills' = Delete(skills, s)
    /\ UNCHANGED <<plans, sales, req, fails, historyVars>>

\* The await a request is at rejects: nothing after it runs.
RequestFails(p) ==
    /\ ~At(p, "idle") /\ fails < MaxFail
    /\ fails' = fails + 1
    /\ Done(p)
    /\ UNCHANGED <<plans, skills, sales, started, historyVars>>

PlanStep(p) ==
    \/ createPlan(p) \/ PlanInsert(p)
    \/ updatePlan(p) \/ UpdateName(p) \/ UpdateWrite(p)
    \/ deletePlan(p) \/ PlanDelete(p)
    \/ togglePlanStatus(p) \/ PlanToggleSave(p)

SkillStep(p) ==
    \/ createSkill(p) \/ SkillInsert(p)
    \/ blockOrUnblockSkill(p) \/ SkillToggleSave(p)

SaleStep(p) ==
    \/ SaleRead(p) \/ SaleAsk(p) \/ SalePay(p) \/ SaleCreate(p)
    \/ RetryRead(p) \/ RetryAsk(p)

CatalogueNext ==
    \/ \E p \in Request : PlanStep(p) \/ SkillStep(p) \/ SaleStep(p) \/ RequestFails(p)
    \/ updatePlanLimits
    \/ updatePlanFeatures
    \/ updateSkill
    \/ deleteSkill

CatalogueSpec == CatalogueInit /\ [][CatalogueNext]_catalogueVars

(***************************************************************************)
(* What the catalogue keeps to.                                            *)
(***************************************************************************)
Flag == ({"plan"} \X Plan) \cup ({"skill"} \X Skill)

ReqDoc ==
    [at: {"idle"}]
    \cup [at: {"planInsert"}, doc: PlanDoc]
    \cup [at: {"updateName", "updateWrite"}, plan: Plan, was: Name, update: Update]
    \cup [at: {"planDelete"}, plan: Plan]
    \cup [at: {"toggleSave"}, flag: Flag, seen: BOOLEAN]
    \cup [at: Selling, sale: Sale, id: Plan, plan: PlanDoc]
    \cup [at: {"retryAsk"}, sale: Sale, amount: Price \cup {Null}]
    \cup [at: {"skillInsert"}, doc: SkillDoc]

CatalogueTypeOK ==
    /\ plans \in [Plan -> PlanDoc \cup {Null, Gone}]
    /\ skills \in [Skill -> SkillDoc \cup {Null, Gone}]
    /\ sales \in [Sale -> SaleDoc]
    /\ req \in [Request -> ReqDoc]
    /\ started \in 0 .. MaxRequest
    /\ fails \in 0 .. MaxFail
    /\ flips \subseteq Flag
    /\ raced \subseteq Flag \cup ({"free"} \X Plan)

\* The plan named free costs nothing, however updates of names and prices
\* interleave, unless a plan was renamed to it with its price left alone or
\* with another update about to price it.
FreeCostsNothingUnlessRaced ==
    \A i \in Alive(plans) :
        plans[i].name = Free /\ <<"free", i>> \notin raced => plans[i].price = 0

\* What a subscription is sold at, what its payment records and every amount
\* Stripe was asked for, retries included, are one price: edits of the plan
\* while it is sold, and its deletion, do not come between them.
AskedAsSold ==
    \A y \in Sale : sales[y].snapshot # Null =>
        /\ sales[y].asked = {sales[y].snapshot.price}
        /\ sales[y].amount = sales[y].snapshot.price

\* From the last body that set it on (a new plan's is one), a flag is turned
\* over as often as its toggle has answered, however edits, deletions and
\* toggles of other documents interleave, unless it was written between the
\* read and the save of one of its toggles.
TogglesCountUnlessRaced ==
    /\ \A i \in Alive(plans) : <<"plan", i>> \notin raced =>
          (plans[i].isActive <=> <<"plan", i>> \notin flips)
    /\ \A s \in Alive(skills) : <<"skill", s>> \notin raced =>
          (skills[s].blocked <=> <<"skill", s>> \in flips)
=============================================================================

-------------------------- MODULE CatalogueProofs ---------------------------
(***************************************************************************)
(* Type correctness of Catalogue and its three safety properties, for any  *)
(* number of plans, skills, sales and requests in flight.                  *)
(***************************************************************************)
EXTENDS Catalogue, TLAPS

-----------------------------------------------------------------------------
(***************************************************************************)
(* Types.                                                                  *)
(***************************************************************************)

\* The locals a slot holds at each await.
LEMMA CatalogueLocals ==
    ASSUME NEW r \in ReqDoc
    PROVE  /\ r.at = "planInsert" => r.doc \in PlanDoc
           /\ r.at \in {"updateName", "updateWrite"} =>
                 /\ r.plan \in Plan /\ r.was \in Name /\ r.update \in Update
                 /\ r \in [at: {"updateName", "updateWrite"},
                           plan: Plan, was: Name, update: Update]
           /\ r.at = "planDelete" => r.plan \in Plan
           /\ r.at = "toggleSave" => r.flag \in Flag /\ r.seen \in BOOLEAN
           /\ r.at \in Selling =>
                 /\ r.sale \in Sale /\ r.plan \in PlanDoc
                 /\ r \in [at: Selling, sale: Sale, id: Plan, plan: PlanDoc]
           /\ r.at = "retryAsk" => r.sale \in Sale /\ r.amount \in Price \cup {Null}
           /\ r.at = "skillInsert" => r.doc \in SkillDoc
  BY DEF ReqDoc, Selling

\* What a request that starts or moves on puts into its slot.
LEMMA CatalogueStarts ==
    /\ Idle \in ReqDoc
    /\ \A d \in PlanDoc : [at |-> "planInsert", doc |-> d] \in ReqDoc
    /\ \A i \in Plan, n \in Name, u \in Update, l \in {"updateName", "updateWrite"} :
          [at |-> l, plan |-> i, was |-> n, update |-> u] \in ReqDoc
    /\ \A i \in Plan : [at |-> "planDelete", plan |-> i] \in ReqDoc
    /\ \A f \in Flag, b \in BOOLEAN : [at |-> "toggleSave", flag |-> f, seen |-> b] \in ReqDoc
    /\ \A y \in Sale, i \in Plan, d \in PlanDoc, l \in Selling :
          [at |-> l, sale |-> y, id |-> i, plan |-> d] \in ReqDoc
    /\ \A y \in Sale, a \in Price \cup {Null} :
          [at |-> "retryAsk", sale |-> y, amount |-> a] \in ReqDoc
    /\ \A d \in SkillDoc : [at |-> "skillInsert", doc |-> d] \in ReqDoc
  BY DEF ReqDoc, Idle

\* The documents there are.
LEMMA AliveTypes ==
    ASSUME CatalogueTypeOK
    PROVE  /\ Alive(plans) \subseteq Plan /\ Unborn(plans) \subseteq Plan
           /\ Alive(skills) \subseteq Skill /\ Unborn(skills) \subseteq Skill
           /\ \A i \in Alive(plans) : plans[i] \in PlanDoc
           /\ \A s \in Alive(skills) : skills[s] \in SkillDoc
  BY DEF CatalogueTypeOK, Alive, Unborn

LEMMA CatalogueFrame ==
    ASSUME CatalogueTypeOK, NEW p \in Request, NEW x \in ReqDoc, Goto(p, x)
    PROVE  /\ req' \in [Request -> ReqDoc]
           /\ req'[p] = x
           /\ \A q \in Request \ {p} : req'[q] = req[q]
  BY DEF CatalogueTypeOK, Goto

LEMMA StartsTypes ==
    ASSUME CatalogueTypeOK, started < MaxRequest, started' = started + 1
    PROVE  started' \in 0 .. MaxRequest
  BY CatalogueAssumption DEF CatalogueTypeOK

LEMMA UpdatedPlan ==
    ASSUME NEW d \in PlanDoc, NEW u \in Update
    PROVE  Updated(d, u) \in PlanDoc
  BY DEF Updated, PlanDoc, Update, Given

LEMMA PlanTypes ==
    ASSUME CatalogueTypeOK, NEW p \in Request, PlanStep(p)
    PROVE  CatalogueTypeOK'
<1>t. /\ req[p] \in ReqDoc
      /\ plans \in [Plan -> PlanDoc \cup {Null, Gone}]
      /\ raced \subseteq Flag \cup ({"free"} \X Plan) /\ flips \subseteq Flag
  BY DEF CatalogueTypeOK
<1>d. Done(p) => req' \in [Request -> ReqDoc]
  BY CatalogueFrame, CatalogueStarts DEF Done
<1>1. CASE createPlan(p)
  <2>3. req' \in [Request -> ReqDoc]
    BY <1>1, CatalogueFrame, CatalogueStarts DEF createPlan
  <2> QED
    BY <1>1, <2>3, StartsTypes DEF createPlan, Starts, CatalogueTypeOK, historyVars
<1>2. CASE PlanInsert(p)
  <2>1. req[p].doc \in PlanDoc
    BY <1>2, <1>t, CatalogueLocals DEF PlanInsert, At
  <2>2. plans' \in [Plan -> PlanDoc \cup {Null, Gone}]
    BY <1>2, <1>t, <2>1, AliveTypes DEF PlanInsert
  <2>3. flips' \subseteq Flag
    BY <1>2, <1>t, AliveTypes DEF PlanInsert, Counted, Flag
  <2> QED
    BY <1>2, <1>d, <2>2, <2>3 DEF PlanInsert, CatalogueTypeOK, slotVars
<1>3. CASE updatePlan(p)
  <2>1. PICK i \in Alive(plans), u \in Update, l \in {"updateName", "updateWrite"} :
           Goto(p, [at |-> l, plan |-> i, was |-> plans[i].name, update |-> u])
    BY <1>3 DEF updatePlan
  <2>2. i \in Plan /\ plans[i].name \in Name
    BY AliveTypes DEF PlanDoc
  <2>3. req' \in [Request -> ReqDoc]
    BY <2>1, <2>2, CatalogueFrame, CatalogueStarts
  <2> QED
    BY <1>3, <2>3, StartsTypes DEF updatePlan, Starts, CatalogueTypeOK, historyVars
<1>4. CASE UpdateName(p)
  <2>1. [req[p] EXCEPT !.at = "updateWrite"] \in ReqDoc
    BY <1>4, <1>t, CatalogueLocals DEF UpdateName, At, ReqDoc
  <2>2. req' \in [Request -> ReqDoc]
    BY <1>4, <1>d, <2>1, CatalogueFrame DEF UpdateName
  <2> QED
    BY <1>4, <2>2 DEF UpdateName, CatalogueTypeOK, historyVars, slotVars
<1>5. CASE UpdateWrite(p)
  <2> DEFINE i == req[p].plan
             u == req[p].update
  <2>1. i \in Plan /\ u \in Update
    BY <1>5, <1>t, CatalogueLocals DEF UpdateWrite, At
  <2>2. /\ u.name = Null \/ u.name \in Name
        /\ u.price = Null \/ u.price \in Price
        /\ u.terms = Null \/ u.terms \in Terms
        /\ u.isActive = Null \/ u.isActive \in BOOLEAN
    BY <2>1 DEF Update
  <2>3. raced' \subseteq Flag \cup ({"free"} \X Plan) /\ flips' \subseteq Flag
    <3>1. CASE UNCHANGED historyVars
      BY <3>1, <1>t DEF historyVars
    <3>2. CASE /\ flips' = Counted(<<"plan", i>>, u.isActive, TRUE)
               /\ raced' = Overlapped(<<"plan", i>>, u.isActive) \cup RenamedFree(p, i, u)
      <4>1. <<"plan", i>> \in Flag
        BY <2>1 DEF Flag
      <4>2. Overlapped(<<"plan", i>>, u.isActive) \subseteq Flag \cup ({"free"} \X Plan)
        BY <1>t, <4>1 DEF Overlapped
      <4>3. RenamedFree(p, i, u) \subseteq Flag \cup ({"free"} \X Plan)
        BY <2>1 DEF RenamedFree
      <4>4. Counted(<<"plan", i>>, u.isActive, TRUE) \subseteq Flag
        BY <1>t, <4>1 DEF Counted
      <4> QED
        BY <3>2, <4>2, <4>3, <4>4
    <3> QED
      BY <1>5, <3>1, <3>2 DEF UpdateWrite
  <2>4. plans' \in [Plan -> PlanDoc \cup {Null, Gone}]
    <3>1. CASE UNCHANGED plans
      BY <3>1, <1>t
    <3>2. CASE ~UNCHANGED plans
      <4>1. /\ i \in Alive(plans)
            /\ plans' = [plans EXCEPT ![i] = Updated(plans[i], u)]
        BY <1>5, <3>2 DEF UpdateWrite
      <4>2. plans[i] \in PlanDoc
        BY <4>1, AliveTypes
      <4> QED
        BY <1>t, <2>1, <4>1, <4>2, UpdatedPlan
    <3> QED
      BY <3>1, <3>2
  <2> QED
    BY <1>5, <1>d, <2>3, <2>4 DEF UpdateWrite, CatalogueTypeOK, slotVars
<1>6. CASE deletePlan(p)
  <2>1. req' \in [Request -> ReqDoc]
    BY <1>6, CatalogueFrame, CatalogueStarts, AliveTypes DEF deletePlan
  <2> QED
    BY <1>6, <2>1, StartsTypes DEF deletePlan, Starts, CatalogueTypeOK, historyVars
<1>7. CASE PlanDelete(p)
  <2>1. plans' \in [Plan -> PlanDoc \cup {Null, Gone}]
    BY <1>7, <1>t DEF PlanDelete, Delete
  <2> QED
    BY <1>7, <1>d, <2>1 DEF PlanDelete, CatalogueTypeOK, slotVars, historyVars
<1>8. CASE togglePlanStatus(p)
  <2>1. PICK i \in Alive(plans) : Turn(p, <<"plan", i>>, plans[i].isActive)
    BY <1>8 DEF togglePlanStatus
  <2>2. <<"plan", i>> \in Flag /\ plans[i].isActive \in BOOLEAN
    BY AliveTypes DEF Flag, PlanDoc
  <2>3. req' \in [Request -> ReqDoc] /\ raced' \subseteq Flag \cup ({"free"} \X Plan)
    BY <1>t, <2>1, <2>2, CatalogueFrame, CatalogueStarts DEF Turn
  <2> QED
    BY <2>1, <2>3, StartsTypes DEF Turn, Starts, CatalogueTypeOK
<1>9. CASE PlanToggleSave(p)
  <2>1. req[p].flag \in Flag /\ req[p].seen \in BOOLEAN
    BY <1>9, <1>t, CatalogueLocals DEF PlanToggleSave, At
  <2>2. flips' \subseteq Flag
    BY <1>9, <1>t, <2>1 DEF PlanToggleSave, Flip
  <2>3. ASSUME NEW i \in Alive(plans), plans' = [plans EXCEPT ![i].isActive = ~req[p].seen]
        PROVE  plans' \in [Plan -> PlanDoc \cup {Null, Gone}]
    <3>1. plans[i] \in PlanDoc /\ i \in Plan
      BY AliveTypes
    <3>2. [plans[i] EXCEPT !.isActive = ~req[p].seen] \in PlanDoc
      BY <3>1, <2>1 DEF PlanDoc
    <3> QED
      BY <2>3, <3>1, <3>2, <1>t
  <2>4. plans' \in [Plan -> PlanDoc \cup {Null, Gone}]
    BY <1>9, <1>t, <2>3 DEF PlanToggleSave
  <2> QED
    BY <1>9, <1>d, <2>2, <2>4 DEF PlanToggleSave, CatalogueTypeOK, slotVars
<1> QED
  BY <1>1, <1>2, <1>3, <1>4, <1>5, <1>6, <1>7, <1>8, <1>9 DEF PlanStep

LEMMA SkillTypes ==
    ASSUME CatalogueTypeOK, NEW p \in Request, SkillStep(p)
    PROVE  CatalogueTypeOK'
<1>t. /\ req[p] \in ReqDoc
      /\ skills \in [Skill -> SkillDoc \cup {Null, Gone}]
      /\ raced \subseteq Flag \cup ({"free"} \X Plan) /\ flips \subseteq Flag
  BY DEF CatalogueTypeOK
<1>d. Done(p) => req' \in [Request -> ReqDoc]
  BY CatalogueFrame, CatalogueStarts DEF Done
<1>1. CASE createSkill(p)
  <2>1. PICK n \in Name :
           Goto(p, [at |-> "skillInsert", doc |-> [name |-> n, blocked |-> FALSE]])
    BY <1>1 DEF createSkill
  <2>2. [name |-> n, blocked |-> FALSE] \in SkillDoc
    BY DEF SkillDoc
  <2>3. req' \in [Request -> ReqDoc]
    BY <2>1, <2>2, CatalogueFrame, CatalogueStarts
  <2> QED
    BY <1>1, <2>3, StartsTypes DEF createSkill, Starts, CatalogueTypeOK, historyVars
<1>2. CASE SkillInsert(p)
  <2>1. req[p].doc \in SkillDoc
    BY <1>2, <1>t, CatalogueLocals DEF SkillInsert, At
  <2>2. skills' \in [Skill -> SkillDoc \cup {Null, Gone}]
    BY <1>2, <1>t, <2>1, AliveTypes DEF SkillInsert
  <2> QED
    BY <1>2, <1>d, <2>2 DEF SkillInsert, CatalogueTypeOK, historyVars, slotVars
<1>3. CASE blockOrUnblockSkill(p)
  <2>1. PICK s \in Alive(skills) : Turn(p, <<"skill", s>>, skills[s].blocked)
    BY <1>3 DEF blockOrUnblockSkill
  <2>2. <<"skill", s>> \in Flag /\ skills[s].blocked \in BOOLEAN
    BY AliveTypes DEF Flag, SkillDoc
  <2>3. req' \in [Request -> ReqDoc] /\ raced' \subseteq Flag \cup ({"free"} \X Plan)
    BY <1>t, <2>1, <2>2, CatalogueFrame, CatalogueStarts DEF Turn
  <2> QED
    BY <2>1, <2>3, StartsTypes DEF Turn, Starts, CatalogueTypeOK
<1>4. CASE SkillToggleSave(p)
  <2>1. req[p].flag \in Flag /\ req[p].seen \in BOOLEAN
    BY <1>4, <1>t, CatalogueLocals DEF SkillToggleSave, At
  <2>2. flips' \subseteq Flag
    BY <1>4, <1>t, <2>1 DEF SkillToggleSave, Flip
  <2>3. ASSUME NEW s \in Alive(skills), skills' = [skills EXCEPT ![s].blocked = ~req[p].seen]
        PROVE  skills' \in [Skill -> SkillDoc \cup {Null, Gone}]
    <3>1. skills[s] \in SkillDoc /\ s \in Skill
      BY AliveTypes
    <3>2. [skills[s] EXCEPT !.blocked = ~req[p].seen] \in SkillDoc
      BY <3>1, <2>1 DEF SkillDoc
    <3> QED
      BY <2>3, <3>1, <3>2, <1>t
  <2>4. skills' \in [Skill -> SkillDoc \cup {Null, Gone}]
    BY <1>4, <1>t, <2>3 DEF SkillToggleSave
  <2> QED
    BY <1>4, <1>d, <2>2, <2>4 DEF SkillToggleSave, CatalogueTypeOK, slotVars
<1> QED
  BY <1>1, <1>2, <1>3, <1>4 DEF SkillStep

\* The steps of a checkout or a retry change sales and the slot alone.
LEMMA SaleTypes ==
    ASSUME CatalogueTypeOK, NEW p \in Request, SaleStep(p),
           At(p, "retryAsk") => req[p].amount \in Price
    PROVE  CatalogueTypeOK'
<1>t. req[p] \in ReqDoc /\ sales \in [Sale -> SaleDoc]
  BY DEF CatalogueTypeOK
<1>d. Done(p) => req' \in [Request -> ReqDoc]
  BY CatalogueFrame, CatalogueStarts DEF Done
<1>1. CASE SaleRead(p)
  <2>1. req' \in [Request -> ReqDoc]
    BY <1>1, CatalogueFrame, CatalogueStarts, AliveTypes DEF SaleRead, Selling
  <2> QED
    BY <1>1, <2>1, StartsTypes DEF SaleRead, Starts, CatalogueTypeOK, historyVars
<1>2. CASE SaleAsk(p)
  <2>1. req[p].sale \in Sale /\ req[p].plan.price \in Price
    BY <1>2, <1>t, CatalogueLocals DEF SaleAsk, At, Selling, PlanDoc
  <2>2. sales' \in [Sale -> SaleDoc]
    BY <1>2, <1>t, <2>1 DEF SaleAsk, SaleDoc
  <2>3. [req[p] EXCEPT !.at = "salePay"] \in ReqDoc
    BY <1>2, <1>t, CatalogueLocals DEF SaleAsk, At, Selling, ReqDoc
  <2>4. req' \in [Request -> ReqDoc]
    BY <1>2, <2>3, CatalogueFrame DEF SaleAsk
  <2> QED
    BY <1>2, <2>2, <2>4 DEF SaleAsk, CatalogueTypeOK, historyVars, slotVars
<1>3. CASE SalePay(p)
  <2>1. req[p].sale \in Sale /\ req[p].plan.price \in Price
    BY <1>3, <1>t, CatalogueLocals DEF SalePay, At, Selling, PlanDoc
  <2>2. sales' \in [Sale -> SaleDoc]
    BY <1>3, <1>t, <2>1 DEF SalePay, SaleDoc
  <2>3. [req[p] EXCEPT !.at = "saleCreate"] \in ReqDoc
    BY <1>3, <1>t, CatalogueLocals DEF SalePay, At, Selling, ReqDoc
  <2>4. req' \in [Request -> ReqDoc]
    BY <1>3, <2>3, CatalogueFrame DEF SalePay
  <2> QED
    BY <1>3, <2>2, <2>4 DEF SalePay, CatalogueTypeOK, historyVars, slotVars
<1>4. CASE SaleCreate(p)
  <2>1. req[p].sale \in Sale /\ Sold(req[p]) \in Snapshot
    BY <1>4, <1>t, CatalogueLocals DEF SaleCreate, At, Selling, PlanDoc, Sold, Snapshot
  <2>2. sales' \in [Sale -> SaleDoc]
    BY <1>4, <1>t, <2>1 DEF SaleCreate, SaleDoc
  <2> QED
    BY <1>4, <1>d, <2>2 DEF SaleCreate, CatalogueTypeOK, historyVars, slotVars
<1>5. CASE RetryRead(p)
  <2>1. \A y \in Sale : sales[y].amount \in Price \cup {Null}
    BY <1>t DEF SaleDoc
  <2>2. req' \in [Request -> ReqDoc]
    BY <1>5, <2>1, CatalogueFrame, CatalogueStarts DEF RetryRead
  <2> QED
    BY <1>5, <2>2, StartsTypes DEF RetryRead, Starts, CatalogueTypeOK, historyVars
<1>6. CASE RetryAsk(p)
  <2>1. req[p].sale \in Sale /\ req[p].amount \in Price
    BY <1>6, <1>t, CatalogueLocals DEF RetryAsk, At
  <2>2. sales' \in [Sale -> SaleDoc]
    BY <1>6, <1>t, <2>1 DEF RetryAsk, SaleDoc
  <2> QED
    BY <1>6, <1>d, <2>2 DEF RetryAsk, CatalogueTypeOK, historyVars, slotVars
<1> QED
  BY <1>1, <1>2, <1>3, <1>4, <1>5, <1>6 DEF SaleStep

\* What updateSkill does with the body of name n and blocked b.
SkillWritten(s, n, b) ==
    /\ skills' = [skills EXCEPT ![s] = [name |-> Given(n, @.name),
                                        blocked |-> Given(b, @.blocked)]]
    /\ flips' = Counted(<<"skill", s>>, b, FALSE)
    /\ raced' = Overlapped(<<"skill", s>>, b)

LEMMA SkillWrite ==
    ASSUME CatalogueTypeOK, NEW s \in Alive(skills),
           NEW n \in Name \cup {Null}, NEW b \in BOOLEAN \cup {Null}, SkillWritten(s, n, b)
    PROVE  /\ skills'[s] \in SkillDoc
           /\ skills'[s].blocked = Given(b, skills[s].blocked)
           /\ \A j \in Skill \ {s} : skills'[j] = skills[j]
           /\ skills' \in [Skill -> SkillDoc \cup {Null, Gone}]
<1>1. skills \in [Skill -> SkillDoc \cup {Null, Gone}] /\ s \in Skill /\ skills[s] \in SkillDoc
  BY AliveTypes DEF CatalogueTypeOK
<1>2. skills' = [skills EXCEPT ![s] = [name |-> Given(n, skills[s].name),
                                      blocked |-> Given(b, skills[s].blocked)]]
  BY DEF SkillWritten
<1>3. [name |-> Given(n, skills[s].name), blocked |-> Given(b, skills[s].blocked)] \in SkillDoc
  BY <1>1 DEF SkillDoc, Given
<1>4. /\ skills'[s] = [name |-> Given(n, skills[s].name),
                       blocked |-> Given(b, skills[s].blocked)]
      /\ \A j \in Skill \ {s} : skills'[j] = skills[j]
  BY <1>1, <1>2
<1> QED
  BY <1>1, <1>2, <1>3, <1>4

LEMMA OtherTypes ==
    ASSUME CatalogueTypeOK,
           \/ updatePlanLimits \/ updatePlanFeatures \/ updateSkill \/ deleteSkill
           \/ \E p \in Request : RequestFails(p)
    PROVE  CatalogueTypeOK'
<1>t. /\ plans \in [Plan -> PlanDoc \cup {Null, Gone}]
      /\ skills \in [Skill -> SkillDoc \cup {Null, Gone}]
  BY DEF CatalogueTypeOK
<1>1. CASE SetTerms
  <2>1. PICK i \in Alive(plans), t \in Terms : plans' = [plans EXCEPT ![i].terms = t]
    BY <1>1 DEF SetTerms
  <2>2. plans' \in [Plan -> PlanDoc \cup {Null, Gone}]
    BY <1>t, <2>1, AliveTypes DEF PlanDoc
  <2> QED
    BY <1>1, <2>2, StartsTypes DEF SetTerms, CatalogueTypeOK, historyVars
<1>2. CASE updateSkill
  <2>1. PICK s \in Alive(skills), n \in Name \cup {Null}, b \in BOOLEAN \cup {Null} :
           SkillWritten(s, n, b)
    BY <1>2 DEF updateSkill, SkillWritten
  <2>2. skills' \in [Skill -> SkillDoc \cup {Null, Gone}]
    BY <1>t, <2>1, SkillWrite, AliveTypes
  <2>3. <<"skill", s>> \in Flag
    BY <2>1, AliveTypes DEF Flag
  <2>4. flips' \subseteq Flag /\ raced' \subseteq Flag \cup ({"free"} \X Plan)
    BY <2>1, <2>3 DEF SkillWritten, Counted, Overlapped, CatalogueTypeOK
  <2> QED
    BY <1>2, <2>2, <2>4, StartsTypes DEF updateSkill, CatalogueTypeOK
<1>3. CASE deleteSkill
  <2>1. skills' \in [Skill -> SkillDoc \cup {Null, Gone}]
    BY <1>3, <1>t DEF deleteSkill, Delete
  <2> QED
    BY <1>3, <2>1, StartsTypes DEF deleteSkill, CatalogueTypeOK, historyVars
<1>4. ASSUME NEW p \in Request, RequestFails(p)
      PROVE  CatalogueTypeOK'
  <2>1. req' \in [Request -> ReqDoc]
    BY <1>4, CatalogueFrame, CatalogueStarts DEF RequestFails, Done
  <2>2. fails' \in 0 .. MaxFail
    BY <1>4, CatalogueAssumption DEF RequestFails, CatalogueTypeOK
  <2> QED
    BY <1>4, <2>1, <2>2 DEF RequestFails, CatalogueTypeOK, historyVars
<1> QED
  BY <1>1, <1>2, <1>3, <1>4 DEF updatePlanLimits, updatePlanFeatures

-----------------------------------------------------------------------------
(***************************************************************************)
(* Sales.                                                                  *)
(***************************************************************************)

Sells(p) == req[p].at \in Selling

\* What is asked and recorded so far carries the one price read; no two
\* requests sell one sale, and only finished sales are asked for again.
SaleInv ==
    /\ AskedAsSold
    /\ \A p \in Request : Sells(p) =>
          LET sale == sales[req[p].sale]
          IN  /\ sale.snapshot = Null
              /\ req[p].at # "saleAsk" => sale.asked = {req[p].plan.price}
              /\ req[p].at = "saleCreate" => sale.amount = req[p].plan.price
    /\ \A p, q \in Request : Sells(p) /\ Sells(q) /\ p # q => req[p].sale # req[q].sale
    /\ \A p \in Request : At(p, "retryAsk") =>
          /\ sales[req[p].sale].snapshot # Null
          /\ req[p].amount = sales[req[p].sale].amount

\* Steps that leave the sales alone start nothing that sells or asks again.
LEMMA SaleFrame ==
    ASSUME CatalogueTypeOK, SaleInv,
           \A y \in Sale : /\ sales'[y].snapshot = sales[y].snapshot
                           /\ sales'[y].asked = sales[y].asked
                           /\ sales'[y].amount = sales[y].amount,
           \A q \in Request : req'[q] = req[q] \/ req'[q].at \notin Selling \cup {"retryAsk"}
    PROVE  SaleInv'
<1>1. AskedAsSold'
  BY DEF SaleInv, AskedAsSold
<1>2. \A q \in Request : Sells(q)' => Sells(q) /\ req'[q] = req[q]
  BY DEF Sells
<1>3. \A q \in Request : At(q, "retryAsk")' => At(q, "retryAsk") /\ req'[q] = req[q]
  BY DEF At
<1>4. \A q \in Request : Sells(q) \/ At(q, "retryAsk") => req[q].sale \in Sale
  BY CatalogueLocals DEF CatalogueTypeOK, Sells, At
<1> QED
  BY <1>1, <1>2, <1>3, <1>4 DEF SaleInv

\* One request writes the sale it holds.
LEMMA SaleWrite ==
    ASSUME CatalogueTypeOK, SaleInv, NEW p \in Request, NEW y \in Sale, NEW doc, NEW x \in ReqDoc,
           sales' = [sales EXCEPT ![y] = doc], Goto(p, x),
           Sells(p) /\ req[p].sale = y,
           doc.snapshot # Null => /\ doc.asked = {doc.snapshot.price}
                                  /\ doc.amount = doc.snapshot.price,
           \/ x = Idle
           \/ /\ x.at \in {"salePay", "saleCreate"}
              /\ x.sale = y
              /\ doc.snapshot = Null
              /\ doc.asked = {x.plan.price}
              /\ (x.at = "saleCreate" => doc.amount = x.plan.price)
    PROVE  SaleInv'
<1>t. sales \in [Sale -> SaleDoc] /\ req \in [Request -> ReqDoc]
  BY DEF CatalogueTypeOK
<1>f. /\ req'[p] = x
      /\ \A q \in Request \ {p} : req'[q] = req[q]
  BY CatalogueFrame
<1>s. /\ sales'[y] = doc
      /\ \A z \in Sale \ {y} : sales'[z] = sales[z]
  BY <1>t
<1>1. AskedAsSold'
  BY <1>s DEF SaleInv, AskedAsSold
<1>o. \A q \in Request \ {p} : Sells(q) \/ At(q, "retryAsk") =>
         req[q].sale \in Sale \ {y}
  <2> SUFFICES ASSUME NEW q \in Request \ {p}, Sells(q) \/ At(q, "retryAsk")
               PROVE  req[q].sale \in Sale /\ req[q].sale # y
    OBVIOUS
  <2>1. req[q].sale \in Sale
    BY <1>t, CatalogueLocals DEF Sells, At
  <2>2. CASE Sells(q)
    BY <2>1, <2>2 DEF SaleInv
  <2>3. CASE At(q, "retryAsk")
    <3>1. sales[req[q].sale].snapshot # Null /\ sales[y].snapshot = Null
      BY <2>3 DEF SaleInv
    <3> QED
      BY <2>1, <3>1
  <2> QED
    BY <2>2, <2>3
<1>2. ASSUME NEW q \in Request, Sells(q)'
      PROVE  LET sale == sales'[req'[q].sale]
             IN  /\ sale.snapshot = Null
                 /\ req'[q].at # "saleAsk" => sale.asked = {req'[q].plan.price}
                 /\ req'[q].at = "saleCreate" => sale.amount = req'[q].plan.price
  <2>1. CASE q = p
    BY <1>2, <2>1, <1>f, <1>s DEF Sells, Idle, Selling
  <2>2. CASE q # p
    BY <1>2, <2>2, <1>f, <1>s, <1>o DEF Sells, SaleInv
  <2> QED
    BY <2>1, <2>2
<1>3. ASSUME NEW q \in Request, NEW r \in Request, Sells(q)', Sells(r)', q # r
      PROVE  req'[q].sale # req'[r].sale
  <2>1. \A a \in Request : Sells(a)' => req'[a].sale = req[a].sale /\ Sells(a)
    BY <1>f DEF Sells, Idle, Selling
  <2> QED
    BY <1>3, <2>1 DEF SaleInv
<1>4. ASSUME NEW q \in Request, At(q, "retryAsk")'
      PROVE  /\ sales'[req'[q].sale].snapshot # Null
             /\ req'[q].amount = sales'[req'[q].sale].amount
  <2>1. q # p /\ req'[q] = req[q] /\ At(q, "retryAsk")
    BY <1>4, <1>f DEF At, Idle
  <2> QED
    BY <2>1, <1>o, <1>s DEF SaleInv
<1> QED
  BY <1>1, <1>2, <1>3, <1>4 DEF SaleInv

LEMMA SaleSteps ==
    ASSUME CatalogueTypeOK, SaleInv, NEW p \in Request, SaleStep(p)
    PROVE  SaleInv'
<1>t. /\ sales \in [Sale -> SaleDoc] /\ req \in [Request -> ReqDoc]
      /\ req[p] \in ReqDoc
  BY DEF CatalogueTypeOK
<1>l. Sells(p) => /\ req[p].sale \in Sale
                  /\ req[p] \in [at: Selling, sale: Sale, id: Plan, plan: PlanDoc]
  BY <1>t, CatalogueLocals DEF Sells
<1>1. CASE SaleRead(p)
  <2>1. PICK y \in Sale, i \in Alive(plans) :
           /\ sales[y] = NoSale
           /\ \A q \in Request : Sells(q) => req[q].sale # y
           /\ Goto(p, [at |-> "saleAsk", sale |-> y, id |-> i, plan |-> plans[i]])
    BY <1>1 DEF SaleRead, Sells
  <2>2. /\ req'[p] = [at |-> "saleAsk", sale |-> y, id |-> i, plan |-> plans[i]]
        /\ \A q \in Request \ {p} : req'[q] = req[q]
    BY <2>1, CatalogueFrame, CatalogueStarts, AliveTypes DEF Selling
  <2>3. UNCHANGED sales
    BY <1>1 DEF SaleRead
  <2>4. AskedAsSold'
    BY <2>3 DEF SaleInv, AskedAsSold
  <2>5. \A q \in Request \ {p} : (Sells(q)' <=> Sells(q)) /\ (At(q, "retryAsk")' <=> At(q, "retryAsk"))
    BY <2>2 DEF Sells, At
  <2>6. ~At(p, "retryAsk")'
    BY <2>2 DEF At
  <2> QED
    BY <2>1, <2>2, <2>3, <2>4, <2>5, <2>6 DEF SaleInv, NoSale
<1>2. CASE SaleAsk(p)
  <2> DEFINE doc == [sales[req[p].sale] EXCEPT !.asked = {req[p].plan.price}]
             x == [req[p] EXCEPT !.at = "salePay"]
  <2>1. Sells(p)
    BY <1>2 DEF SaleAsk, At, Sells, Selling
  <2>2. sales' = [sales EXCEPT ![req[p].sale] = doc] /\ Goto(p, x)
    BY <1>2 DEF SaleAsk
  <2>3. /\ x \in ReqDoc /\ x.at = "salePay"
        /\ x.sale = req[p].sale /\ x.plan = req[p].plan
    BY <1>l, <2>1 DEF ReqDoc, Selling
  <2>4. doc.snapshot = Null /\ doc.asked = {x.plan.price}
    BY <1>t, <1>l, <2>1, <2>3 DEF SaleInv, SaleDoc
  <2> HIDE DEF doc, x
  <2> QED
    BY <1>l, <2>1, <2>2, <2>3, <2>4, SaleWrite
<1>3. CASE SalePay(p)
  <2> DEFINE doc == [sales[req[p].sale] EXCEPT !.amount = req[p].plan.price]
             x == [req[p] EXCEPT !.at = "saleCreate"]
  <2>1. Sells(p)
    BY <1>3 DEF SalePay, At, Sells, Selling
  <2>2. sales' = [sales EXCEPT ![req[p].sale] = doc] /\ Goto(p, x)
    BY <1>3 DEF SalePay
  <2>3. /\ x \in ReqDoc /\ x.at = "saleCreate"
        /\ x.sale = req[p].sale /\ x.plan = req[p].plan
    BY <1>l, <2>1 DEF ReqDoc, Selling
  <2>4. /\ doc.snapshot = Null /\ doc.asked = {x.plan.price}
        /\ doc.amount = x.plan.price
    BY <1>3, <1>t, <1>l, <2>1, <2>3 DEF SalePay, At, SaleInv, SaleDoc
  <2> HIDE DEF doc, x
  <2> QED
    BY <1>l, <2>1, <2>2, <2>3, <2>4, SaleWrite
<1>4. CASE SaleCreate(p)
  <2> DEFINE doc == [sales[req[p].sale] EXCEPT !.snapshot = Sold(req[p])]
  <2>1. Sells(p)
    BY <1>4 DEF SaleCreate, At, Sells, Selling
  <2>2. sales' = [sales EXCEPT ![req[p].sale] = doc] /\ Goto(p, Idle)
    BY <1>4 DEF SaleCreate, Done
  <2>3. /\ doc.snapshot.price = req[p].plan.price
        /\ doc.asked = {req[p].plan.price} /\ doc.amount = req[p].plan.price
    BY <1>4, <1>t, <1>l, <2>1 DEF SaleCreate, At, SaleInv, SaleDoc, Sold
  <2> HIDE DEF doc
  <2> QED
    BY <1>l, <2>1, <2>2, <2>3, CatalogueStarts, SaleWrite
<1>5. CASE RetryRead(p)
  <2>1. PICK y \in Sale :
           /\ sales[y].snapshot # Null
           /\ Goto(p, [at |-> "retryAsk", sale |-> y, amount |-> sales[y].amount])
    BY <1>5 DEF RetryRead
  <2>2. sales[y].amount \in Price \cup {Null}
    BY <1>t DEF SaleDoc
  <2>3. /\ req'[p] = [at |-> "retryAsk", sale |-> y, amount |-> sales[y].amount]
        /\ \A q \in Request \ {p} : req'[q] = req[q]
    BY <2>1, <2>2, CatalogueFrame, CatalogueStarts
  <2>4. UNCHANGED sales /\ AskedAsSold'
    BY <1>5 DEF RetryRead, SaleInv, AskedAsSold
  <2>5. \A q \in Request \ {p} : (Sells(q)' <=> Sells(q)) /\ (At(q, "retryAsk")' <=> At(q, "retryAsk"))
    BY <2>3 DEF Sells, At
  <2>6. ~Sells(p)'
    BY <2>3 DEF Sells, Selling
  <2> QED
    BY <2>1, <2>3, <2>4, <2>5, <2>6 DEF SaleInv
<1>6. CASE RetryAsk(p)
  <2> DEFINE y == req[p].sale
  <2>1. y \in Sale
    BY <1>6, <1>t, CatalogueLocals DEF RetryAsk, At
  <2>2. sales[y].asked = {req[p].amount}
    BY <1>6, <2>1 DEF RetryAsk, SaleInv, AskedAsSold
  <2>3. sales' = [sales EXCEPT ![y].asked = @ \cup {req[p].amount}]
    BY <1>6 DEF RetryAsk
  <2>4. \A z \in Sale : /\ sales'[z].snapshot = sales[z].snapshot
                        /\ sales'[z].asked = sales[z].asked
                        /\ sales'[z].amount = sales[z].amount
    BY <1>t, <2>1, <2>2, <2>3 DEF SaleDoc
  <2>5. \A q \in Request : req'[q] = req[q] \/ req'[q].at \notin Selling \cup {"retryAsk"}
    BY <1>6, CatalogueFrame, CatalogueStarts DEF RetryAsk, Done, Idle, Selling
  <2> QED
    BY <2>4, <2>5, SaleFrame
<1> QED
  BY <1>1, <1>2, <1>3, <1>4, <1>5, <1>6 DEF SaleStep

\* An amount asked for again is a price.
LEMMA RetryAmount ==
    ASSUME CatalogueTypeOK, SaleInv, NEW p \in Request, At(p, "retryAsk")
    PROVE  req[p].amount \in Price
<1>1. req[p].sale \in Sale /\ sales[req[p].sale] \in SaleDoc
  BY CatalogueLocals DEF CatalogueTypeOK, At
<1>2. sales[req[p].sale].snapshot \in Snapshot
  BY <1>1 DEF SaleInv, SaleDoc
<1> QED
  BY <1>1, <1>2 DEF SaleInv, AskedAsSold, Snapshot

-----------------------------------------------------------------------------
(***************************************************************************)
(* The free plan.                                                          *)
(***************************************************************************)

Updating(q) == req[q].at \in {"updateName", "updateWrite"}

\* An update about to write fits the name it saw, and one about to price a
\* plan that is free and unraced saw it free: it will be refused.
FreeInv ==
    /\ FreeCostsNothingUnlessRaced
    /\ \A q \in Request : At(q, "planInsert") => PriceFits(req[q].doc.name, req[q].doc.price)
    /\ \A q \in Request : Updating(q) => plans[req[q].plan] # Null
    /\ \A q \in Request : At(q, "updateWrite") => UpdateFits(req[q].was, req[q].update)
    /\ \A q \in Request, i \in Alive(plans) :
          Pricing(q, i) /\ plans[i].name = Free /\ <<"free", i>> \notin raced =>
              req[q].was = Free

\* A plan keeps its name and price or goes, in most steps.
PlansKept ==
    \A i \in Plan :
        \/ plans'[i] = plans[i]
        \/ plans'[i] = Gone
        \/ /\ i \in Alive(plans) /\ plans'[i] \in PlanDoc
           /\ plans'[i].name = plans[i].name /\ plans'[i].price = plans[i].price

RacedKept(i) == <<"free", i>> \in raced => <<"free", i>> \in raced'

LEMMA FreeFrame ==
    ASSUME CatalogueTypeOK, CatalogueTypeOK', FreeInv, PlansKept,
           \A j \in Plan : RacedKept(j),
           \A q \in Request :
               req'[q] = req[q] \/ req'[q].at \notin {"planInsert", "updateName", "updateWrite"}
    PROVE  FreeInv'
<1>t. /\ Alive(plans) \subseteq Plan /\ Alive(plans)' \subseteq Plan
      /\ \A q \in Request : Updating(q) => req[q].plan \in Plan
  BY AliveTypes, CatalogueLocals DEF CatalogueTypeOK, Alive, Updating
<1>1. \A i \in Alive(plans)' : /\ i \in Alive(plans)
                               /\ plans'[i].name = plans[i].name
                               /\ plans'[i].price = plans[i].price
  BY <1>t DEF PlansKept, Alive, CatalogueTypeOK
<1>2. \A i \in Plan : plans[i] # Null => plans'[i] # Null
  BY CatalogueAssumption DEF PlansKept, PlanDoc
<1>3. \A q \in Request : /\ At(q, "planInsert")' => At(q, "planInsert") /\ req'[q] = req[q]
                         /\ At(q, "updateWrite")' => At(q, "updateWrite") /\ req'[q] = req[q]
                         /\ Updating(q)' => Updating(q) /\ req'[q] = req[q]
  BY DEF At, Updating
<1>4. \A q \in Request, i \in Plan : Pricing(q, i)' => Pricing(q, i) /\ req'[q] = req[q]
  BY <1>3 DEF Pricing, Updating
<1>5. FreeCostsNothingUnlessRaced'
  BY <1>1, <1>t DEF FreeInv, FreeCostsNothingUnlessRaced, RacedKept
<1>6. \A q \in Request, i \in Alive(plans)' :
         Pricing(q, i)' /\ plans'[i].name = Free /\ <<"free", i>> \notin raced' =>
             req'[q].was = Free
  BY <1>1, <1>4, <1>t DEF FreeInv, RacedKept
<1> QED
  BY <1>t, <1>2, <1>3, <1>5, <1>6 DEF FreeInv

LEMMA FreePlanSteps ==
    ASSUME CatalogueTypeOK, CatalogueTypeOK', FreeInv, NEW p \in Request,
           createPlan(p) \/ PlanInsert(p) \/ updatePlan(p) \/ UpdateName(p) \/ UpdateWrite(p)
    PROVE  FreeInv'
<1>t. /\ req \in [Request -> ReqDoc] /\ req' \in [Request -> ReqDoc]
      /\ plans \in [Plan -> PlanDoc \cup {Null, Gone}]
      /\ Alive(plans) \subseteq Plan /\ Unborn(plans) \subseteq Plan
      /\ Alive(plans)' \subseteq Plan
  BY AliveTypes DEF CatalogueTypeOK, Alive
<1>f. \A x \in ReqDoc : Goto(p, x) => /\ req'[p] = x
                                     /\ \A q \in Request \ {p} : req'[q] = req[q]
  BY CatalogueFrame
<1>d. Done(p) => /\ req'[p] = Idle
                 /\ \A q \in Request \ {p} : req'[q] = req[q]
  BY CatalogueFrame, CatalogueStarts DEF Done
<1>1. CASE createPlan(p)
  <2>1. PICK d \in PlanDoc :
           /\ PriceFits(d.name, d.price)
           /\ Goto(p, [at |-> "planInsert", doc |-> d])
    BY <1>1 DEF createPlan
  <2>3. /\ req'[p] = [at |-> "planInsert", doc |-> d]
        /\ \A q \in Request \ {p} : req'[q] = req[q]
    BY <1>f, <2>1, CatalogueStarts
  <2>4. UNCHANGED <<plans, raced>>
    BY <1>1 DEF createPlan, historyVars
  <2>5. FreeCostsNothingUnlessRaced'
    BY <2>4 DEF FreeInv, FreeCostsNothingUnlessRaced, Alive
  <2>6. \A q \in Request, i \in Alive(plans)' : Pricing(q, i)' =>
           Pricing(q, i) /\ req'[q] = req[q] /\ i \in Alive(plans)
    BY <2>3, <2>4 DEF Pricing, Alive
  <2>7. \A q \in Request : At(q, "planInsert")' => PriceFits(req'[q].doc.name, req'[q].doc.price)
    BY <2>1, <2>3 DEF At, FreeInv
  <2>8. \A q \in Request : Updating(q)' => plans'[req'[q].plan] # Null
    BY <2>3, <2>4 DEF Updating, FreeInv
  <2>9. \A q \in Request : At(q, "updateWrite")' => UpdateFits(req'[q].was, req'[q].update)
    BY <2>3 DEF At, FreeInv
  <2> QED
    BY <2>4, <2>5, <2>6, <2>7, <2>8, <2>9 DEF FreeInv, PriceFits, UpdateFits
<1>2. CASE PlanInsert(p)
  <2>1. \/ UNCHANGED plans
        \/ \E i \in Unborn(plans) : plans' = [plans EXCEPT ![i] = req[p].doc]
    BY <1>2 DEF PlanInsert
  <2>2. /\ req'[p] = Idle /\ UNCHANGED raced
        /\ \A q \in Request \ {p} : req'[q] = req[q]
    BY <1>2, <1>d DEF PlanInsert
  <2>3. /\ \A j \in Plan : plans[j] # Null => plans'[j] = plans[j]
        /\ \A j \in Plan : plans'[j] = plans[j] \/ plans'[j] = req[p].doc
    BY <2>1, <1>t DEF Unborn
  <2>4. PriceFits(req[p].doc.name, req[p].doc.price)
    BY <1>2 DEF PlanInsert, FreeInv
  <2>5. FreeCostsNothingUnlessRaced'
    BY <1>t, <2>2, <2>3, <2>4 DEF FreeInv, FreeCostsNothingUnlessRaced, Alive, PriceFits
  <2>6. \A q \in Request : Updating(q) => req[q].plan \in Plan /\ plans[req[q].plan] # Null
    BY <1>t, CatalogueLocals DEF Updating, FreeInv
  <2>7. \A q \in Request, j \in Alive(plans)' : Pricing(q, j)' =>
           /\ Pricing(q, j) /\ req'[q] = req[q] /\ j \in Alive(plans)
           /\ plans'[j] = plans[j]
    BY <1>t, <2>2, <2>3, <2>6 DEF Pricing, Updating, Alive, Idle
  <2>8. \A q \in Request : At(q, "planInsert")' => PriceFits(req'[q].doc.name, req'[q].doc.price)
    BY <2>2 DEF At, FreeInv, Idle
  <2>9. \A q \in Request : Updating(q)' => plans'[req'[q].plan] # Null
    BY <2>2, <2>3, <2>6 DEF Updating, Idle
  <2>10. \A q \in Request : At(q, "updateWrite")' => UpdateFits(req'[q].was, req'[q].update)
    BY <2>2 DEF At, FreeInv, Idle
  <2> QED
    BY <2>2, <2>5, <2>7, <2>8, <2>9, <2>10 DEF FreeInv, PriceFits, UpdateFits
<1>3. CASE updatePlan(p)
  <2>1. PICK i \in Alive(plans), u \in Update, l \in {"updateName", "updateWrite"} :
           /\ Goto(p, [at |-> l, plan |-> i, was |-> plans[i].name, update |-> u])
           /\ l = "updateWrite" => UpdateFits(plans[i].name, u)
    BY <1>3 DEF updatePlan
  <2>2. i \in Plan /\ plans[i].name \in Name
    BY AliveTypes DEF PlanDoc
  <2>3. /\ req'[p] = [at |-> l, plan |-> i, was |-> plans[i].name, update |-> u]
        /\ \A q \in Request \ {p} : req'[q] = req[q]
    BY <1>f, <2>1, <2>2, CatalogueStarts
  <2>4. UNCHANGED <<plans, raced>> /\ plans[i] # Null
    BY <1>3 DEF updatePlan, historyVars, Alive
  <2>5. FreeCostsNothingUnlessRaced'
    BY <2>4 DEF FreeInv, FreeCostsNothingUnlessRaced, Alive
  <2>6. \A q \in Request, j \in Alive(plans)' :
           Pricing(q, j)' /\ plans'[j].name = Free /\ <<"free", j>> \notin raced' =>
               req'[q].was = Free
    BY <2>3, <2>4 DEF Pricing, Alive, FreeInv
  <2>7. \A q \in Request : At(q, "planInsert")' => PriceFits(req'[q].doc.name, req'[q].doc.price)
    BY <2>1, <2>3 DEF At, FreeInv
  <2>8. \A q \in Request : Updating(q)' => plans'[req'[q].plan] # Null
    BY <2>3, <2>4 DEF Updating, FreeInv
  <2>9. \A q \in Request : At(q, "updateWrite")' => UpdateFits(req'[q].was, req'[q].update)
    BY <2>1, <2>3 DEF At, FreeInv
  <2> QED
    BY <2>5, <2>6, <2>7, <2>8, <2>9 DEF FreeInv, PriceFits, UpdateFits
<1>4. CASE UpdateName(p)
  <2>1. /\ Updating(p)
        /\ req[p] \in [at: {"updateName", "updateWrite"}, plan: Plan, was: Name, update: Update]
    BY <1>4, <1>t, CatalogueLocals DEF UpdateName, At, Updating
  <2>2. [req[p] EXCEPT !.at = "updateWrite"] \in ReqDoc
    BY <2>1 DEF ReqDoc
  <2>3. /\ \/ req'[p] = Idle
           \/ /\ req'[p] = [req[p] EXCEPT !.at = "updateWrite"]
              /\ UpdateFits(req[p].was, req[p].update)
        /\ \A q \in Request \ {p} : req'[q] = req[q]
    BY <1>4, <1>f, <1>d, <2>2 DEF UpdateName
  <2>4. \/ req'[p] = Idle
        \/ /\ req'[p].plan = req[p].plan /\ req'[p].was = req[p].was
           /\ req'[p].update = req[p].update /\ UpdateFits(req[p].was, req[p].update)
           /\ req'[p].at = "updateWrite"
    BY <2>1, <2>3
  <2>5. UNCHANGED <<plans, raced>>
    BY <1>4 DEF UpdateName, historyVars
  <2>6. FreeCostsNothingUnlessRaced'
    BY <2>5 DEF FreeInv, FreeCostsNothingUnlessRaced, Alive
  <2>7. \A q \in Request, j \in Alive(plans)' :
           Pricing(q, j)' => Pricing(q, j) /\ req'[q].was = req[q].was
    BY <2>1, <2>3, <2>4 DEF Pricing, Updating, Idle
  <2>8. \A q \in Request : At(q, "planInsert")' => PriceFits(req'[q].doc.name, req'[q].doc.price)
    BY <2>3, <2>4 DEF At, FreeInv, Idle
  <2>9. \A q \in Request : Updating(q)' => plans'[req'[q].plan] # Null
    BY <2>1, <2>3, <2>4, <2>5 DEF Updating, FreeInv, Idle
  <2>10. \A q \in Request : At(q, "updateWrite")' => UpdateFits(req'[q].was, req'[q].update)
    BY <2>3, <2>4 DEF At, FreeInv, Idle
  <2> QED
    BY <2>5, <2>6, <2>7, <2>8, <2>9, <2>10 DEF FreeInv, PriceFits, UpdateFits, Alive
<1>5. CASE UpdateWrite(p) /\ UNCHANGED plans
  <2>1. \A j \in Plan : RacedKept(j)
    BY <1>5 DEF UpdateWrite, Overlapped, historyVars, RacedKept
  <2>2. \A q \in Request : req'[q] = req[q] \/ req'[q].at \notin {"planInsert", "updateName", "updateWrite"}
    BY <1>5, <1>d, SMTT(30) DEF UpdateWrite, Idle
  <2> QED
    BY <1>5, <2>1, <2>2, FreeFrame DEF RacedKept, PlansKept
<1>6. CASE UpdateWrite(p) /\ ~UNCHANGED plans
  <2> DEFINE i == req[p].plan
             u == req[p].update
  <2>1. /\ i \in Alive(plans) /\ i \in Plan /\ plans[i] \in PlanDoc
        /\ plans' = [plans EXCEPT ![i] = Updated(plans[i], u)]
        /\ raced' = Overlapped(<<"plan", i>>, u.isActive) \cup RenamedFree(p, i, u)
    BY <1>6, <1>t, AliveTypes DEF UpdateWrite
  <2>u. u \in Update
    BY <1>6, <1>t, CatalogueLocals DEF UpdateWrite, At
  <2>2. /\ plans'[i] = Updated(plans[i], u)
        /\ plans'[i].name = Given(u.name, plans[i].name)
        /\ plans'[i].price = Given(u.price, plans[i].price)
        /\ \A j \in Plan \ {i} : plans'[j] = plans[j]
    <3>1. /\ plans'[i] = Updated(plans[i], u)
          /\ \A j \in Plan \ {i} : plans'[j] = plans[j]
      BY <1>t, <2>1
    <3> QED
      BY <3>1 DEF Updated
  <2>3. plans'[i] # Null /\ plans[i] # Null
    <3>1. plans'[i] \in PlanDoc
      BY <2>1, <2>2, <2>u, UpdatedPlan
    <3> QED
      BY <2>1, <3>1, CatalogueAssumption DEF PlanDoc, Alive
  <2>4. /\ req'[p] = Idle
        /\ \A q \in Request \ {p} : req'[q] = req[q]
    BY <1>6, <1>d DEF UpdateWrite
  <2>5. /\ UpdateFits(req[p].was, u)
        /\ <<"free", i>> \notin raced /\ plans[i].name = Free =>
              plans[i].price = 0 /\ (Pricing(p, i) => req[p].was = Free)
    BY <1>6, <2>1 DEF UpdateWrite, FreeInv, At, FreeCostsNothingUnlessRaced
  <2>6. Pricing(p, i) <=> u.price \notin {Null, 0}
    BY <1>6 DEF Pricing, UpdateWrite, At
  <2>w. \A j \in Plan :
           <<"free", j>> \in Overlapped(<<"plan", i>>, u.isActive) <=> <<"free", j>> \in raced
    BY DEF Overlapped
  <2>7. /\ <<"free", i>> \in raced => <<"free", i>> \in raced'
        /\ RenamedFree(p, i, u) \subseteq raced'
    BY <2>1, <2>w
  <2>y. \A j \in Plan \ {i} : <<"free", j>> \in raced' => <<"free", j>> \in raced
    <3> SUFFICES ASSUME NEW j \in Plan \ {i}, <<"free", j>> \in raced'
                 PROVE  <<"free", j>> \in raced
      OBVIOUS
    <3>1. <<"free", j>> \notin RenamedFree(p, i, u)
      BY DEF RenamedFree
    <3> QED
      BY <2>1, <2>w, <3>1
  <2>z. \A j \in Plan \ {i} : <<"free", j>> \in raced => <<"free", j>> \in raced'
    BY <2>1, <2>w
  <2>8. <<"free", i>> \notin raced' /\ plans'[i].name = Free => plans'[i].price = 0
    <3> SUFFICES ASSUME <<"free", i>> \notin raced', plans'[i].name = Free
                 PROVE  plans'[i].price = 0
      OBVIOUS
    <3>1. CASE plans[i].name = Free
      <4>1. plans[i].price = 0 /\ (Pricing(p, i) => req[p].was = Free)
        BY <2>1, <2>5, <2>7, <3>1
      <4>2. u.price \in {Null, 0}
        BY <4>1, <2>5, <2>6 DEF UpdateFits
      <4> QED
        BY <2>2, <4>1, <4>2 DEF Given
    <3>2. CASE plans[i].name # Free
      <4>1. u.name = Free
        BY <2>2, <3>2 DEF Given
      <4>2. u.price \in {Null, 0}
        BY <4>1, <2>5 DEF UpdateFits
      <4>3. ~(u.price = Null /\ plans[i].price # 0)
        BY <2>7, <3>2, <4>1 DEF RenamedFree
      <4> QED
        BY <2>2, <4>2, <4>3 DEF Given
    <3> QED
      BY <3>1, <3>2
  <2>9. ASSUME NEW q \in Request \ {p}, Pricing(q, i), plans'[i].name = Free,
               <<"free", i>> \notin raced'
        PROVE  req[q].was = Free
    <3>1. CASE plans[i].name = Free
      BY <2>1, <2>7, <2>9, <3>1 DEF FreeInv
    <3>2. CASE plans[i].name # Free
      <4>1. u.name = Free
        BY <2>2, <2>9, <3>2 DEF Given
      <4> QED
        BY <2>7, <2>9, <3>2, <4>1 DEF RenamedFree
    <3> QED
      BY <3>1, <3>2
  <2>a. \A j \in Alive(plans)' : j = i \/ (j \in Alive(plans) /\ j \in Plan \ {i})
    BY <1>t, <2>2 DEF Alive
  <2> HIDE DEF i, u
  <2>10. FreeCostsNothingUnlessRaced'
    BY <2>2, <2>z, <2>8, <2>a DEF FreeInv, FreeCostsNothingUnlessRaced
  <2>11. \A q \in Request, j \in Alive(plans)' :
            Pricing(q, j)' => Pricing(q, j) /\ req'[q] = req[q] /\ q # p
    BY <2>4 DEF Pricing, Idle
  <2>12. \A q \in Request, j \in Alive(plans)' :
            Pricing(q, j)' /\ plans'[j].name = Free /\ <<"free", j>> \notin raced' =>
                req'[q].was = Free
    BY <2>2, <2>z, <2>9, <2>11, <2>a DEF FreeInv
  <2>13. \A q \in Request : Updating(q) => req[q].plan \in Plan /\ plans[req[q].plan] # Null
    BY <1>t, CatalogueLocals DEF Updating, FreeInv
  <2>14. \A q \in Request : Updating(q)' => plans'[req'[q].plan] # Null
    BY <2>2, <2>3, <2>4, <2>13 DEF Updating, Idle
  <2>15. \A q \in Request : At(q, "planInsert")' => PriceFits(req'[q].doc.name, req'[q].doc.price)
    BY <2>4 DEF At, FreeInv, Idle
  <2>16. \A q \in Request : At(q, "updateWrite")' => UpdateFits(req'[q].was, req'[q].update)
    BY <2>4 DEF At, FreeInv, Idle
  <2> QED
    BY <2>10, <2>12, <2>14, <2>15, <2>16 DEF FreeInv, PriceFits, UpdateFits
<1> QED
  BY <1>1, <1>2, <1>3, <1>4, <1>5, <1>6

-----------------------------------------------------------------------------
(***************************************************************************)
(* Toggles.  A flag is a plan's isActive or a skill's blocked.             *)
(***************************************************************************)

Doc(f) == IF f[1] = "plan" THEN plans[f[2]] ELSE skills[f[2]]

There(f) == Doc(f) \notin {Null, Gone}

Value(f) == IF f[1] = "plan" THEN plans[f[2]].isActive ELSE skills[f[2]].blocked

\* The flag does not have the value it started with.
Turned(f) == Value(f) = (f[1] = "skill")

Toggling(p) == At(p, "toggleSave")

TurnsCounted == \A f \in Flag \ raced : There(f) => (Turned(f) <=> f \in flips)

FlipsBorn == \A f \in Flag : f \in flips => Doc(f) # Null

\* A toggle that no other one overlapped saw the flag as it still is.
SawCurrent ==
    \A p \in Request, f \in Flag :
        Toggling(p) /\ req[p].flag = f =>
            /\ Doc(f) # Null
            /\ (f \notin raced /\ There(f)) => req[p].seen = Value(f)

OverlapsRecorded ==
    \A p, q \in Request, f \in Flag :
        (Toggling(p) /\ Toggling(q) /\ p # q /\ req[p].flag = f /\ req[q].flag = f) => f \in raced

BornUnturned == \A p \in Request : At(p, "skillInsert") => req[p].doc.blocked = FALSE

ToggleInv == TurnsCounted /\ FlipsBorn /\ SawCurrent /\ OverlapsRecorded /\ BornUnturned

LEMMA FlagTypes ==
    ASSUME CatalogueTypeOK, NEW f \in Flag
    PROVE  /\ f[1] = "plan" => (f[2] \in Plan /\ (There(f) => f[2] \in Alive(plans)))
           /\ f[1] # "plan" => (f[1] = "skill" /\ f[2] \in Skill /\ (There(f) => f[2] \in Alive(skills)))
           /\ There(f) => Value(f) \in BOOLEAN
  BY DEF CatalogueTypeOK, Flag, There, Doc, Value, Alive, PlanDoc, SkillDoc

\* Flags keep their value, or are those of a new document; no toggle starts.
FlagKept(f) ==
    /\ There(f)' => ((There(f) /\ Value(f)' = Value(f)) \/ (Doc(f) = Null /\ ~Turned(f)'))
    /\ Doc(f) # Null => Doc(f)' # Null

SlotKept(q) ==
    \/ req'[q] = req[q]
    \/ /\ req'[q].at # "toggleSave"
       /\ (req'[q].at = "skillInsert" => req'[q].doc.blocked = FALSE)

LEMMA ToggleFrame ==
    ASSUME CatalogueTypeOK, ToggleInv, UNCHANGED flips, raced \subseteq raced',
           \A f \in Flag : FlagKept(f),
           \A q \in Request : SlotKept(q)
    PROVE  ToggleInv'
<1>1. \A q \in Request : Toggling(q)' => Toggling(q) /\ req'[q] = req[q]
  BY DEF Toggling, At, SlotKept
<1>7. Flag' = Flag
  BY DEF Flag
<1>2. TurnsCounted'
  BY <1>7 DEF ToggleInv, TurnsCounted, FlipsBorn, Turned, FlagKept
<1>3. FlipsBorn'
  BY <1>7 DEF ToggleInv, FlipsBorn, FlagKept
<1>4. SawCurrent'
  BY <1>1, <1>7 DEF ToggleInv, SawCurrent, FlagKept
<1>5. OverlapsRecorded'
  BY <1>1, <1>7 DEF ToggleInv, OverlapsRecorded
<1>6. BornUnturned'
  BY DEF ToggleInv, BornUnturned, At, SlotKept
<1> QED
  BY <1>2, <1>3, <1>4, <1>5, <1>6 DEF ToggleInv

\* A body sets one flag: the count starts there, and a toggle under way
\* overlaps it.
LEMMA SetStep ==
    ASSUME CatalogueTypeOK, ToggleInv, NEW f \in Flag,
           Doc(f)' # Null,
           There(f)' => (Turned(f)' <=> f \in flips'),
           (Doc(f) # Null /\ Turning(f)) => f \in raced',
           \A g \in Flag \ {f} : /\ FlagKept(g)
                                 /\ (g \in flips' <=> g \in flips)
                                 /\ (g \in raced => g \in raced'),
           \A q \in Request : SlotKept(q)
    PROVE  ToggleInv'
<1>1. \A q \in Request : Toggling(q)' => Toggling(q) /\ req'[q] = req[q]
  BY DEF Toggling, At, SlotKept
<1>7. Flag' = Flag
  BY DEF Flag
<1>2. TurnsCounted'
  <2> SUFFICES ASSUME NEW g \in Flag, g \notin raced', There(g)'
               PROVE  Turned(g)' <=> g \in flips'
    BY <1>7 DEF TurnsCounted
  <2>1. CASE g = f
    BY <2>1
  <2>2. CASE g # f
    <3>1. FlagKept(g) /\ (g \in flips' <=> g \in flips) /\ g \notin raced
      BY <2>2
    <3>2. CASE There(g) /\ Value(g)' = Value(g)
      BY <3>1, <3>2 DEF ToggleInv, TurnsCounted, Turned
    <3>3. CASE Doc(g) = Null /\ ~Turned(g)'
      BY <3>1, <3>3 DEF ToggleInv, FlipsBorn
    <3> QED
      BY <3>1, <3>2, <3>3 DEF FlagKept
  <2> QED
    BY <2>1, <2>2
<1>3. FlipsBorn'
  <2> SUFFICES ASSUME NEW g \in Flag, g \in flips'
               PROVE  Doc(g)' # Null
    BY <1>7 DEF FlipsBorn
  <2>1. CASE g # f
    BY <2>1 DEF ToggleInv, FlipsBorn, FlagKept
  <2> QED
    BY <2>1
<1>8. \A q \in Request : Toggling(q)' /\ req'[q].flag = f => f \in raced'
  BY <1>1 DEF ToggleInv, SawCurrent, Turning, Toggling
<1>4. SawCurrent'
  <2> SUFFICES ASSUME NEW q \in Request, NEW g \in Flag, Toggling(q)', req'[q].flag = g
               PROVE  /\ Doc(g)' # Null
                      /\ (g \notin raced' /\ There(g)') => req'[q].seen = Value(g)'
    BY <1>7 DEF SawCurrent
  <2>1. CASE g = f
    BY <1>8, <2>1
  <2>2. CASE g # f
    <3>1. FlagKept(g) /\ (g \in raced => g \in raced')
      BY <2>2
    <3>2. Toggling(q) /\ req'[q] = req[q]
      BY <1>1
    <3>3. Doc(g) # Null /\ ((g \notin raced /\ There(g)) => req[q].seen = Value(g))
      BY <3>2 DEF ToggleInv, SawCurrent
    <3> QED
      BY <3>1, <3>2, <3>3 DEF FlagKept
  <2> QED
    BY <2>1, <2>2
<1>5. OverlapsRecorded'
  <2> SUFFICES ASSUME NEW q \in Request, NEW r \in Request, NEW g \in Flag, q # r,
                      Toggling(q)', Toggling(r)', req'[q].flag = g, req'[r].flag = g
               PROVE  g \in raced'
    BY <1>7 DEF OverlapsRecorded
  <2>1. CASE g = f
    BY <1>8, <2>1
  <2>2. CASE g # f
    BY <1>1, <2>2 DEF ToggleInv, OverlapsRecorded
  <2> QED
    BY <2>1, <2>2
<1>6. BornUnturned'
  BY DEF ToggleInv, BornUnturned, At, SlotKept
<1> QED
  BY <1>2, <1>3, <1>4, <1>5, <1>6 DEF ToggleInv

LEMMA TurnStep ==
    ASSUME CatalogueTypeOK, ToggleInv, NEW p \in Request, NEW f \in Flag, There(f),
           Turn(p, f, Value(f))
    PROVE  ToggleInv'
<1>1. /\ req'[p] = [at |-> "toggleSave", flag |-> f, seen |-> Value(f)]
      /\ \A q \in Request \ {p} : req'[q] = req[q]
  BY FlagTypes, CatalogueStarts, CatalogueFrame DEF Turn
<1>2. /\ UNCHANGED <<plans, skills, flips>> /\ raced \subseteq raced'
      /\ (\E q \in Request : Toggling(q) /\ req[q].flag = f) => f \in raced'
  BY DEF Turn, Turning, Toggling
<1>3. \A g \in Flag : /\ Doc(g)' = Doc(g)
                     /\ Value(g)' = Value(g)
                     /\ (There(g)' <=> There(g))
                     /\ (Turned(g)' <=> Turned(g))
  BY <1>2 DEF Doc, Value, There, Turned
<1>4. \A q \in Request \ {p} : Toggling(q)' <=> Toggling(q)
  BY <1>1 DEF Toggling, At
<1>5. ~At(p, "skillInsert")'
  BY <1>1 DEF At
<1>6. \A q \in Request \ {p} : At(q, "skillInsert")' <=> At(q, "skillInsert")
  BY <1>1 DEF At
<1>9. Flag' = Flag
  BY DEF Flag
<1>7. SawCurrent'
  <2>1. Doc(f) # Null
    BY DEF There
  <2> QED
    BY <2>1, <1>1, <1>2, <1>3, <1>4, <1>9 DEF ToggleInv, SawCurrent
<1>8. OverlapsRecorded'
  BY <1>1, <1>2, <1>4, <1>9 DEF ToggleInv, OverlapsRecorded
<1>10. TurnsCounted' /\ FlipsBorn'
  BY <1>2, <1>3, <1>9 DEF ToggleInv, TurnsCounted, FlipsBorn
<1>11. BornUnturned'
  BY <1>1, <1>5, <1>6 DEF ToggleInv, BornUnturned
<1> QED
  BY <1>7, <1>8, <1>10, <1>11 DEF ToggleInv

\* The write turns the flag over if its document is still there.
LEMMA SaveStep ==
    ASSUME CatalogueTypeOK, ToggleInv, NEW p \in Request, Toggling(p), Done(p), UNCHANGED raced,
           NEW f \in Flag, req[p].flag = f,
           \/ /\ There(f) /\ Flip(f) /\ There(f)' /\ Value(f)' = ~req[p].seen
           \/ /\ ~There(f) /\ ~There(f)' /\ UNCHANGED flips
              /\ Doc(f)' = Doc(f),
           \A g \in Flag \ {f} : /\ Doc(g)' = Doc(g)
                                /\ Value(g)' = Value(g)
                                /\ (There(g)' <=> There(g))
    PROVE  ToggleInv'
<1>1. /\ req'[p] = Idle
      /\ \A q \in Request \ {p} : req'[q] = req[q]
  BY CatalogueStarts, CatalogueFrame DEF Done
<1>2. \A q \in Request : Toggling(q)' => Toggling(q) /\ q # p /\ req'[q] = req[q]
  BY <1>1 DEF Toggling, At, Idle
<1>3. \A g \in Flag : Doc(g) # Null => Doc(g)' # Null
  BY DEF There
<1>4. f \notin raced => \A q \in Request \ {p} : ~(Toggling(q) /\ req[q].flag = f)
  BY DEF ToggleInv, OverlapsRecorded
<1>5. \A g \in Flag : g # f => (g \in flips' <=> g \in flips)
  BY DEF Flip
<1>6. (f \notin raced /\ There(f)') => (Turned(f)' <=> f \in flips')
  <2> SUFFICES ASSUME f \notin raced, There(f)'
               PROVE  Turned(f)' <=> f \in flips'
    OBVIOUS
  <2>1. /\ There(f)
        /\ Value(f)' = ~req[p].seen
        /\ (f \in flips' <=> f \notin flips)
    BY DEF Flip
  <2>2. req[p].seen = Value(f) /\ (Turned(f) <=> f \in flips)
    BY <2>1 DEF ToggleInv, SawCurrent, TurnsCounted
  <2>3. Value(f) \in BOOLEAN
    BY <2>1, FlagTypes
  <2> QED
    BY <2>1, <2>2, <2>3 DEF Turned
<1>12. Flag' = Flag
  BY DEF Flag
<1>7. TurnsCounted'
  BY <1>5, <1>6, <1>12 DEF ToggleInv, TurnsCounted, Turned
<1>8. FlipsBorn'
  <2>1. There(f)' => Doc(f)' # Null
    BY DEF There
  <2> QED
    BY <2>1, <1>3, <1>5, <1>12 DEF ToggleInv, FlipsBorn
<1>9. SawCurrent'
  BY <1>2, <1>3, <1>4, <1>12 DEF ToggleInv, SawCurrent
<1>10. OverlapsRecorded'
  BY <1>2, <1>12 DEF ToggleInv, OverlapsRecorded
<1>11. BornUnturned'
  BY <1>1 DEF ToggleInv, BornUnturned, At, Idle
<1> QED
  BY <1>7, <1>8, <1>9, <1>10, <1>11 DEF ToggleInv

-----------------------------------------------------------------------------
(***************************************************************************)
(* The invariant.                                                          *)
(***************************************************************************)

CatalogueInv == CatalogueTypeOK /\ SaleInv /\ FreeInv /\ ToggleInv

\* Only the slot that steps changes.
LEMMA OneSlot ==
    ASSUME CatalogueTypeOK, NEW p \in Request, NEW x, Goto(p, x)
    PROVE  \A q \in Request : req'[q] = req[q] \/ (q = p /\ req'[q] = x)
  BY DEF CatalogueTypeOK, Goto

\* A flag whose document is as it was, or gone, keeps its value.
LEMMA FlagsKept ==
    ASSUME CatalogueTypeOK, CatalogueTypeOK',
           \A i \in Plan : \/ plans'[i] = plans[i]
                           \/ plans'[i] = Gone
                           \/ /\ i \in Alive(plans) /\ plans'[i] \in PlanDoc
                              /\ plans'[i].isActive = plans[i].isActive,
           \A s \in Skill : \/ skills'[s] = skills[s]
                            \/ skills'[s] = Gone
                            \/ /\ s \in Alive(skills) /\ skills'[s] \in SkillDoc
                               /\ skills'[s].blocked = skills[s].blocked
                            \/ /\ skills[s] = Null /\ skills'[s] \in SkillDoc
                               /\ skills'[s].blocked = FALSE
    PROVE  \A f \in Flag : FlagKept(f)
<1> SUFFICES ASSUME NEW f \in Flag
             PROVE  FlagKept(f)
  OBVIOUS
<1>0. /\ Null # Gone
      /\ \A d \in PlanDoc \cup SkillDoc : d \notin {Null, Gone}
  BY CatalogueAssumption DEF PlanDoc, SkillDoc
<1>1. CASE f[1] = "plan"
  <2>1. f[2] \in Plan
    BY <1>1, FlagTypes
  <2>2. /\ Doc(f) = plans[f[2]] /\ Doc(f)' = plans'[f[2]]
        /\ Value(f) = plans[f[2]].isActive /\ Value(f)' = plans'[f[2]].isActive
        /\ (Turned(f)' <=> plans'[f[2]].isActive = FALSE)
    BY <1>1 DEF Doc, Value, Turned
  <2> QED
    BY <1>0, <2>1, <2>2 DEF FlagKept, There, Alive
<1>2. CASE f[1] # "plan"
  <2>1. f[2] \in Skill /\ f[1] = "skill"
    BY <1>2, FlagTypes
  <2>2. /\ Doc(f) = skills[f[2]] /\ Doc(f)' = skills'[f[2]]
        /\ Value(f) = skills[f[2]].blocked /\ Value(f)' = skills'[f[2]].blocked
        /\ (Turned(f)' <=> skills'[f[2]].blocked = TRUE)
    BY <2>1 DEF Doc, Value, Turned
  <2> QED
    BY <1>0, <2>1, <2>2 DEF FlagKept, There, Alive
<1> QED
  BY <1>1, <1>2

\* The write of a plan's or a skill's toggle, as its flag sees it.
LEMMA PlanSaved ==
    ASSUME CatalogueTypeOK, CatalogueTypeOK', ToggleInv, NEW p \in Request, PlanToggleSave(p),
           NEW f \in Flag, req[p].flag = f
    PROVE  ToggleInv'
<1>1. /\ Toggling(p) /\ Done(p) /\ UNCHANGED <<raced, skills>>
      /\ f[1] = "plan" /\ f[2] \in Plan
  BY FlagTypes DEF PlanToggleSave, Toggling
<1>t. plans \in [Plan -> PlanDoc \cup {Null, Gone}]
  BY DEF CatalogueTypeOK
<1>2. There(f) <=> f[2] \in Alive(plans)
  BY <1>1, <1>t DEF There, Doc, Alive
<1>3. \A i \in Plan : i # f[2] => plans'[i] = plans[i]
  BY <1>1, <1>t DEF PlanToggleSave
<1>4. \A g \in Flag : g # f => (g[1] = "plan" => g[2] # f[2])
  BY <1>1 DEF Flag
<1>5. \A g \in Flag \ {f} : /\ Doc(g)' = Doc(g)
                          /\ Value(g)' = Value(g)
                          /\ (There(g)' <=> There(g))
  BY <1>1, <1>3, <1>4, FlagTypes DEF Doc, Value, There
<1>6. CASE There(f)
  <2>1. /\ plans' = [plans EXCEPT ![f[2]].isActive = ~req[p].seen]
        /\ Flip(f)
    BY <1>2, <1>6 DEF PlanToggleSave
  <2>2. plans[f[2]] \in PlanDoc
    BY <1>2, <1>6, AliveTypes
  <2>3. req[p].seen \in BOOLEAN
    BY <1>1, CatalogueLocals DEF Toggling, At, CatalogueTypeOK
  <2>4. plans'[f[2]] = [plans[f[2]] EXCEPT !.isActive = ~req[p].seen]
    BY <1>1, <1>t, <2>1
  <2>5. plans'[f[2]] \in PlanDoc /\ plans'[f[2]].isActive = ~req[p].seen
    BY <2>2, <2>3, <2>4 DEF PlanDoc
  <2>6. There(f)' /\ Value(f)' = ~req[p].seen
    BY <1>1, <2>5, CatalogueAssumption DEF There, Doc, Value, PlanDoc
  <2> QED
    BY <1>1, <1>5, <1>6, <2>1, <2>6, SaveStep
<1>7. CASE ~There(f)
  <2>1. UNCHANGED <<plans, flips>>
    BY <1>2, <1>7 DEF PlanToggleSave
  <2>2. ~There(f)' /\ Doc(f)' = Doc(f)
    BY <1>1, <1>7, <2>1 DEF There, Doc
  <2> QED
    BY <1>1, <1>5, <1>7, <2>1, <2>2, SaveStep
<1> QED
  BY <1>6, <1>7

LEMMA SkillSaved ==
    ASSUME CatalogueTypeOK, CatalogueTypeOK', ToggleInv, NEW p \in Request, SkillToggleSave(p),
           NEW f \in Flag, req[p].flag = f
    PROVE  ToggleInv'
<1>1. /\ Toggling(p) /\ Done(p) /\ UNCHANGED <<raced, plans>>
      /\ f[1] = "skill" /\ f[2] \in Skill
  BY FlagTypes DEF SkillToggleSave, Toggling
<1>t. skills \in [Skill -> SkillDoc \cup {Null, Gone}]
  BY DEF CatalogueTypeOK
<1>2. There(f) <=> f[2] \in Alive(skills)
  BY <1>1, <1>t DEF There, Doc, Alive
<1>3. \A i \in Skill : i # f[2] => skills'[i] = skills[i]
  BY <1>1, <1>t DEF SkillToggleSave
<1>4. \A g \in Flag : g # f => (g[1] = "skill" => g[2] # f[2])
  BY <1>1 DEF Flag
<1>5. \A g \in Flag \ {f} : /\ Doc(g)' = Doc(g)
                          /\ Value(g)' = Value(g)
                          /\ (There(g)' <=> There(g))
  BY <1>1, <1>3, <1>4, FlagTypes DEF Doc, Value, There
<1>6. CASE There(f)
  <2>1. /\ skills' = [skills EXCEPT ![f[2]].blocked = ~req[p].seen]
        /\ Flip(f)
    BY <1>2, <1>6 DEF SkillToggleSave
  <2>2. skills[f[2]] \in SkillDoc
    BY <1>2, <1>6, AliveTypes
  <2>3. req[p].seen \in BOOLEAN
    BY <1>1, CatalogueLocals DEF Toggling, At, CatalogueTypeOK
  <2>4. skills'[f[2]] = [skills[f[2]] EXCEPT !.blocked = ~req[p].seen]
    BY <1>1, <1>t, <2>1
  <2>5. skills'[f[2]] \in SkillDoc /\ skills'[f[2]].blocked = ~req[p].seen
    BY <2>2, <2>3, <2>4 DEF SkillDoc
  <2>6. There(f)' /\ Value(f)' = ~req[p].seen
    BY <1>1, <2>5, CatalogueAssumption DEF There, Doc, Value, SkillDoc
  <2> QED
    BY <1>1, <1>5, <1>6, <2>1, <2>6, SaveStep
<1>7. CASE ~There(f)
  <2>1. UNCHANGED <<skills, flips>>
    BY <1>2, <1>7 DEF SkillToggleSave
  <2>2. ~There(f)' /\ Doc(f)' = Doc(f)
    BY <1>1, <1>7, <2>1 DEF There, Doc
  <2> QED
    BY <1>1, <1>5, <1>7, <2>1, <2>2, SaveStep
<1> QED
  BY <1>6, <1>7

\* A write that sets a plan's flag, the insert of a plan included.
LEMMA PlanSet ==
    ASSUME CatalogueTypeOK, CatalogueTypeOK', ToggleInv, NEW i \in Plan, UNCHANGED skills,
           plans'[i] \in PlanDoc, \A j \in Plan \ {i} : plans'[j] = plans[j],
           plans'[i].isActive # Null,
           flips' = Counted(<<"plan", i>>, plans'[i].isActive, TRUE),
           (plans[i] # Null /\ Turning(<<"plan", i>>)) => <<"plan", i>> \in raced',
           \A g \in Flag \ {<<"plan", i>>} : g \in raced => g \in raced',
           \A q \in Request : SlotKept(q)
    PROVE  ToggleInv'
<1> DEFINE f == <<"plan", i>>
<1>1. f \in Flag /\ f[1] = "plan" /\ f[2] = i
  BY DEF Flag
<1>2. Doc(f) = plans[i] /\ Doc(f)' = plans'[i] /\ Doc(f)' # Null
  BY <1>1, CatalogueAssumption DEF Doc, PlanDoc
<1>3. Turned(f)' <=> plans'[i].isActive = FALSE
  BY <1>1 DEF Turned, Value
<1>4. plans'[i].isActive \in BOOLEAN
  BY DEF PlanDoc
<1>5. There(f)' => (Turned(f)' <=> f \in flips')
  BY <1>3, <1>4 DEF Counted
<1>8. (Doc(f) # Null /\ Turning(f)) => f \in raced'
  BY <1>2
<1>6. \A g \in Flag \ {f} : g \in flips' <=> g \in flips
  BY DEF Counted
<1>7. \A g \in Flag \ {f} : FlagKept(g)
  <2> SUFFICES ASSUME NEW g \in Flag \ {f}
               PROVE  FlagKept(g)
    OBVIOUS
  <2>1. g[1] = "plan" => g[2] \in Plan /\ g[2] # i
    BY <1>1 DEF Flag
  <2>2. Doc(g)' = Doc(g) /\ Value(g)' = Value(g)
    BY <2>1 DEF Doc, Value
  <2> QED
    BY <2>2 DEF FlagKept, There
<1>9. \A g \in Flag \ {f} : /\ FlagKept(g)
                            /\ (g \in flips' <=> g \in flips)
                            /\ (g \in raced => g \in raced')
  BY <1>6, <1>7
<1> HIDE DEF f
<1> QED
  BY <1>1, <1>2, <1>5, <1>8, <1>9, SetStep

LEMMA SkillSet ==
    ASSUME CatalogueTypeOK, CatalogueTypeOK', ToggleInv, NEW s \in Skill, UNCHANGED plans,
           skills'[s] \in SkillDoc, \A j \in Skill \ {s} : skills'[j] = skills[j],
           skills'[s].blocked # Null,
           flips' = Counted(<<"skill", s>>, skills'[s].blocked, FALSE),
           Turning(<<"skill", s>>) => <<"skill", s>> \in raced',
           \A g \in Flag \ {<<"skill", s>>} : g \in raced => g \in raced',
           \A q \in Request : SlotKept(q)
    PROVE  ToggleInv'
<1> DEFINE f == <<"skill", s>>
<1>1. f \in Flag /\ f[1] = "skill" /\ f[2] = s
  BY DEF Flag
<1>2. Doc(f)' = skills'[s] /\ Doc(f)' # Null
  BY <1>1, CatalogueAssumption DEF Doc, SkillDoc
<1>3. Turned(f)' <=> skills'[s].blocked = TRUE
  BY <1>1 DEF Turned, Value
<1>4. skills'[s].blocked \in BOOLEAN
  BY DEF SkillDoc
<1>5. There(f)' => (Turned(f)' <=> f \in flips')
  BY <1>3, <1>4 DEF Counted
<1>8. (Doc(f) # Null /\ Turning(f)) => f \in raced'
  OBVIOUS
<1>6. \A g \in Flag \ {f} : g \in flips' <=> g \in flips
  BY DEF Counted
<1>7. \A g \in Flag \ {f} : FlagKept(g)
  <2> SUFFICES ASSUME NEW g \in Flag \ {f}
               PROVE  FlagKept(g)
    OBVIOUS
  <2>1. g[1] # "plan" => g[1] = "skill" /\ g[2] \in Skill /\ g[2] # s
    BY <1>1 DEF Flag
  <2>2. Doc(g)' = Doc(g) /\ Value(g)' = Value(g)
    BY <2>1 DEF Doc, Value
  <2> QED
    BY <2>2 DEF FlagKept, There
<1>9. \A g \in Flag \ {f} : /\ FlagKept(g)
                            /\ (g \in flips' <=> g \in flips)
                            /\ (g \in raced => g \in raced')
  BY <1>6, <1>7
<1> HIDE DEF f
<1> QED
  BY <1>1, <1>2, <1>5, <1>8, <1>9, SetStep

LEMMA PlanInv ==
    ASSUME CatalogueInv, NEW p \in Request, PlanStep(p)
    PROVE  CatalogueInv'
<1>t. CatalogueTypeOK /\ CatalogueTypeOK'
  BY PlanTypes DEF CatalogueInv
<1>0. /\ plans \in [Plan -> PlanDoc \cup {Null, Gone}]
      /\ Alive(plans) \subseteq Plan /\ Unborn(plans) \subseteq Plan
      /\ \A i \in Alive(plans) : plans[i] \in PlanDoc
  BY <1>t, AliveTypes DEF CatalogueTypeOK
<1>i. Idle.at = "idle"
  BY DEF Idle
<1>1. \E x : Goto(p, x) /\ x.at \notin Selling \cup {"retryAsk"}
  <2>1. CASE createPlan(p)
    BY <2>1 DEF createPlan, Selling
  <2>5. CASE updatePlan(p)
    <3>1. \E x : Goto(p, x) /\ x.at \in {"updateName", "updateWrite"}
      BY <2>5 DEF updatePlan
    <3> QED
      BY <3>1 DEF Selling
  <2>6. CASE deletePlan(p)
    BY <2>6 DEF deletePlan, Selling
  <2>7. CASE togglePlanStatus(p)
    <3>1. PICK i \in Plan : Turn(p, <<"plan", i>>, plans[i].isActive)
      BY <2>7, <1>0 DEF togglePlanStatus
    <3> QED
      BY <3>1 DEF Turn, Selling
  <2>3. CASE PlanInsert(p) \/ UpdateWrite(p) \/ PlanDelete(p) \/ PlanToggleSave(p)
    BY <1>i, <2>3 DEF PlanInsert, UpdateWrite, PlanDelete, PlanToggleSave, Done, Selling
  <2>4. CASE UpdateName(p)
    <3>1. req[p] \in [at: {"updateName", "updateWrite"}, plan: Plan, was: Name, update: Update]
      BY <2>4, <1>t, CatalogueLocals DEF UpdateName, At, CatalogueTypeOK
    <3>2. [req[p] EXCEPT !.at = "updateWrite"].at \notin Selling \cup {"retryAsk"}
      BY <3>1 DEF Selling
    <3> QED
      BY <1>i, <2>4, <3>2 DEF UpdateName, Done, Selling
  <2> QED
    BY <2>1, <2>3, <2>4, <2>5, <2>6, <2>7 DEF PlanStep
<1>2. \A q \in Request : req'[q] = req[q] \/ req'[q].at \notin Selling \cup {"retryAsk"}
  BY <1>t, <1>1, OneSlot
<1>3. UNCHANGED <<sales, skills>>
  BY DEF PlanStep, createPlan, PlanInsert, updatePlan, UpdateName, UpdateWrite, deletePlan,
         PlanDelete, togglePlanStatus, Turn, PlanToggleSave
<1>4. SaleInv'
  BY <1>t, <1>2, <1>3, SaleFrame DEF CatalogueInv
<1>d. Done(p) => \A q \in Request : req'[q] = req[q] \/ req'[q].at = "idle"
  BY <1>t, <1>i, OneSlot DEF Done
<1>f. createPlan(p) \/ PlanInsert(p) \/ updatePlan(p) \/ UpdateName(p) \/ UpdateWrite(p) => FreeInv'
  BY <1>t, FreePlanSteps DEF CatalogueInv
<1>s. createPlan(p) \/ PlanInsert(p) \/ updatePlan(p) \/ UpdateName(p) \/ UpdateWrite(p) =>
         \A q \in Request : SlotKept(q)
  <2>1. CASE PlanInsert(p) \/ UpdateWrite(p)
    BY <2>1, <1>d DEF PlanInsert, UpdateWrite, SlotKept
  <2>2. CASE createPlan(p)
    <3>1. \E x : Goto(p, x) /\ x.at = "planInsert"
      BY <2>2 DEF createPlan
    <3> QED
      BY <3>1, <1>t, OneSlot DEF SlotKept
  <2>3. CASE updatePlan(p)
    <3>1. \E x : Goto(p, x) /\ x.at \in {"updateName", "updateWrite"}
      BY <2>3 DEF updatePlan
    <3> QED
      BY <3>1, <1>t, OneSlot DEF SlotKept
  <2>4. CASE UpdateName(p)
    <3>1. req[p] \in [at: {"updateName", "updateWrite"}, plan: Plan, was: Name, update: Update]
      BY <2>4, <1>t, CatalogueLocals DEF UpdateName, At, CatalogueTypeOK
    <3>2. [req[p] EXCEPT !.at = "updateWrite"].at = "updateWrite"
      BY <3>1
    <3>3. \A q \in Request : req'[q] = req[q] \/ req'[q].at \in {"idle", "updateWrite"}
      BY <2>4, <3>2, <1>t, OneSlot, <1>d DEF UpdateName
    <3> QED
      BY <3>3 DEF SlotKept
  <2> QED
    BY <2>1, <2>2, <2>3, <2>4
<1>5. CASE /\ createPlan(p) \/ PlanInsert(p) \/ updatePlan(p) \/ UpdateName(p) \/ UpdateWrite(p)
           /\ UNCHANGED <<plans, historyVars>>
  <2>1. \A f \in Flag : FlagKept(f)
    BY <1>t, <1>3, <1>5, FlagsKept
  <2>2. ToggleInv'
    BY <1>t, <1>s, <1>5, <2>1, ToggleFrame DEF CatalogueInv, historyVars
  <2> QED
    BY <1>t, <1>4, <1>f, <1>5, <2>2 DEF CatalogueInv
<1>9. CASE PlanInsert(p) /\ ~UNCHANGED <<plans, historyVars>>
  <2>1. PICK i \in Unborn(plans) : /\ plans' = [plans EXCEPT ![i] = req[p].doc]
                                   /\ flips' = Counted(<<"plan", i>>, req[p].doc.isActive, TRUE)
    BY <1>9 DEF PlanInsert, historyVars
  <2>2. req[p].doc \in PlanDoc /\ i \in Plan /\ plans[i] = Null
    BY <1>9, <1>0, <1>t, CatalogueLocals DEF PlanInsert, At, CatalogueTypeOK, Unborn
  <2>3. plans'[i] = req[p].doc /\ \A j \in Plan \ {i} : plans'[j] = plans[j]
    BY <1>0, <2>1, <2>2
  <2>4. UNCHANGED raced
    BY <1>9 DEF PlanInsert
  <2>6. /\ plans'[i] \in PlanDoc /\ plans'[i].isActive # Null
        /\ flips' = Counted(<<"plan", i>>, plans'[i].isActive, TRUE)
    BY <1>0, <2>1, <2>2, <2>3, CatalogueAssumption DEF PlanDoc
  <2>5. ToggleInv'
    BY <1>t, <1>3, <1>9, <1>s, <2>2, <2>3, <2>4, <2>6, PlanSet DEF CatalogueInv
  <2> QED
    BY <1>t, <1>4, <1>f, <1>9, <2>5 DEF CatalogueInv
<1>10. CASE UpdateWrite(p) /\ ~UNCHANGED <<plans, historyVars>>
  <2>1. req[p].plan \in Plan /\ req[p].update \in Update
    BY <1>10, <1>t, CatalogueLocals DEF UpdateWrite, At, CatalogueTypeOK
  <2>2. PICK i \in Plan, u \in Update :
           /\ i \in Alive(plans)
           /\ plans' = [plans EXCEPT ![i] = Updated(plans[i], u)]
           /\ flips' = Counted(<<"plan", i>>, u.isActive, TRUE)
           /\ raced' = Overlapped(<<"plan", i>>, u.isActive) \cup RenamedFree(p, i, u)
    BY <1>10, <2>1 DEF UpdateWrite
  <2>3. plans[i] \in PlanDoc /\ Updated(plans[i], u) \in PlanDoc
    BY <2>2, <1>0, UpdatedPlan
  <2>4. /\ plans'[i] = Updated(plans[i], u)
        /\ \A j \in Plan \ {i} : plans'[j] = plans[j]
    BY <1>0, <2>2
  <2>5. CASE u.isActive = Null
    <3>1. plans'[i].isActive = plans[i].isActive
      BY <2>4, <2>5 DEF Updated, Given
    <3>2. UNCHANGED flips /\ raced \subseteq raced'
      BY <2>2, <2>5 DEF Counted, Overlapped
    <3>3. \A f \in Flag : FlagKept(f)
      BY <1>t, <1>3, <2>2, <2>3, <2>4, <3>1, FlagsKept
    <3>4. ToggleInv'
      BY <1>t, <1>s, <1>10, <3>2, <3>3, ToggleFrame DEF CatalogueInv
    <3> QED
      BY <1>t, <1>4, <1>f, <1>10, <3>4 DEF CatalogueInv
  <2>6. CASE u.isActive # Null
    <3>1. plans'[i].isActive = u.isActive
      BY <2>4, <2>6 DEF Updated, Given
    <3>2. /\ flips' = Counted(<<"plan", i>>, plans'[i].isActive, TRUE)
          /\ Turning(<<"plan", i>>) => <<"plan", i>> \in raced'
          /\ \A g \in Flag \ {<<"plan", i>>} : g \in raced => g \in raced'
      BY <2>2, <2>6, <3>1 DEF Overlapped
    <3>3. ToggleInv'
      BY <1>t, <1>3, <1>10, <1>s, <2>3, <2>4, <2>6, <3>1, <3>2, PlanSet DEF CatalogueInv
    <3> QED
      BY <1>t, <1>4, <1>f, <1>10, <3>3 DEF CatalogueInv
  <2> QED
    BY <2>5, <2>6
<1>6. CASE deletePlan(p) \/ PlanDelete(p)
  <2>1. UNCHANGED <<flips, raced>>
    BY <1>6 DEF deletePlan, PlanDelete, historyVars
  <2>2. \A i \in Plan : plans'[i] = plans[i] \/ plans'[i] = Gone
    BY <1>6, <1>0 DEF deletePlan, PlanDelete, Delete
  <2>3. \A q \in Request : req'[q] = req[q] \/ req'[q].at \in {"idle", "planDelete"}
    <3>1. CASE deletePlan(p)
      BY <3>1, <1>t, OneSlot DEF deletePlan
    <3>2. CASE PlanDelete(p)
      BY <3>2, <1>d DEF PlanDelete
    <3> QED
      BY <1>6, <3>1, <3>2
  <2>4. FreeInv'
    BY <1>t, <2>1, <2>2, <2>3, FreeFrame DEF RacedKept, PlansKept, CatalogueInv
  <2>5. \A f \in Flag : FlagKept(f)
    BY <1>t, <1>3, <2>2, FlagsKept
  <2>6. \A q \in Request : SlotKept(q)
    BY <2>3 DEF SlotKept
  <2>7. ToggleInv'
    BY <1>t, <2>1, <2>5, <2>6, ToggleFrame DEF CatalogueInv
  <2> QED
    BY <1>t, <1>4, <2>4, <2>7 DEF CatalogueInv
<1>7. CASE togglePlanStatus(p)
  <2>1. PICK i \in Alive(plans) : Turn(p, <<"plan", i>>, plans[i].isActive)
    BY <1>7 DEF togglePlanStatus
  <2>2. /\ <<"plan", i>> \in Flag /\ There(<<"plan", i>>)
        /\ Value(<<"plan", i>>) = plans[i].isActive
    BY <2>1, <1>0 DEF Flag, There, Doc, Value, Alive
  <2>3. ToggleInv'
    BY <1>t, <2>1, <2>2, TurnStep DEF CatalogueInv
  <2>4. UNCHANGED plans /\ raced \subseteq raced'
    BY <2>1 DEF Turn
  <2>5. \A q \in Request : req'[q] = req[q] \/ req'[q].at = "toggleSave"
    BY <2>1, <1>t, OneSlot DEF Turn
  <2>6. FreeInv'
    BY <1>t, <2>4, <2>5, FreeFrame DEF RacedKept, PlansKept, CatalogueInv
  <2> QED
    BY <1>t, <1>4, <2>3, <2>6 DEF CatalogueInv
<1>8. CASE PlanToggleSave(p)
  <2>1. PICK f \in Flag : req[p].flag = f
    BY <1>8, <1>t, CatalogueLocals DEF PlanToggleSave, At, CatalogueTypeOK
  <2>2. ToggleInv'
    BY <1>8, <1>t, <2>1, PlanSaved DEF CatalogueInv
  <2>3. req[p].seen \in BOOLEAN
    BY <1>8, <1>t, CatalogueLocals DEF PlanToggleSave, At, CatalogueTypeOK
  <2>4. PlansKept
    <3>1. CASE UNCHANGED plans
      BY <3>1 DEF PlansKept
    <3>2. CASE ~UNCHANGED plans
      <4>1. PICK i \in Alive(plans) : plans' = [plans EXCEPT ![i].isActive = ~req[p].seen]
        BY <1>8, <3>2 DEF PlanToggleSave
      <4>2. i \in Plan /\ plans[i] \in PlanDoc
        BY <1>0
      <4>3. \A j \in Plan \ {i} : plans'[j] = plans[j]
        BY <4>1, <1>0
      <4>4. plans'[i] = [plans[i] EXCEPT !.isActive = ~req[p].seen]
        BY <4>1, <4>2, <1>0
      <4>5. /\ plans'[i] \in PlanDoc
            /\ plans'[i].name = plans[i].name /\ plans'[i].price = plans[i].price
        BY <4>2, <4>4, <2>3 DEF PlanDoc
      <4> QED
        BY <4>3, <4>5 DEF PlansKept
    <3> QED
      BY <3>1, <3>2
  <2>5. raced \subseteq raced'
    BY <1>8 DEF PlanToggleSave
  <2>6. \A q \in Request : req'[q] = req[q] \/ req'[q].at = "idle"
    BY <1>8, <1>d DEF PlanToggleSave
  <2>7. FreeInv'
    BY <1>t, <2>4, <2>5, <2>6, FreeFrame DEF RacedKept, CatalogueInv
  <2> QED
    BY <1>t, <1>4, <2>2, <2>7 DEF CatalogueInv
<1>11. createPlan(p) \/ updatePlan(p) \/ UpdateName(p) => UNCHANGED <<plans, historyVars>>
  BY DEF createPlan, updatePlan, UpdateName
<1> QED
  BY <1>5, <1>6, <1>7, <1>8, <1>9, <1>10, <1>11 DEF PlanStep

LEMMA SkillInv ==
    ASSUME CatalogueInv, NEW p \in Request, SkillStep(p)
    PROVE  CatalogueInv'
<1>t. CatalogueTypeOK /\ CatalogueTypeOK'
  BY SkillTypes DEF CatalogueInv
<1>0. /\ skills \in [Skill -> SkillDoc \cup {Null, Gone}]
      /\ Alive(skills) \subseteq Skill /\ Unborn(skills) \subseteq Skill
      /\ \A s \in Alive(skills) : skills[s] \in SkillDoc
  BY <1>t, AliveTypes DEF CatalogueTypeOK
<1>1. \A q \in Request : req'[q] = req[q] \/ req'[q].at \in {"idle", "skillInsert", "toggleSave"}
  <2>1. CASE createSkill(p)
    BY <2>1, <1>t, OneSlot DEF createSkill
  <2>3. CASE blockOrUnblockSkill(p)
    <3>1. PICK s \in Alive(skills) : Turn(p, <<"skill", s>>, skills[s].blocked)
      BY <2>3 DEF blockOrUnblockSkill
    <3> QED
      BY <3>1, <1>t, OneSlot DEF Turn
  <2>2. CASE SkillInsert(p) \/ SkillToggleSave(p)
    BY <2>2, <1>t, OneSlot DEF SkillInsert, SkillToggleSave, Done, Idle
  <2> QED
    BY <2>1, <2>2, <2>3 DEF SkillStep
<1>2. UNCHANGED <<plans, sales>> /\ raced \subseteq raced'
  BY DEF SkillStep, createSkill, SkillInsert, blockOrUnblockSkill, Turn, SkillToggleSave, historyVars
<1>3. SaleInv'
  BY <1>t, <1>1, <1>2, SaleFrame DEF CatalogueInv, Selling
<1>4. FreeInv'
  BY <1>t, <1>1, <1>2, FreeFrame DEF RacedKept, CatalogueInv, PlansKept
<1>5. CASE createSkill(p)
  <2>1. PICK n \in Name : Goto(p, [at |-> "skillInsert", doc |-> [name |-> n, blocked |-> FALSE]])
    BY <1>5 DEF createSkill
  <2>2. \A q \in Request : SlotKept(q)
    BY <2>1, <1>t, OneSlot DEF SlotKept
  <2>3. UNCHANGED <<skills, flips>>
    BY <1>5 DEF createSkill, historyVars
  <2>4. \A f \in Flag : FlagKept(f)
    BY <1>t, <1>2, <2>3, FlagsKept
  <2>5. ToggleInv'
    BY <1>t, <1>2, <2>2, <2>3, <2>4, ToggleFrame DEF CatalogueInv
  <2> QED
    BY <1>t, <1>3, <1>4, <2>5 DEF CatalogueInv
<1>6. CASE SkillInsert(p)
  <2>1. \A q \in Request : SlotKept(q)
    BY <1>6, <1>t, OneSlot DEF SkillInsert, Done, Idle, SlotKept
  <2>2. UNCHANGED flips
    BY <1>6 DEF SkillInsert, historyVars
  <2>3. req[p].doc \in SkillDoc /\ req[p].doc.blocked = FALSE
    BY <1>6, <1>t, CatalogueLocals
       DEF SkillInsert, At, CatalogueTypeOK, CatalogueInv, ToggleInv, BornUnturned
  <2>4. \A s \in Skill : \/ skills'[s] = skills[s]
                          \/ /\ skills[s] = Null /\ skills'[s] \in SkillDoc
                             /\ skills'[s].blocked = FALSE
    BY <1>6, <1>0, <2>3 DEF SkillInsert, Unborn
  <2>5. \A f \in Flag : FlagKept(f)
    BY <1>t, <1>2, <2>4, FlagsKept
  <2>6. ToggleInv'
    BY <1>t, <1>2, <2>1, <2>2, <2>5, ToggleFrame DEF CatalogueInv
  <2> QED
    BY <1>t, <1>3, <1>4, <2>6 DEF CatalogueInv
<1>7. CASE blockOrUnblockSkill(p)
  <2>1. PICK s \in Alive(skills) : Turn(p, <<"skill", s>>, skills[s].blocked)
    BY <1>7 DEF blockOrUnblockSkill
  <2>2. /\ <<"skill", s>> \in Flag /\ There(<<"skill", s>>)
        /\ Value(<<"skill", s>>) = skills[s].blocked
    BY <2>1, <1>0 DEF Flag, There, Doc, Value, Alive
  <2>3. ToggleInv'
    BY <1>t, <2>1, <2>2, TurnStep DEF CatalogueInv
  <2> QED
    BY <1>t, <1>3, <1>4, <2>3 DEF CatalogueInv
<1>8. CASE SkillToggleSave(p)
  <2>1. PICK f \in Flag : req[p].flag = f
    BY <1>8, <1>t, CatalogueLocals DEF SkillToggleSave, At, CatalogueTypeOK
  <2>2. ToggleInv'
    BY <1>8, <1>t, <2>1, SkillSaved DEF CatalogueInv
  <2> QED
    BY <1>t, <1>3, <1>4, <2>2 DEF CatalogueInv
<1> QED
  BY <1>5, <1>6, <1>7, <1>8 DEF SkillStep

LEMMA SaleStepInv ==
    ASSUME CatalogueInv, NEW p \in Request, SaleStep(p)
    PROVE  CatalogueInv'
<1>t. CatalogueTypeOK /\ CatalogueTypeOK'
  <2>1. At(p, "retryAsk") => req[p].amount \in Price
    BY RetryAmount DEF CatalogueInv
  <2> QED
    BY <2>1, SaleTypes DEF CatalogueInv
<1>1. UNCHANGED <<plans, skills, flips, raced>>
  BY DEF SaleStep, SaleRead, SaleAsk, SalePay, SaleCreate, RetryRead, RetryAsk, historyVars
<1>l. Sells(p) => req[p] \in [at: Selling, sale: Sale, id: Plan, plan: PlanDoc]
  BY <1>t, CatalogueLocals DEF CatalogueTypeOK, Sells
<1>2. \A q \in Request :
         req'[q] = req[q] \/ req'[q].at \in Selling \cup {"idle", "retryAsk"}
  <2>1. CASE SaleRead(p)
    <3>1. \E x : Goto(p, x) /\ x.at = "saleAsk"
      BY <2>1 DEF SaleRead
    <3> QED
      BY <3>1, <1>t, OneSlot DEF Selling
  <2>4. CASE RetryRead(p)
    <3>1. \E x : Goto(p, x) /\ x.at = "retryAsk"
      BY <2>4 DEF RetryRead
    <3> QED
      BY <3>1, <1>t, OneSlot
  <2>2. CASE SaleAsk(p) \/ SalePay(p)
    <3>1. \A l \in Selling : [req[p] EXCEPT !.at = l].at = l
      BY <2>2, <1>l DEF SaleAsk, SalePay, At, Sells, Selling
    <3>2. \E l \in Selling : Goto(p, [req[p] EXCEPT !.at = l])
      BY <2>2 DEF SaleAsk, SalePay, Selling
    <3> QED
      BY <3>1, <3>2, <1>t, OneSlot, ZenonT(40)
  <2>3. CASE SaleCreate(p) \/ RetryAsk(p)
    BY <2>3, <1>t, OneSlot DEF SaleCreate, RetryAsk, Done, Idle
  <2> QED
    BY <2>1, <2>2, <2>3, <2>4 DEF SaleStep
<1>3. SaleInv'
  BY <1>t, SaleSteps DEF CatalogueInv
<1>4. FreeInv'
  BY <1>t, <1>1, <1>2, FreeFrame DEF RacedKept, CatalogueInv, PlansKept, Selling
<1>5. \A f \in Flag : FlagKept(f)
  BY <1>t, <1>1, FlagsKept
<1>6. \A q \in Request : SlotKept(q)
  BY <1>2 DEF SlotKept, Selling
<1>7. ToggleInv'
  BY <1>t, <1>1, <1>5, <1>6, ToggleFrame DEF CatalogueInv
<1> QED
  BY <1>t, <1>3, <1>4, <1>7 DEF CatalogueInv

LEMMA OtherInv ==
    ASSUME CatalogueInv,
           (\E p \in Request : RequestFails(p)) \/ SetTerms \/ updateSkill \/ deleteSkill
    PROVE  CatalogueInv'
<1>t. CatalogueTypeOK /\ CatalogueTypeOK'
  BY OtherTypes DEF CatalogueInv, updatePlanLimits, updatePlanFeatures
<1>0. /\ plans \in [Plan -> PlanDoc \cup {Null, Gone}]
      /\ skills \in [Skill -> SkillDoc \cup {Null, Gone}]
      /\ Alive(plans) \subseteq Plan /\ Alive(skills) \subseteq Skill
      /\ \A i \in Alive(plans) : plans[i] \in PlanDoc
      /\ \A s \in Alive(skills) : skills[s] \in SkillDoc
  BY <1>t, AliveTypes DEF CatalogueTypeOK
<1>1. UNCHANGED sales /\ (~updateSkill => UNCHANGED <<flips, raced>>)
  BY DEF RequestFails, SetTerms, updateSkill, deleteSkill, historyVars
<1>r. \A j \in Plan : RacedKept(j)
  <2>1. CASE updateSkill
    <3>1. \A s \in Skill, b \in BOOLEAN \cup {Null}, j \in Plan :
             <<"free", j>> \in raced => <<"free", j>> \in Overlapped(<<"skill", s>>, b)
      BY DEF Overlapped
    <3>2. PICK s \in Skill, b \in BOOLEAN \cup {Null} : raced' = Overlapped(<<"skill", s>>, b)
      BY <2>1, <1>0 DEF updateSkill
    <3> QED
      BY <3>1, <3>2 DEF RacedKept
  <2>2. CASE ~updateSkill
    BY <1>1, <2>2 DEF RacedKept
  <2> QED
    BY <2>1, <2>2
<1>2. \A q \in Request : req'[q] = req[q] \/ req'[q].at = "idle"
  <2>1. CASE UNCHANGED req
    BY <2>1
  <2>2. CASE \E p \in Request : Done(p)
    BY <2>2, <1>t, OneSlot DEF Done, Idle
  <2> QED
    BY <2>1, <2>2 DEF RequestFails, SetTerms, updateSkill, deleteSkill
<1>3. \A i \in Plan : \/ plans'[i] = plans[i]
                       \/ /\ i \in Alive(plans) /\ plans'[i] \in PlanDoc
                          /\ plans'[i].name = plans[i].name /\ plans'[i].price = plans[i].price
                          /\ plans'[i].isActive = plans[i].isActive
  <2>1. CASE UNCHANGED plans
    BY <2>1
  <2>2. CASE SetTerms
    <3>1. PICK i \in Alive(plans), t \in Terms : plans' = [plans EXCEPT ![i].terms = t]
      BY <2>2 DEF SetTerms
    <3>2. plans'[i] = [plans[i] EXCEPT !.terms = t]
      BY <3>1, <1>0
    <3>3. /\ plans'[i] \in PlanDoc
          /\ plans'[i].name = plans[i].name /\ plans'[i].price = plans[i].price
          /\ plans'[i].isActive = plans[i].isActive
      BY <3>2, <1>0 DEF PlanDoc
    <3>4. \A j \in Plan \ {i} : plans'[j] = plans[j]
      BY <3>1, <1>0
    <3> QED
      BY <3>3, <3>4
  <2> QED
    BY <2>1, <2>2 DEF RequestFails, updateSkill, deleteSkill
<1>4. ~updateSkill => \A s \in Skill : skills'[s] = skills[s] \/ skills'[s] = Gone
  BY <1>0 DEF RequestFails, SetTerms, deleteSkill, Delete
<1>5. SaleInv'
  BY <1>t, <1>1, <1>2, SaleFrame DEF CatalogueInv, Selling
<1>6. FreeInv'
  BY <1>t, <1>2, <1>3, <1>r, FreeFrame DEF CatalogueInv, PlansKept
<1>8. \A q \in Request : SlotKept(q)
  BY <1>2 DEF SlotKept
<1>7. CASE ~updateSkill
  <2>1. \A f \in Flag : FlagKept(f)
    BY <1>t, <1>3, <1>4, <1>7, FlagsKept
  <2>2. ToggleInv'
    BY <1>t, <1>1, <1>7, <1>8, <2>1, ToggleFrame DEF CatalogueInv
  <2> QED
    BY <1>t, <1>5, <1>6, <2>2 DEF CatalogueInv
<1>9. CASE updateSkill
  <2>1. PICK s \in Alive(skills), n \in Name \cup {Null}, b \in BOOLEAN \cup {Null} :
           SkillWritten(s, n, b)
    BY <1>9 DEF updateSkill, SkillWritten
  <2>2. /\ skills'[s] \in SkillDoc /\ s \in Skill /\ UNCHANGED plans
        /\ skills'[s].blocked = Given(b, skills[s].blocked)
        /\ \A j \in Skill \ {s} : skills'[j] = skills[j]
    BY <1>t, <1>0, <1>9, <2>1, SkillWrite DEF updateSkill
  <2>3. CASE b = Null
    <3>1. skills'[s].blocked = skills[s].blocked
      BY <2>2, <2>3 DEF Given
    <3>2. UNCHANGED <<flips, raced>>
      BY <2>1, <2>3 DEF SkillWritten, Counted, Overlapped
    <3>3. \A f \in Flag : FlagKept(f)
      BY <1>t, <1>3, <2>1, <2>2, <3>1, FlagsKept
    <3>4. ToggleInv'
      BY <1>t, <1>8, <3>2, <3>3, ToggleFrame DEF CatalogueInv
    <3> QED
      BY <1>t, <1>5, <1>6, <3>4 DEF CatalogueInv
  <2>4. CASE b # Null
    <3>1. skills'[s].blocked = b
      BY <2>2, <2>4 DEF Given
    <3>2. /\ flips' = Counted(<<"skill", s>>, skills'[s].blocked, FALSE)
          /\ Turning(<<"skill", s>>) => <<"skill", s>> \in raced'
          /\ \A g \in Flag \ {<<"skill", s>>} : g \in raced => g \in raced'
      BY <2>1, <2>4, <3>1 DEF SkillWritten, Overlapped
    <3>3. ToggleInv'
      BY <1>t, <1>8, <2>2, <2>4, <3>1, <3>2, SkillSet DEF CatalogueInv
    <3> QED
      BY <1>t, <1>5, <1>6, <3>3 DEF CatalogueInv
  <2> QED
    BY <2>3, <2>4
<1> QED
  BY <1>7, <1>9

LEMMA CatalogueStarted == CatalogueInit => CatalogueInv
<1> SUFFICES ASSUME CatalogueInit
             PROVE  CatalogueInv
  OBVIOUS
<1>1. CatalogueTypeOK
  BY CatalogueAssumption, CatalogueStarts
     DEF CatalogueInit, CatalogueTypeOK, NoSale, SaleDoc
<1>2. /\ Alive(plans) = {} /\ \A q \in Request : req[q].at = "idle"
      /\ \A f \in Flag : ~There(f)
  BY DEF CatalogueInit, Alive, Idle, There, Doc, Flag
<1>3. SaleInv
  BY <1>2 DEF CatalogueInit, SaleInv, AskedAsSold, NoSale, Sells, Selling, At
<1>4. FreeInv
  BY <1>2 DEF CatalogueInit, FreeInv, FreeCostsNothingUnlessRaced, At, Updating
<1>5. ToggleInv
  BY <1>2 DEF CatalogueInit, ToggleInv, TurnsCounted, FlipsBorn, SawCurrent, OverlapsRecorded,
              BornUnturned, Toggling, At
<1> QED
  BY <1>1, <1>3, <1>4, <1>5 DEF CatalogueInv

LEMMA CatalogueSteps == CatalogueInv /\ [CatalogueNext]_catalogueVars => CatalogueInv'
<1> SUFFICES ASSUME CatalogueInv, [CatalogueNext]_catalogueVars
             PROVE  CatalogueInv'
  OBVIOUS
<1>1. CASE UNCHANGED catalogueVars
  <2>0. UNCHANGED <<plans, skills, sales, req, started, fails, flips, raced>>
    BY <1>1 DEF catalogueVars
  <2>t. CatalogueTypeOK /\ CatalogueTypeOK'
    BY <2>0 DEF CatalogueInv, CatalogueTypeOK
  <2>1. SaleInv'
    BY <2>0, <2>t, SaleFrame DEF CatalogueInv
  <2>2. FreeInv'
    BY <2>0, <2>t, FreeFrame DEF RacedKept, CatalogueInv, PlansKept
  <2>3. \A f \in Flag : FlagKept(f)
    BY <2>0, <2>t, FlagsKept
  <2>4. ToggleInv'
    BY <2>0, <2>t, <2>3, ToggleFrame DEF CatalogueInv, SlotKept
  <2> QED
    BY <2>t, <2>1, <2>2, <2>4 DEF CatalogueInv
<1>2. CASE CatalogueNext
  BY <1>2, PlanInv, SkillInv, SaleStepInv, OtherInv
     DEF CatalogueNext, updatePlanLimits, updatePlanFeatures
<1> QED
  BY <1>1, <1>2

LEMMA CatalogueAlways == CatalogueSpec => []CatalogueInv
  BY CatalogueStarted, CatalogueSteps, PTL DEF CatalogueSpec

-----------------------------------------------------------------------------
(***************************************************************************)
(* What the catalogue keeps to, for any constants.                         *)
(***************************************************************************)

\* Every document, sale and request in flight has its type, the bounds on
\* requests and rejections included.
THEOREM CatalogueTypesCorrect == CatalogueSpec => []CatalogueTypeOK
  BY CatalogueAlways, PTL DEF CatalogueInv

\* Whatever the administrator does to a plan while it is sold, Stripe is
\* asked, at first and in every retry, for the price the subscription
\* keeps and the payment records.
THEOREM SoldAsAsked == CatalogueSpec => []AskedAsSold
  BY CatalogueAlways, PTL DEF CatalogueInv, SaleInv

\* The plan named free costs nothing, but for the two cases history marks:
\* it was renamed to free with its price left alone, or while another update
\* that had looked at it was about to price it.
THEOREM FreePlanFree == CatalogueSpec => []FreeCostsNothingUnlessRaced
  BY CatalogueAlways, PTL DEF CatalogueInv, FreeInv

LEMMA CountedToggles ==
    ASSUME CatalogueTypeOK, TurnsCounted
    PROVE  TogglesCountUnlessRaced
<1>1. ASSUME NEW i \in Alive(plans), <<"plan", i>> \notin raced
      PROVE  plans[i].isActive <=> <<"plan", i>> \notin flips
  <2>1. /\ i \in Plan /\ plans[i].isActive \in BOOLEAN
        /\ <<"plan", i>> \in Flag
    BY AliveTypes DEF Flag, PlanDoc
  <2>2. There(<<"plan", i>>) /\ (Turned(<<"plan", i>>) <=> plans[i].isActive = FALSE)
    BY DEF There, Doc, Turned, Value, Alive
  <2>3. Turned(<<"plan", i>>) <=> <<"plan", i>> \in flips
    BY <1>1, <2>1, <2>2 DEF TurnsCounted
  <2> QED
    BY <2>1, <2>2, <2>3
<1>2. ASSUME NEW s \in Alive(skills), <<"skill", s>> \notin raced
      PROVE  skills[s].blocked <=> <<"skill", s>> \in flips
  <2>1. /\ s \in Skill /\ skills[s].blocked \in BOOLEAN
        /\ <<"skill", s>> \in Flag
    BY AliveTypes DEF Flag, SkillDoc
  <2>2. There(<<"skill", s>>) /\ (Turned(<<"skill", s>>) <=> skills[s].blocked = TRUE)
    BY DEF There, Doc, Turned, Value, Alive
  <2>3. Turned(<<"skill", s>>) <=> <<"skill", s>> \in flips
    BY <1>2, <2>1, <2>2 DEF TurnsCounted
  <2> QED
    BY <2>1, <2>2, <2>3
<1> QED
  BY <1>1, <1>2 DEF TogglesCountUnlessRaced

\* From the last body that set a flag on, it is turned over as often as its
\* toggle has answered, unless it was written between the read and the save
\* of one of its toggles.
THEOREM TogglesCounted == CatalogueSpec => []TogglesCountUnlessRaced
<1>1. CatalogueInv => TogglesCountUnlessRaced
  BY CountedToggles DEF CatalogueInv, ToggleInv
<1> QED
  BY <1>1, CatalogueAlways, PTL
=============================================================================

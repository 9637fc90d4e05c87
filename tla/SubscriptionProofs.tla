------------------------- MODULE SubscriptionProofs -------------------------
(***************************************************************************)
(* Type correctness of SubscriptionSystem; what the payments collection    *)
(* may claim about Stripe and about invoices; what an active subscription  *)
(* rests on, and the life it lives; which overlaps, and no others, may     *)
(* undo the queue's flags, its dates and its head; for any number of       *)
(* companies, documents and handlers in flight.  The type invariant says,  *)
(* for every await a slot can be at, which locals it holds; it is          *)
(* inductive by itself.                                                    *)
(***************************************************************************)
EXTENDS SubscriptionSystem, FiniteSetTheorems, SequenceTheorems, TLAPS

-----------------------------------------------------------------------------
(***************************************************************************)
(* The queries return sequences of subscriptions.                          *)
(***************************************************************************)

\* An enumeration of a set of subscriptions is a sequence of subscriptions.
LEMMA EnumerationType ==
    ASSUME NEW S \in SUBSET Sub, NEW q \in SetToSeqs(S)
    PROVE  q \in Seq(Sub)
<1>1. IsFiniteSet(S)
  BY StoreAssumption, FS_Subset
<1>2. Cardinality(S) \in Nat
  BY <1>1, FS_CardinalityType
<1>3. q \in [1..Cardinality(S) -> S]
  BY DEF SetToSeqs
<1>4. q \in [1..Cardinality(S) -> Sub]
  BY <1>3
<1> QED
  BY <1>2, <1>4, IsASeq

\* What findQueuedByCompany, findReadyToActivate and findExpired may return.
LEMMA QueryTypes ==
    /\ \A c : QueuedByCompany(c) \subseteq Seq(Sub)
    /\ ReadyToActivate \subseteq Seq(Sub)
    /\ Expired \subseteq Seq(Sub)
    /\ \A c : ActiveByCompany(c) \subseteq Sub
    /\ \A s : PendingBySubscription(s) \subseteq Pay
    /\ FreshSub \subseteq Sub
    /\ FreshPay \subseteq Pay
    /\ FreshIntent \subseteq Intent
<1>1. ASSUME NEW S \in SUBSET Sub
      PROVE  ByPosition(S) \subseteq Seq(Sub)
  BY EnumerationType DEF ByPosition
<1>2. Waiting \subseteq Sub
  BY DEF Waiting
<1>3. \A c : QueuedByCompany(c) \subseteq Seq(Sub)
  BY <1>1, <1>2 DEF QueuedByCompany
<1>4. ReadyToActivate \subseteq Seq(Sub)
  BY <1>1, <1>2 DEF ReadyToActivate
<1>5. Expired \subseteq Seq(Sub)
  BY EnumerationType DEF Expired
<1>6. /\ \A c : ActiveByCompany(c) \subseteq Sub
      /\ \A s : PendingBySubscription(s) \subseteq Pay
      /\ FreshSub \subseteq Sub
      /\ FreshPay \subseteq Pay
      /\ FreshIntent \subseteq Intent
  BY DEF ActiveByCompany, PendingBySubscription, FreshSub, FreshPay, FreshIntent, Least
<1> QED
  BY <1>3, <1>4, <1>5, <1>6

-----------------------------------------------------------------------------
(***************************************************************************)
(* Checkout.                                                               *)
(***************************************************************************)

\* The locals a slot holds at each await of the checkout handlers.
LEMMA CheckoutLocals ==
    ASSUME NEW r \in Activity
    PROVE  /\ r.at = "createPayment" =>
                  r.company \in Company /\ r.active \in Sub \cup {Null} /\ r.from \in Nat
           /\ r.at = "createQueue" =>
                  /\ r.company \in Company /\ r.active \in Sub /\ r.from \in Nat
                  /\ r.pay \in Pay /\ r.intent \in Intent
           /\ r.at = "createSub" =>
                  /\ r.company \in Company /\ r.active \in Sub \cup {Null}
                  /\ r.from \in Nat /\ r.pay \in Pay /\ r.intent \in Intent
                  /\ r.position \in Nat
           /\ r.at = "createLink" =>
                  r.sub \in Sub /\ r.pay \in Pay /\ r.intent \in Intent
           /\ r.at = "confirmFind" =>
                  r.sub \in Sub /\ r.intent \in Intent /\ r.queued \in BOOLEAN
           /\ r.at \in {"confirmInvoice", "confirmComplete", "confirmStatus"} =>
                  /\ r \in [at: {"confirmInvoice", "confirmComplete", "confirmStatus"},
                            sub: Sub, intent: Intent, queued: BOOLEAN, pay: Pay]
                  /\ r.sub \in Sub /\ r.intent \in Intent /\ r.queued \in BOOLEAN
                  /\ r.pay \in Pay
           /\ r.at = "retryFind" => r.sub \in Sub
           /\ r.at = "retryIssue" => r.sub \in Sub /\ r.pay \in Pay
  BY DEF Activity, Idle, CheckoutRequest, QueueRequest, AddonRequest

LEMMA CheckoutTypes ==
    ASSUME TypeOK, NEW p \in Slot, CheckoutStep(p)
    PROVE  TypeOK'
<1> DEFINE r == req[p]
<1> USE StoreAssumption
<1>t. /\ StoreTypeOK
      /\ req \in [Slot -> Activity]
      /\ r \in Activity
  BY DEF TypeOK
<1>l. /\ FreshSub \subseteq Sub /\ FreshPay \subseteq Pay /\ FreshIntent \subseteq Intent
      /\ \A c : ActiveByCompany(c) \subseteq Sub
      /\ \A c : QueuedByCompany(c) \subseteq Seq(Sub)
      /\ \A s : PendingBySubscription(s) \subseteq Pay
  BY QueryTypes
<1>g. ASSUME NEW x \in Activity, Goto(p, x)
      PROVE  req' \in [Slot -> Activity]
  BY <1>t, <1>g DEF Goto
<1>i. Idle \in Activity
  BY DEF Activity
<1>d. Done(p) => req' \in [Slot -> Activity]
  BY <1>g, <1>i DEF Done
<1>1. CASE CreateStart(p)
  <2>1. PICK c \in Company, a \in Sub \cup {Null} :
           Goto(p, [at |-> "createPayment", company |-> c, active |-> a,
                    from |-> IF a = Null THEN 0 ELSE subs[a].endDate])
    BY <1>1, <1>l DEF CreateStart, FindOne
  <2>2. (IF a = Null THEN 0 ELSE subs[a].endDate) \in Nat
    BY <1>t DEF StoreTypeOK, SubDoc
  <2>3. [at |-> "createPayment", company |-> c, active |-> a,
         from |-> IF a = Null THEN 0 ELSE subs[a].endDate] \in Activity
    BY <2>2 DEF Activity, CheckoutRequest
  <2>4. req' \in [Slot -> Activity]
    BY <1>g, <2>1, <2>3
  <2> QED
    BY <1>1, <1>t, <2>4 DEF CreateStart, TypeOK, StoreTypeOK, dbVars
<1>2. CASE CreatePayment(p)
  <2>1. r.company \in Company /\ r.active \in Sub \cup {Null} /\ r.from \in Nat
    BY <1>2, <1>t, CheckoutLocals DEF CreatePayment, At
  <2>2. PICK i \in Intent, y \in Pay :
          /\ intents' = [intents EXCEPT ![i] = "open"]
          /\ pays' = [pays EXCEPT ![y] = [status |-> "pending", type |-> "plan",
                                          sub |-> Null, intent |-> i,
                                          gatewayResponse |-> Null]]
          /\ Goto(p, IF req[p].active = Null
                     THEN [at |-> "createSub", company |-> req[p].company,
                           active |-> Null, from |-> 0,
                           pay |-> y, intent |-> i, position |-> 0]
                     ELSE [at |-> "createQueue", company |-> req[p].company,
                           active |-> req[p].active, from |-> req[p].from,
                           pay |-> y, intent |-> i])
    BY <1>2, <1>l DEF CreatePayment
  <2>3. [at |-> "createSub", company |-> r.company, active |-> Null, from |-> 0,
         pay |-> y, intent |-> i, position |-> 0] \in Activity
    BY <2>1 DEF Activity, CheckoutRequest
  <2>4. r.active # Null =>
        [at |-> "createQueue", company |-> r.company, active |-> r.active,
         from |-> r.from, pay |-> y, intent |-> i] \in Activity
    BY <2>1 DEF Activity, CheckoutRequest
  <2>5. req' \in [Slot -> Activity]
    BY <1>g, <2>2, <2>3, <2>4
  <2>6. pays' \in [Pay -> PayDoc] /\ intents' \in [Intent -> {"none", "open", "succeeded"}]
    BY <2>2, <1>t DEF StoreTypeOK, PayDoc
  <2> QED
    BY <1>2, <1>t, <2>5, <2>6 DEF CreatePayment, TypeOK, StoreTypeOK
<1>3. CASE CreateQueue(p)
  <2>1. /\ r.company \in Company /\ r.active \in Sub /\ r.from \in Nat
        /\ r.pay \in Pay /\ r.intent \in Intent
    BY <1>3, <1>t, CheckoutLocals DEF CreateQueue, At
  <2>2. PICK q \in Seq(Sub) :
          Goto(p, [at |-> "createSub", company |-> req[p].company,
                   active |-> req[p].active,
                   from |-> IF q = <<>> THEN req[p].from
                            ELSE subs[q[Len(q)]].endDate,
                   pay |-> req[p].pay, intent |-> req[p].intent,
                   position |-> Len(q) + 1])
    BY <1>3, <1>l DEF CreateQueue
  <2>3. (IF q = <<>> THEN req[p].from ELSE subs[q[Len(q)]].endDate) \in Nat
    <3>1. CASE q = <<>>
      BY <3>1, <2>1
    <3>2. CASE q # <<>>
      <4>1. q[Len(q)] \in Sub
        BY <3>2
      <4> QED
        BY <3>2, <4>1, <1>t DEF StoreTypeOK, SubDoc
    <3> QED
      BY <3>1, <3>2
  <2>4. Len(q) + 1 \in Nat
    OBVIOUS
  <2>5. [at |-> "createSub", company |-> req[p].company,
         active |-> req[p].active,
         from |-> IF q = <<>> THEN req[p].from ELSE subs[q[Len(q)]].endDate,
         pay |-> req[p].pay, intent |-> req[p].intent,
         position |-> Len(q) + 1] \in Activity
    BY <2>1, <2>3, <2>4 DEF Activity, CheckoutRequest
  <2>6. req' \in [Slot -> Activity]
    BY <1>g, <2>2, <2>5
  <2> QED
    BY <1>3, <1>t, <2>6 DEF CreateQueue, TypeOK, StoreTypeOK, dbVars
<1>4. CASE CreateSub(p)
  <2>1. /\ r.company \in Company /\ r.active \in Sub \cup {Null} /\ r.from \in Nat
        /\ r.pay \in Pay /\ r.intent \in Intent /\ r.position \in Nat
    BY <1>4, <1>t, CheckoutLocals DEF CreateSub, At
  <2> DEFINE queued == req[p].active # Null
             start  == IF queued THEN req[p].from + 1 ELSE now
             doc(d) == [company |-> req[p].company,
                     status |-> IF queued THEN "queued" ELSE "pending",
                     isQueued |-> queued, queuePosition |-> req[p].position,
                     startDate |-> start, endDate |-> start + d,
                     scheduledStart |-> IF queued THEN start ELSE 0,
                     duration |-> d, previous |-> req[p].active,
                     cancelledAt |-> FALSE, paymentId |-> req[p].pay]
  <2>2. PICK s \in Sub, d \in Durations :
          /\ subs' = [subs EXCEPT ![s] = doc(d)]
          /\ Goto(p, [at |-> "createLink", sub |-> s,
                          pay |-> req[p].pay, intent |-> req[p].intent])
    BY <1>4, <1>l DEF CreateSub
  <2>3. start \in Nat /\ start + d \in Nat /\ d \in Nat
    <3>1. now \in Nat
      BY <1>t DEF StoreTypeOK
    <3>2. start \in Nat
      BY <2>1, <3>1
    <3>3. d \in Nat
      OBVIOUS
    <3> HIDE DEF start
    <3> QED
      BY <3>2, <3>3
  <2>4. doc(d) \in SubDoc
    <3> HIDE DEF start
    <3> QED
      BY <2>1, <2>3 DEF SubDoc, SubStatus
  <2>5. subs' \in [Sub -> SubDoc]
    <3> HIDE DEF doc
    <3> QED
      BY <2>2, <2>4, <1>t DEF StoreTypeOK
  <2>6. [at |-> "createLink", sub |-> s, pay |-> req[p].pay, intent |-> req[p].intent]
           \in Activity
    BY <2>1 DEF Activity, CheckoutRequest
  <2>7. req' \in [Slot -> Activity]
    BY <1>g, <2>2, <2>6
  <2> QED
    BY <1>4, <1>t, <2>5, <2>7 DEF CreateSub, TypeOK, StoreTypeOK
<1>5. CASE CreateLink(p)
  <2>1. r.sub \in Sub /\ r.pay \in Pay /\ r.intent \in Intent
    BY <1>5, <1>t, CheckoutLocals DEF CreateLink, At
  <2>2. pays' \in [Pay -> PayDoc]
    BY <1>5, <1>t, <2>1 DEF CreateLink, StoreTypeOK, PayDoc
  <2>3. issued' \subseteq Intent
    BY <1>5, <1>t, <2>1 DEF CreateLink, StoreTypeOK
  <2> QED
    BY <1>5, <1>t, <1>d, <2>2, <2>3 DEF CreateLink, TypeOK, StoreTypeOK
<1>6. CASE ConfirmStart(p)
  <2>1. PICK s \in Sub, i \in Succeeded :
          Goto(p, [at |-> "confirmFind", sub |-> s, intent |-> i,
                   queued |-> subs[s].isQueued])
    BY <1>6 DEF ConfirmStart
  <2>2. i \in Intent
    BY DEF Succeeded
  <2>3. [at |-> "confirmFind", sub |-> s, intent |-> i,
         queued |-> subs[s].isQueued] \in Activity
    BY <2>2, <1>t DEF StoreTypeOK, SubDoc, Activity, CheckoutRequest
  <2>4. req' \in [Slot -> Activity]
    BY <1>g, <2>1, <2>3
  <2> QED
    BY <1>6, <1>t, <2>4 DEF ConfirmStart, TypeOK, StoreTypeOK, dbVars
<1>7. CASE ConfirmFind(p)
  <2>1. r.sub \in Sub /\ r.intent \in Intent /\ r.queued \in BOOLEAN
    BY <1>7, <1>t, CheckoutLocals DEF ConfirmFind, At
  <2>2. PICK y \in Pay \cup {Null} :
          IF y = Null
          THEN Done(p)
          ELSE Goto(p, [at |-> "confirmInvoice", sub |-> req[p].sub,
                        intent |-> req[p].intent, queued |-> req[p].queued,
                        pay |-> y])
    BY <1>7, <1>l DEF ConfirmFind, FindOne
  <2>3. y # Null => [at |-> "confirmInvoice", sub |-> req[p].sub,
                     intent |-> req[p].intent, queued |-> req[p].queued,
                     pay |-> y] \in Activity
    BY <2>1 DEF Activity, CheckoutRequest
  <2>4. req' \in [Slot -> Activity]
    BY <1>g, <1>d, <2>2, <2>3
  <2> QED
    BY <1>7, <1>t, <2>4 DEF ConfirmFind, TypeOK, StoreTypeOK, dbVars
<1>8. CASE ConfirmInvoice(p)
  <2>1. /\ r \in [at: {"confirmInvoice", "confirmComplete", "confirmStatus"},
                  sub: Sub, intent: Intent, queued: BOOLEAN, pay: Pay]
        /\ r.sub \in Sub
    BY <1>8, <1>t, CheckoutLocals DEF ConfirmInvoice, At
  <2>2. [r EXCEPT !.at = "confirmComplete"] \in Activity
    BY <2>1 DEF Activity, CheckoutRequest
  <2>3. req' \in [Slot -> Activity]
    BY <1>8, <1>g, <1>d, <2>2 DEF ConfirmInvoice
  <2>4. invoices' \subseteq Sub
    BY <1>8, <1>t, <2>1 DEF ConfirmInvoice, StoreTypeOK
  <2> QED
    BY <1>8, <1>t, <2>3, <2>4 DEF ConfirmInvoice, TypeOK, StoreTypeOK
<1>9. CASE ConfirmComplete(p)
  <2>1. /\ r \in [at: {"confirmInvoice", "confirmComplete", "confirmStatus"},
                  sub: Sub, intent: Intent, queued: BOOLEAN, pay: Pay]
        /\ r.intent \in Intent /\ r.pay \in Pay
    BY <1>9, <1>t, CheckoutLocals DEF ConfirmComplete, At
  <2>2. [r EXCEPT !.at = "confirmStatus"] \in Activity
    BY <2>1 DEF Activity, CheckoutRequest
  <2>3. req' \in [Slot -> Activity]
    BY <1>9, <1>g, <2>2 DEF ConfirmComplete
  <2>4. pays' \in [Pay -> PayDoc]
    BY <1>9, <1>t, <2>1, SMTT(30) DEF ConfirmComplete, StoreTypeOK, PayDoc
  <2> QED
    BY <1>9, <1>t, <2>3, <2>4 DEF ConfirmComplete, TypeOK, StoreTypeOK
<1>10. CASE ConfirmStatus(p)
  <2>1. r.sub \in Sub /\ r.queued \in BOOLEAN
    BY <1>10, <1>t, CheckoutLocals DEF ConfirmStatus, At
  <2>2. subs' \in [Sub -> SubDoc]
    BY <1>10, <1>t, <2>1 DEF ConfirmStatus, StoreTypeOK, SubDoc, SubStatus
  <2> QED
    BY <1>10, <1>t, <1>d, <2>2 DEF ConfirmStatus, TypeOK, StoreTypeOK
<1>11. CASE RetryStart(p)
  <2>1. PICK s \in Sub : Goto(p, [at |-> "retryFind", sub |-> s])
    BY <1>11 DEF RetryStart
  <2>2. [at |-> "retryFind", sub |-> s] \in Activity
    BY DEF Activity, CheckoutRequest
  <2>3. req' \in [Slot -> Activity]
    BY <1>g, <2>1, <2>2
  <2> QED
    BY <1>11, <1>t, <2>3 DEF RetryStart, TypeOK, StoreTypeOK, dbVars
<1>12. CASE RetryFind(p)
  <2>1. r.sub \in Sub
    BY <1>12, <1>t, CheckoutLocals DEF RetryFind, At
  <2>2. PICK y \in Pay \cup {Null} :
          IF y = Null
          THEN Done(p)
          ELSE Goto(p, [at |-> "retryIssue", sub |-> req[p].sub, pay |-> y])
    BY <1>12, <1>l DEF RetryFind, FindOne
  <2>3. y # Null => [at |-> "retryIssue", sub |-> req[p].sub, pay |-> y] \in Activity
    BY <2>1 DEF Activity, CheckoutRequest
  <2>4. req' \in [Slot -> Activity]
    BY <1>g, <1>d, <2>2, <2>3
  <2> QED
    BY <1>12, <1>t, <2>4 DEF RetryFind, TypeOK, StoreTypeOK, dbVars
<1>13. CASE RetryIssue(p)
  <2>1. r.sub \in Sub /\ r.pay \in Pay
    BY <1>13, <1>t, CheckoutLocals DEF RetryIssue, At
  <2>2. PICK i \in Intent :
          /\ intents' = [intents EXCEPT ![i] = "open"]
          /\ pays' = [pays EXCEPT ![req[p].pay].status = "pending",
                                  ![req[p].pay].intent = i]
          /\ issued' = issued \cup {i}
    BY <1>13, <1>l DEF RetryIssue
  <2>3. /\ pays' \in [Pay -> PayDoc]
        /\ intents' \in [Intent -> {"none", "open", "succeeded"}]
    BY <1>t, <2>1, <2>2 DEF StoreTypeOK, PayDoc
  <2>4. issued' \subseteq Intent
    BY <1>t, <2>1, <2>2 DEF StoreTypeOK
  <2> QED
    BY <1>13, <1>t, <1>d, <2>3, <2>4 DEF RetryIssue, TypeOK, StoreTypeOK
<1> QED
  BY <1>1, <1>2, <1>3, <1>4, <1>5, <1>6, <1>7, <1>8, <1>9, <1>10, <1>11, <1>12,
     <1>13 DEF CheckoutStep

-----------------------------------------------------------------------------
(***************************************************************************)
(* Queue management.                                                       *)
(***************************************************************************)

\* A list that is not empty has a first element and a rest.
LEMMA HeadAndTail ==
    ASSUME NEW S, NEW q \in NonEmpty(S)
    PROVE  /\ Head(q) \in S
           /\ Tail(q) \in Seq(S)
           /\ Len(q) # 1 => Tail(q) \in NonEmpty(S)
<1>1. q \in Seq(S) /\ q # <<>>
  BY DEF NonEmpty
<1>2. Head(q) \in S /\ Tail(q) \in Seq(S) /\ Len(Tail(q)) = Len(q) - 1
  BY <1>1, HeadTailProperties
<1>3. Tail(q) = <<>> => Len(q) = 1
  <2>1. Len(q) \in Nat
    BY <1>1
  <2>2. Len(<<>>) = 0
    OBVIOUS
  <2>3. Tail(q) = <<>> => Len(q) - 1 = 0
    BY <1>2, <2>2
  <2> QED
    BY <2>1, <2>3
<1> QED
  BY <1>2, <1>3 DEF NonEmpty

\* The locals a slot holds at each await of the queue handlers.
LEMMA QueueLocals ==
    ASSUME NEW r \in Activity
    PROVE  /\ r.at = "expireNext" => r.expired \in NonEmpty(Sub)
           /\ r.at = "promoteFind" =>
                  r.expired \in Seq(Sub) /\ r.company \in Company \cup {Null}
           /\ r.at = "promote" => r.expired \in Seq(Sub) /\ r.queue \in NonEmpty(Sub)
           /\ r.at = "renumber" =>
                  /\ r \in [at: {"renumber"}, expired: Seq(Sub),
                            queue: NonEmpty(Sub), position: Nat]
                  /\ r.expired \in Seq(Sub) /\ r.queue \in NonEmpty(Sub)
                  /\ r.position \in Nat
           /\ r.at \in {"readyCheck", "readyActivate"} =>
                  /\ r \in [at: {"readyCheck", "readyActivate"}, ready: NonEmpty(Sub)]
                  /\ r.ready \in NonEmpty(Sub)
           /\ r.at = "cancelWrite" => r.company \in Company /\ r.sub \in Sub
           /\ r.at = "cancelQueue" => r.company \in Company
           /\ r.at = "cancelPromote" => r.queue \in NonEmpty(Snapshot)
           /\ r.at = "cancelReread" =>
                  r.queue \in NonEmpty(Snapshot) /\ r.previous \in Sub
           /\ r.at = "cancelReorder" =>
                  /\ r.queue \in NonEmpty(Snapshot) /\ r.previous \in Sub
                  /\ r.from \in Nat /\ r.position \in Nat
  BY DEF Activity, Idle, CheckoutRequest, QueueRequest, AddonRequest

\* Where the loops over expired and over due subscriptions go next.
LEMMA LoopTypes ==
    ASSUME NEW list \in Seq(Sub)
    PROVE  ExpireOrReady(list) \in Activity /\ CheckOrEnd(list) \in Activity
<1>1. list # <<>> => list \in NonEmpty(Sub)
  BY DEF NonEmpty
<1>2. ExpireOrReady(list) \in Activity
  BY <1>1 DEF ExpireOrReady, Activity, QueueRequest
<1>3. CheckOrEnd(list) \in Activity
  BY <1>1 DEF CheckOrEnd, Activity, QueueRequest
<1> QED
  BY <1>2, <1>3

\* A document stays a document when a field is given a value of its type.
LEMMA FieldUpdates ==
    ASSUME NEW d \in SubDoc
    PROVE  /\ \A x \in SubStatus : [d EXCEPT !.status = x] \in SubDoc
           /\ \A x \in BOOLEAN : [d EXCEPT !.isQueued = x] \in SubDoc
           /\ \A x \in BOOLEAN : [d EXCEPT !.cancelledAt = x] \in SubDoc
           /\ \A x \in Nat : [d EXCEPT !.queuePosition = x] \in SubDoc
           /\ \A x \in Nat : [d EXCEPT !.startDate = x] \in SubDoc
           /\ \A x \in Nat : [d EXCEPT !.endDate = x] \in SubDoc
           /\ \A x \in Nat : [d EXCEPT !.scheduledStart = x] \in SubDoc
           /\ \A x \in Sub : [d EXCEPT !.previous = x] \in SubDoc
<1>1. \A x \in SubStatus : [d EXCEPT !.status = x] \in SubDoc
  BY DEF SubDoc
<1>2. \A x \in BOOLEAN : [d EXCEPT !.isQueued = x] \in SubDoc
  BY DEF SubDoc
<1>3. \A x \in BOOLEAN : [d EXCEPT !.cancelledAt = x] \in SubDoc
  BY DEF SubDoc
<1>4. \A x \in Nat : [d EXCEPT !.queuePosition = x] \in SubDoc
  BY DEF SubDoc
<1>5. \A x \in Nat : [d EXCEPT !.startDate = x] \in SubDoc
  BY DEF SubDoc
<1>6. \A x \in Nat : [d EXCEPT !.endDate = x] \in SubDoc
  BY DEF SubDoc
<1>7. \A x \in Nat : [d EXCEPT !.scheduledStart = x] \in SubDoc
  BY DEF SubDoc
<1>8. \A x \in Sub : [d EXCEPT !.previous = x] \in SubDoc
  BY DEF SubDoc
<1> QED
  BY <1>1, <1>2, <1>3, <1>4, <1>5, <1>6, <1>7, <1>8

\* Activating a subscription leaves the collection well typed.
LEMMA ActivateType ==
    ASSUME subs \in [Sub -> SubDoc], NEW s \in Sub
    PROVE  Activate(s) \in [Sub -> SubDoc]
<1>1. subs[s] \in SubDoc
  OBVIOUS
<1>2. [[subs[s] EXCEPT !.status = "active"] EXCEPT !.isQueued = FALSE] \in SubDoc
  BY <1>1, FieldUpdates DEF SubStatus
<1>3. Activate(s) = [subs EXCEPT ![s] =
                        [[subs[s] EXCEPT !.status = "active"] EXCEPT !.isQueued = FALSE]]
  BY DEF Activate
<1> QED
  BY <1>2, <1>3

LEMMA ProcessTypes ==
    ASSUME TypeOK, NEW p \in Slot, ProcessStep(p)
    PROVE  TypeOK'
<1> DEFINE r == req[p]
<1> USE StoreAssumption
<1>t. /\ StoreTypeOK
      /\ req \in [Slot -> Activity]
      /\ r \in Activity
  BY DEF TypeOK
<1>l. /\ FreshSub \subseteq Sub /\ FreshPay \subseteq Pay /\ FreshIntent \subseteq Intent
      /\ \A c : ActiveByCompany(c) \subseteq Sub
      /\ \A c : QueuedByCompany(c) \subseteq Seq(Sub)
      /\ ReadyToActivate \subseteq Seq(Sub)
      /\ Expired \subseteq Seq(Sub)
  BY QueryTypes
<1>g. ASSUME NEW x \in Activity, Goto(p, x)
      PROVE  req' \in [Slot -> Activity]
  BY <1>t, <1>g DEF Goto
<1>i. Idle \in Activity
  BY DEF Activity
<1>d. Done(p) => req' \in [Slot -> Activity]
  BY <1>g, <1>i DEF Done
<1>1. CASE ProcessStart(p)
  <2>1. PICK list \in Seq(Sub) : Goto(p, ExpireOrReady(list))
    BY <1>1, <1>l DEF ProcessStart
  <2>2. req' \in [Slot -> Activity]
    BY <2>1, <1>g, LoopTypes
  <2> QED
    BY <1>1, <1>t, <2>2 DEF ProcessStart, TypeOK, StoreTypeOK, dbVars
<1>2. CASE ExpireNext(p)
  <2> DEFINE s == Head(r.expired)
  <2>1. s \in Sub /\ Tail(r.expired) \in Seq(Sub)
    BY <1>2, <1>t, QueueLocals, HeadAndTail DEF ExpireNext, At
  <2>2. /\ subs' = [subs EXCEPT ![s].status = "expired"]
        /\ Goto(p, [at |-> "promoteFind", expired |-> Tail(r.expired),
                    company |-> subs[s].company])
    BY <1>2 DEF ExpireNext
  <2> HIDE DEF s
  <2>3. subs[s].company \in Company \cup {Null}
    BY <1>t, <2>1 DEF StoreTypeOK, SubDoc
  <2>4. subs' \in [Sub -> SubDoc]
    <3>1. subs[s] \in SubDoc
      BY <1>t, <2>1 DEF StoreTypeOK
    <3>2. [subs[s] EXCEPT !.status = "expired"] \in SubDoc
      BY <3>1, FieldUpdates DEF SubStatus
    <3> QED
      BY <1>t, <2>2, <3>2 DEF StoreTypeOK
  <2>5. [at |-> "promoteFind", expired |-> Tail(r.expired),
         company |-> subs[s].company] \in Activity
    BY <2>1, <2>3 DEF Activity, QueueRequest
  <2>6. req' \in [Slot -> Activity]
    BY <2>2, <2>5, <1>g
  <2> QED
    BY <1>2, <1>t, <2>4, <2>6 DEF ExpireNext, TypeOK, StoreTypeOK
<1>3. CASE PromoteFind(p)
  <2>1. r.expired \in Seq(Sub)
    BY <1>3, <1>t, QueueLocals DEF PromoteFind, At
  <2>2. PICK q \in Seq(Sub) :
          Goto(p, IF q = <<>>
                  THEN ExpireOrReady(req[p].expired)
                  ELSE [at |-> "promote", expired |-> req[p].expired, queue |-> q])
    BY <1>3, <1>l DEF PromoteFind
  <2>3. q # <<>> => [at |-> "promote", expired |-> r.expired, queue |-> q] \in Activity
    <3>1. q # <<>> => q \in NonEmpty(Sub)
      BY DEF NonEmpty
    <3> QED
      BY <2>1, <3>1 DEF Activity, QueueRequest
  <2>4. req' \in [Slot -> Activity]
    BY <2>1, <2>2, <2>3, <1>g, LoopTypes
  <2> QED
    BY <1>3, <1>t, <2>4 DEF PromoteFind, TypeOK, StoreTypeOK, dbVars
<1>4. CASE Promote(p)
  <2>1. r.expired \in Seq(Sub) /\ r.queue \in NonEmpty(Sub)
    BY <1>4, <1>t, QueueLocals DEF Promote, At
  <2>2. Head(r.queue) \in Sub /\ (Len(r.queue) # 1 => Tail(r.queue) \in NonEmpty(Sub))
    BY <2>1, HeadAndTail
  <2>3. subs' \in [Sub -> SubDoc]
    BY <1>4, <1>t, <2>2, ActivateType DEF Promote, StoreTypeOK
  <2>4. Len(r.queue) # 1 =>
          [at |-> "renumber", expired |-> r.expired,
           queue |-> Tail(r.queue), position |-> 1] \in Activity
    BY <2>1, <2>2 DEF Activity, QueueRequest
  <2>5. req' \in [Slot -> Activity]
    BY <1>4, <2>1, <2>4, <1>g, LoopTypes DEF Promote
  <2> QED
    BY <1>4, <1>t, <2>3, <2>5 DEF Promote, TypeOK, StoreTypeOK
<1>5. CASE Renumber(p)
  <2>1. /\ r \in [at: {"renumber"}, expired: Seq(Sub),
                  queue: NonEmpty(Sub), position: Nat]
        /\ r.expired \in Seq(Sub) /\ r.queue \in NonEmpty(Sub) /\ r.position \in Nat
    BY <1>5, <1>t, QueueLocals DEF Renumber, At
  <2>2. Head(r.queue) \in Sub /\ (Len(r.queue) # 1 => Tail(r.queue) \in NonEmpty(Sub))
    BY <2>1, HeadAndTail
  <2>3. subs' \in [Sub -> SubDoc]
    <3> DEFINE s == Head(r.queue)
    <3>1. subs' = [subs EXCEPT ![s].queuePosition = r.position]
      BY <1>5 DEF Renumber
    <3>2. s \in Sub
      BY <2>2
    <3> HIDE DEF s
    <3>3. subs[s] \in SubDoc
      BY <1>t, <3>2 DEF StoreTypeOK
    <3>4. [subs[s] EXCEPT !.queuePosition = r.position] \in SubDoc
      BY <2>1, <3>3, FieldUpdates
    <3> QED
      BY <1>t, <3>1, <3>4 DEF StoreTypeOK
  <2>4. Len(r.queue) # 1 =>
          [r EXCEPT !.queue = Tail(@), !.position = @ + 1] \in Activity
    <3> DEFINE rest == Tail(r.queue)  next == r.position + 1
    <3>1. next \in Nat
      BY <2>1
    <3>2. Len(r.queue) # 1 => rest \in NonEmpty(Sub)
      BY <2>2
    <3>3. [r EXCEPT !.queue = Tail(@), !.position = @ + 1]
            = [r EXCEPT !.queue = rest, !.position = next]
      OBVIOUS
    <3> HIDE DEF rest, next
    <3>4. Len(r.queue) # 1 =>
            [r EXCEPT !.queue = rest, !.position = next]
              \in [at: {"renumber"}, expired: Seq(Sub),
                   queue: NonEmpty(Sub), position: Nat]
      BY <2>1, <3>1, <3>2
    <3> QED
      BY <3>3, <3>4 DEF Activity, QueueRequest
  <2>5. req' \in [Slot -> Activity]
    BY <1>5, <2>1, <2>4, <1>g, LoopTypes DEF Renumber
  <2> QED
    BY <1>5, <1>t, <2>3, <2>5 DEF Renumber, TypeOK, StoreTypeOK
<1>6. CASE ReadyFind(p)
  <2>1. PICK list \in Seq(Sub) : Goto(p, CheckOrEnd(list))
    BY <1>6, <1>l DEF ReadyFind
  <2>2. req' \in [Slot -> Activity]
    BY <2>1, <1>g, LoopTypes
  <2> QED
    BY <1>6, <1>t, <2>2 DEF ReadyFind, TypeOK, StoreTypeOK, dbVars
<1>7. CASE ReadyCheck(p)
  <2>1. /\ r \in [at: {"readyCheck", "readyActivate"}, ready: NonEmpty(Sub)]
        /\ r.ready \in NonEmpty(Sub)
    BY <1>7, <1>t, QueueLocals DEF ReadyCheck, At
  <2>2. Tail(r.ready) \in Seq(Sub)
    BY <2>1, HeadAndTail
  <2>3. [r EXCEPT !.at = "readyActivate"] \in Activity
    BY <2>1 DEF Activity, QueueRequest
  <2>4. req' \in [Slot -> Activity]
    BY <1>7, <2>2, <2>3, <1>g, LoopTypes DEF ReadyCheck
  <2> QED
    BY <1>7, <1>t, <2>4 DEF ReadyCheck, TypeOK, StoreTypeOK, dbVars
<1>8. CASE ReadyActivate(p)
  <2>1. r.ready \in NonEmpty(Sub)
    BY <1>8, <1>t, QueueLocals DEF ReadyActivate, At
  <2>2. Head(r.ready) \in Sub /\ Tail(r.ready) \in Seq(Sub)
    BY <2>1, HeadAndTail
  <2>3. subs' \in [Sub -> SubDoc]
    BY <1>8, <1>t, <2>2, ActivateType DEF ReadyActivate, StoreTypeOK
  <2>4. req' \in [Slot -> Activity]
    BY <1>8, <2>2, <1>g, LoopTypes DEF ReadyActivate
  <2> QED
    BY <1>8, <1>t, <2>3, <2>4 DEF ReadyActivate, TypeOK, StoreTypeOK
<1> QED
  BY <1>1, <1>2, <1>3, <1>4, <1>5, <1>6, <1>7, <1>8 DEF ProcessStep

LEMMA CancelTypes ==
    ASSUME TypeOK, NEW p \in Slot, CancelStep(p)
    PROVE  TypeOK'
<1> DEFINE r == req[p]
<1> USE StoreAssumption
<1>t. /\ StoreTypeOK
      /\ req \in [Slot -> Activity]
      /\ r \in Activity
  BY DEF TypeOK
<1>l. /\ FreshSub \subseteq Sub /\ FreshPay \subseteq Pay /\ FreshIntent \subseteq Intent
      /\ \A c : ActiveByCompany(c) \subseteq Sub
      /\ \A c : QueuedByCompany(c) \subseteq Seq(Sub)
      /\ ReadyToActivate \subseteq Seq(Sub)
      /\ Expired \subseteq Seq(Sub)
  BY QueryTypes
<1>g. ASSUME NEW x \in Activity, Goto(p, x)
      PROVE  req' \in [Slot -> Activity]
  BY <1>t, <1>g DEF Goto
<1>i. Idle \in Activity
  BY DEF Activity
<1>d. Done(p) => req' \in [Slot -> Activity]
  BY <1>g, <1>i DEF Done
<1>1. CASE CancelStart(p)
  <2>1. PICK c \in Company, s \in Sub :
          Goto(p, [at |-> "cancelWrite", company |-> c, sub |-> s])
    BY <1>1, <1>l DEF CancelStart
  <2>2. [at |-> "cancelWrite", company |-> c, sub |-> s] \in Activity
    BY DEF Activity, QueueRequest
  <2>3. req' \in [Slot -> Activity]
    BY <2>1, <2>2, <1>g
  <2> QED
    BY <1>1, <1>t, <2>3 DEF CancelStart, TypeOK, StoreTypeOK, dbVars
<1>2. CASE CancelWrite(p)
  <2>1. r.company \in Company /\ r.sub \in Sub
    BY <1>2, <1>t, QueueLocals DEF CancelWrite, At
  <2>2. subs' \in [Sub -> SubDoc]
    BY <1>2, <1>t, <2>1 DEF CancelWrite, StoreTypeOK, SubDoc, SubStatus
  <2>3. [at |-> "cancelQueue", company |-> r.company] \in Activity
    BY <2>1 DEF Activity, QueueRequest
  <2>4. req' \in [Slot -> Activity]
    BY <1>2, <2>3, <1>g DEF CancelWrite
  <2> QED
    BY <1>2, <1>t, <2>2, <2>4 DEF CancelWrite, TypeOK, StoreTypeOK
<1>3. CASE CancelQueue(p)
  <2> DEFINE snap(q) == [k \in 1..Len(q) |-> [id |-> q[k], endDate |-> subs[q[k]].endDate]]
  <2>1. PICK q \in Seq(Sub) :
          Goto(p, IF q = <<>> THEN Idle
                  ELSE [at |-> "cancelPromote", queue |-> snap(q)])
    BY <1>3, <1>l DEF CancelQueue
  <2>2. \A k \in 1..Len(q) : [id |-> q[k], endDate |-> subs[q[k]].endDate] \in Snapshot
    BY <1>t DEF StoreTypeOK, SubDoc, Snapshot
  <2>3. Len(q) \in Nat /\ (q # <<>> => Len(q) # 0)
    OBVIOUS
  <2>4. snap(q) \in [1..Len(q) -> Snapshot]
    BY <2>2
  <2>5. snap(q) \in Seq(Snapshot)
    <3> HIDE DEF snap
    <3> QED
      BY <2>3, <2>4, IsASeq
  <2>6. q # <<>> => snap(q) # <<>>
    <3>1. DOMAIN snap(q) = 1..Len(q)
      OBVIOUS
    <3>2. q # <<>> => 1 \in DOMAIN snap(q)
      BY <2>3, <3>1
    <3> HIDE DEF snap
    <3> QED
      BY <3>2
  <2> HIDE DEF snap
  <2>7. q # <<>> => [at |-> "cancelPromote", queue |-> snap(q)] \in Activity
    <3>1. q # <<>> => snap(q) \in NonEmpty(Snapshot)
      BY <2>5, <2>6 DEF NonEmpty
    <3> QED
      BY <3>1 DEF Activity, QueueRequest
  <2>8. req' \in [Slot -> Activity]
    BY <2>1, <2>7, <1>g, <1>i
  <2> QED
    BY <1>3, <1>t, <2>8 DEF CancelQueue, TypeOK, StoreTypeOK, dbVars
<1>4. CASE CancelPromote(p)
  <2> DEFINE s == Head(r.queue).id
  <2>1. /\ Head(r.queue) \in Snapshot
        /\ Len(r.queue) # 1 => Tail(r.queue) \in NonEmpty(Snapshot)
    BY <1>4, <1>t, QueueLocals, HeadAndTail DEF CancelPromote, At
  <2>2. s \in Sub
    BY <2>1 DEF Snapshot
  <2>3. /\ subs' = [subs EXCEPT ![s] = [@ EXCEPT
                          !.status = "active", !.isQueued = FALSE,
                          !.queuePosition = 0, !.startDate = now,
                          !.endDate = now + subs[s].duration,
                          !.scheduledStart = now]]
        /\ Goto(p, IF Len(req[p].queue) = 1
                   THEN Idle
                   ELSE [at |-> "cancelReread", queue |-> Tail(req[p].queue),
                         previous |-> s])
    BY <1>4 DEF CancelPromote
  <2> HIDE DEF s
  <2>4. subs[s].duration \in Nat /\ now \in Nat
    BY <1>t, <2>2 DEF StoreTypeOK, SubDoc
  <2>5. now + subs[s].duration \in Nat
    BY <2>4
  <2>6. subs' \in [Sub -> SubDoc]
    <3> DEFINE d1 == [subs[s] EXCEPT !.status = "active"]
               d2 == [d1 EXCEPT !.isQueued = FALSE]
               d3 == [d2 EXCEPT !.queuePosition = 0]
               d4 == [d3 EXCEPT !.startDate = now]
               d5 == [d4 EXCEPT !.endDate = now + subs[s].duration]
               d6 == [d5 EXCEPT !.scheduledStart = now]
    <3>1. subs' = [subs EXCEPT ![s] = d6]
      BY <2>3, Zenon
    <3>2. subs[s] \in SubDoc
      BY <1>t, <2>2 DEF StoreTypeOK
    <3>3. d1 \in SubDoc
      BY <3>2, FieldUpdates DEF SubStatus
    <3> HIDE DEF d1
    <3>4. d2 \in SubDoc
      BY <3>3, FieldUpdates
    <3> HIDE DEF d2
    <3>5. d3 \in SubDoc
      BY <3>4, FieldUpdates
    <3> HIDE DEF d3
    <3>6. d4 \in SubDoc
      BY <2>4, <3>5, FieldUpdates
    <3> HIDE DEF d4
    <3>7. d5 \in SubDoc
      BY <2>5, <3>6, FieldUpdates
    <3> HIDE DEF d5
    <3>8. d6 \in SubDoc
      BY <2>4, <3>7, FieldUpdates
    <3> HIDE DEF d6
    <3> QED
      BY <1>t, <3>1, <3>8 DEF StoreTypeOK
  <2>7. Len(r.queue) # 1 =>
          [at |-> "cancelReread", queue |-> Tail(r.queue), previous |-> s] \in Activity
    BY <2>1, <2>2 DEF Activity, QueueRequest
  <2>8. req' \in [Slot -> Activity]
    BY <2>3, <2>7, <1>g, <1>i
  <2> QED
    BY <1>4, <1>t, <2>6, <2>8 DEF CancelPromote, TypeOK, StoreTypeOK
<1>5. CASE CancelReread(p)
  <2>1. r.queue \in NonEmpty(Snapshot) /\ r.previous \in Sub
    BY <1>5, <1>t, QueueLocals DEF CancelReread, At
  <2>2. subs[r.previous].endDate \in Nat
    BY <1>t, <2>1 DEF StoreTypeOK, SubDoc
  <2>3. [at |-> "cancelReorder", queue |-> r.queue, previous |-> r.previous,
         from |-> subs[r.previous].endDate, position |-> 1] \in Activity
    BY <2>1, <2>2 DEF Activity, QueueRequest
  <2>4. req' \in [Slot -> Activity]
    BY <1>5, <2>3, <1>g DEF CancelReread
  <2> QED
    BY <1>5, <1>t, <2>4 DEF CancelReread, TypeOK, StoreTypeOK, dbVars
<1>6. CASE CancelReorder(p)
  <2> DEFINE e == Head(r.queue)
  <2>1. /\ r.queue \in NonEmpty(Snapshot) /\ r.previous \in Sub
        /\ r.from \in Nat /\ r.position \in Nat
    BY <1>6, <1>t, QueueLocals DEF CancelReorder, At
  <2>2. e \in Snapshot /\ (Len(r.queue) # 1 => Tail(r.queue) \in NonEmpty(Snapshot))
    BY <2>1, HeadAndTail
  <2>3. /\ subs' = [subs EXCEPT ![e.id] = [@ EXCEPT
                          !.queuePosition = req[p].position,
                          !.scheduledStart = req[p].from + 1,
                          !.previous = req[p].previous]]
        /\ Goto(p, IF Len(req[p].queue) = 1
                   THEN Idle
                   ELSE [at |-> "cancelReorder", queue |-> Tail(req[p].queue),
                         previous |-> e.id, from |-> e.endDate,
                         position |-> req[p].position + 1])
    BY <1>6 DEF CancelReorder
  <2> HIDE DEF e
  <2>4. e.id \in Sub /\ e.endDate \in Nat /\ r.from + 1 \in Nat /\ r.position + 1 \in Nat
    BY <2>1, <2>2 DEF Snapshot
  <2>5. subs' \in [Sub -> SubDoc]
    <3> DEFINE d1 == [subs[e.id] EXCEPT !.queuePosition = r.position]
               d2 == [d1 EXCEPT !.scheduledStart = r.from + 1]
               d3 == [d2 EXCEPT !.previous = r.previous]
    <3>1. subs' = [subs EXCEPT ![e.id] = d3]
      BY <2>3, Zenon
    <3>2. subs[e.id] \in SubDoc
      BY <1>t, <2>4 DEF StoreTypeOK
    <3>3. d1 \in SubDoc
      BY <2>1, <3>2, FieldUpdates
    <3> HIDE DEF d1
    <3>4. d2 \in SubDoc
      BY <2>4, <3>3, FieldUpdates
    <3> HIDE DEF d2
    <3>5. d3 \in SubDoc
      BY <2>1, <3>4, FieldUpdates
    <3> HIDE DEF d3
    <3> QED
      BY <1>t, <3>1, <3>5 DEF StoreTypeOK
  <2>6. Len(r.queue) # 1 =>
          [at |-> "cancelReorder", queue |-> Tail(r.queue), previous |-> e.id,
           from |-> e.endDate, position |-> r.position + 1] \in Activity
    BY <2>2, <2>4 DEF Activity, QueueRequest
  <2>7. req' \in [Slot -> Activity]
    BY <2>3, <2>6, <1>g, <1>i
  <2> QED
    BY <1>6, <1>t, <2>5, <2>7 DEF CancelReorder, TypeOK, StoreTypeOK
<1> QED
  BY <1>1, <1>2, <1>3, <1>4, <1>5, <1>6 DEF CancelStep

-----------------------------------------------------------------------------
(***************************************************************************)
(* Add-ons.                                                                *)
(***************************************************************************)

\* The locals a slot holds at each await of the add-on handlers.
LEMMA AddonLocals ==
    ASSUME NEW r \in Activity
    PROVE  /\ r.at = "addonPayment" => r.sub \in Sub
           /\ r.at \in {"addonCredit", "addonComplete"} =>
                  /\ r \in [at: {"addonCredit", "addonComplete"}, pay: Pay, intent: Intent]
                  /\ r.pay \in Pay /\ r.intent \in Intent
  BY DEF Activity, Idle, CheckoutRequest, QueueRequest, AddonRequest

LEMMA AddonTypes ==
    ASSUME TypeOK, NEW p \in Slot, AddonStep(p)
    PROVE  TypeOK'
<1> DEFINE r == req[p]
<1> USE StoreAssumption
<1>t. /\ StoreTypeOK
      /\ req \in [Slot -> Activity]
      /\ r \in Activity
  BY DEF TypeOK
<1>l. /\ FreshSub \subseteq Sub /\ FreshPay \subseteq Pay /\ FreshIntent \subseteq Intent
      /\ \A c : ActiveByCompany(c) \subseteq Sub
      /\ \A c : QueuedByCompany(c) \subseteq Seq(Sub)
      /\ ReadyToActivate \subseteq Seq(Sub)
      /\ Expired \subseteq Seq(Sub)
  BY QueryTypes
<1>g. ASSUME NEW x \in Activity, Goto(p, x)
      PROVE  req' \in [Slot -> Activity]
  BY <1>t, <1>g DEF Goto
<1>i. Idle \in Activity
  BY DEF Activity
<1>d. Done(p) => req' \in [Slot -> Activity]
  BY <1>g, <1>i DEF Done
<1>1. CASE AddonStart(p)
  <2>1. PICK s \in Sub : Goto(p, [at |-> "addonPayment", sub |-> s])
    BY <1>1, <1>l DEF AddonStart
  <2>2. [at |-> "addonPayment", sub |-> s] \in Activity
    BY DEF Activity, AddonRequest
  <2>3. req' \in [Slot -> Activity]
    BY <2>1, <2>2, <1>g
  <2> QED
    BY <1>1, <1>t, <2>3 DEF AddonStart, TypeOK, StoreTypeOK, dbVars
<1>2. CASE AddonPayment(p)
  <2>1. r.sub \in Sub
    BY <1>2, <1>t, AddonLocals DEF AddonPayment, At
  <2>2. PICK i \in Intent, y \in Pay :
          /\ intents' = [intents EXCEPT ![i] = "open"]
          /\ pays' = [pays EXCEPT ![y] = [status |-> "pending", type |-> "addon",
                                          sub |-> req[p].sub, intent |-> i,
                                          gatewayResponse |-> Null]]
          /\ issued' = issued \cup {i}
    BY <1>2, <1>l DEF AddonPayment
  <2>3. /\ pays' \in [Pay -> PayDoc]
        /\ intents' \in [Intent -> {"none", "open", "succeeded"}]
    BY <1>t, <2>1, <2>2 DEF StoreTypeOK, PayDoc
  <2>4. issued' \subseteq Intent
    BY <1>t, <2>2 DEF StoreTypeOK
  <2> QED
    BY <1>2, <1>t, <1>d, <2>3, <2>4 DEF AddonPayment, TypeOK, StoreTypeOK
<1>3. CASE AddonConfirm(p)
  <2>1. PICK y \in Pay, i \in Succeeded :
          Goto(p, [at |-> "addonCredit", pay |-> y, intent |-> i])
    BY <1>3 DEF AddonConfirm
  <2>2. i \in Intent
    BY DEF Succeeded
  <2>3. [at |-> "addonCredit", pay |-> y, intent |-> i] \in Activity
    BY <2>2 DEF Activity, AddonRequest
  <2>4. req' \in [Slot -> Activity]
    BY <2>1, <2>3, <1>g
  <2> QED
    BY <1>3, <1>t, <2>4 DEF AddonConfirm, TypeOK, StoreTypeOK, dbVars
<1>4. CASE AddonCredit(p)
  <2>1. /\ r \in [at: {"addonCredit", "addonComplete"}, pay: Pay, intent: Intent]
        /\ r.pay \in Pay
    BY <1>4, <1>t, AddonLocals DEF AddonCredit, At
  <2>2. [r EXCEPT !.at = "addonComplete"] \in Activity
    BY <2>1 DEF Activity, AddonRequest
  <2>3. req' \in [Slot -> Activity]
    BY <1>4, <2>2, <1>g DEF AddonCredit
  <2>4. credits' \in [Pay -> Nat]
    BY <1>4, <1>t, <2>1 DEF AddonCredit, StoreTypeOK
  <2> QED
    BY <1>4, <1>t, <2>3, <2>4 DEF AddonCredit, TypeOK, StoreTypeOK
<1>5. CASE AddonComplete(p)
  <2>1. r.pay \in Pay /\ r.intent \in Intent
    BY <1>5, <1>t, AddonLocals DEF AddonComplete, At
  <2>2. pays' \in [Pay -> PayDoc]
    BY <1>5, <1>t, <2>1 DEF AddonComplete, StoreTypeOK, PayDoc
  <2> QED
    BY <1>5, <1>t, <1>d, <2>2 DEF AddonComplete, TypeOK, StoreTypeOK
<1> QED
  BY <1>1, <1>2, <1>3, <1>4, <1>5 DEF AddonStep

-----------------------------------------------------------------------------
LEMMA InitTypes == Init => TypeOK
<1> SUFFICES ASSUME Init PROVE TypeOK
  OBVIOUS
<1>1. NoSubDoc \in SubDoc /\ NoPayDoc \in PayDoc /\ Idle \in Activity
  BY DEF NoSubDoc, SubDoc, SubStatus, NoPayDoc, PayDoc, Activity
<1>2. StoreTypeOK
  BY <1>1 DEF Init, StoreInit, StoreTypeOK
<1> QED
  BY <1>1, <1>2 DEF Init, StoreInit, TypeOK

LEMMA StepTypes == TypeOK /\ [Next]_vars => TypeOK'
<1> SUFFICES ASSUME TypeOK, [Next]_vars PROVE TypeOK'
  OBVIOUS
<1>1. CASE Tick
  BY <1>1 DEF Tick, TypeOK, StoreTypeOK, dbVars
<1>2. CASE Charge
  <2>1. PICK i \in issued : intents' = [intents EXCEPT ![i] = "succeeded"]
    BY <1>2 DEF Charge
  <2>2. i \in Intent
    BY DEF TypeOK, StoreTypeOK
  <2>3. intents' \in [Intent -> {"none", "open", "succeeded"}]
    BY <2>1, <2>2 DEF TypeOK, StoreTypeOK
  <2> QED
    BY <1>2, <2>3 DEF Charge, TypeOK, StoreTypeOK, dbVars
<1>3. ASSUME NEW p \in Slot, Step(p)
      PROVE  TypeOK'
  BY <1>3, CheckoutTypes, ProcessTypes, CancelTypes, AddonTypes DEF Step
<1>4. ASSUME NEW p \in Slot, HandlerFails(p)
      PROVE  TypeOK'
  <2>1. Idle \in Activity
    BY DEF Activity
  <2> QED
    BY <1>4, <2>1 DEF HandlerFails, Done, Goto, TypeOK, StoreTypeOK, dbVars
<1>5. CASE UNCHANGED vars
  BY <1>5 DEF vars, TypeOK, StoreTypeOK
<1> QED
  BY <1>1, <1>2, <1>3, <1>4, <1>5 DEF Next

\* Whatever requests and jobs are in flight, however they interleave and
\* wherever they fail, every document and every handler's locals keep their
\* types: no handler ever reads the head of an empty queue or the fields of a
\* subscription that was not found.
THEOREM TypesCorrect == Spec => []TypeOK
<1>1. Init => TypeOK
  BY InitTypes
<1>2. TypeOK /\ [Next]_vars => TypeOK'
  BY StepTypes
<1> QED
  BY <1>1, <1>2, PTL DEF Spec

-----------------------------------------------------------------------------
(***************************************************************************)
(* The awaits at which a handler holds a payment, by what it does with it. *)
(***************************************************************************)

\* The payment is pending and names no subscription yet.
Unlinked == {"createQueue", "createSub", "createLink"}

\* The payment was found pending for the subscription of the request.
Confirming == {"confirmInvoice", "confirmComplete", "confirmStatus"}

\* The payment is for an add-on.
Crediting == {"addonCredit", "addonComplete"}

\* Stripe has said that the intent of the request succeeded.
Vouched == {"confirmFind"} \cup Confirming \cup Crediting

HoldsPayment == Unlinked \cup Confirming \cup Crediting \cup {"retryIssue"}

\* The queue handlers touch nothing that has to do with money: they leave
\* every other collection alone and hold no payment and no intent.
LEMMA QueueFrame ==
    ASSUME TypeOK, NEW p \in Slot, ProcessStep(p) \/ CancelStep(p)
    PROVE  /\ UNCHANGED <<fails, pays, invoices, credits, intents, issued>>
           /\ \E x : Goto(p, x) /\ x.at \notin HoldsPayment \cup Vouched
<1> DEFINE Frame == UNCHANGED <<fails, pays, invoices, credits, intents, issued>>
           Clear(x) == x.at \notin HoldsPayment \cup Vouched
           Ok == Frame /\ \E x : Goto(p, x) /\ Clear(x)
<1> USE DEF HoldsPayment, Vouched, Unlinked, Confirming, Crediting
<1>1. \A list : Clear(ExpireOrReady(list)) /\ Clear(CheckOrEnd(list))
  BY DEF ExpireOrReady, CheckOrEnd, Idle
<1>2. Clear(Idle)
  BY DEF Idle
<1>3. ProcessStart(p) => Ok
  BY <1>1 DEF ProcessStart, dbVars
<1>4. ExpireNext(p) => Ok
  BY DEF ExpireNext
<1>5. PromoteFind(p) => Ok
  BY <1>1 DEF PromoteFind, dbVars
<1>6. Promote(p) => Ok
  BY <1>1 DEF Promote
<1>t. req[p] \in Activity
  BY DEF TypeOK
<1>7. Renumber(p) => Ok
  <2> SUFFICES ASSUME Renumber(p) PROVE Ok
    OBVIOUS
  <2>1. req[p] \in [at: {"renumber"}, expired: Seq(Sub),
                    queue: NonEmpty(Sub), position: Nat]
    BY <1>t, QueueLocals DEF Renumber, At
  <2>2. Clear([req[p] EXCEPT !.queue = Tail(@), !.position = @ + 1])
    BY <2>1
  <2> HIDE DEF Clear
  <2> QED
    BY <1>1, <2>2 DEF Renumber
<1>8. ReadyFind(p) => Ok
  BY <1>1 DEF ReadyFind, dbVars
<1>9. ReadyCheck(p) => Ok
  <2> SUFFICES ASSUME ReadyCheck(p) PROVE Ok
    OBVIOUS
  <2>1. req[p] \in [at: {"readyCheck", "readyActivate"}, ready: NonEmpty(Sub)]
    BY <1>t, QueueLocals DEF ReadyCheck, At
  <2>2. Clear([req[p] EXCEPT !.at = "readyActivate"])
    BY <2>1
  <2> HIDE DEF Clear
  <2> QED
    BY <1>1, <2>2 DEF ReadyCheck, dbVars
<1>10. ReadyActivate(p) => Ok
  BY <1>1 DEF ReadyActivate
<1>11. CancelStart(p) => Ok
  BY DEF CancelStart, dbVars
<1>12. CancelWrite(p) => Ok
  BY DEF CancelWrite
<1>13. CancelQueue(p) => Ok
  BY <1>2 DEF CancelQueue, dbVars
<1>14. CancelPromote(p) => Ok
  BY <1>2 DEF CancelPromote
<1>15. CancelReread(p) => Ok
  BY DEF CancelReread, dbVars
<1>16. CancelReorder(p) => Ok
  BY <1>2 DEF CancelReorder
<1> QED
  BY <1>3, <1>4, <1>5, <1>6, <1>7, <1>8, <1>9, <1>10, <1>11, <1>12, <1>13,
     <1>14, <1>15, <1>16 DEF ProcessStep, CancelStep

\* What a slot holds at the awaits that change nothing but its label.
LEMMA Relabel ==
    ASSUME NEW r \in Activity, NEW l
    PROVE  /\ r.at \in Confirming \cup Crediting =>
                 /\ [r EXCEPT !.at = l].at = l
                 /\ [r EXCEPT !.at = l].pay = r.pay
                 /\ [r EXCEPT !.at = l].intent = r.intent
           /\ r.at \in Confirming => [r EXCEPT !.at = l].sub = r.sub
<1>1. r.at \in Confirming =>
        r \in [at: {"confirmInvoice", "confirmComplete", "confirmStatus"},
               sub: Sub, intent: Intent, queued: BOOLEAN, pay: Pay]
  BY CheckoutLocals DEF Confirming
<1>2. r.at \in Crediting =>
        r \in [at: {"addonCredit", "addonComplete"}, pay: Pay, intent: Intent]
  BY AddonLocals DEF Crediting
<1> QED
  BY <1>1, <1>2

-----------------------------------------------------------------------------
(***************************************************************************)
(* Completed means charged.  The inductive part: between the check of the  *)
(* intent and the write that records it, a handler holds an intent Stripe  *)
(* has charged, and Stripe never takes that back.                          *)
(***************************************************************************)
ChargedSlots ==
    \A p \in Slot : req[p].at \in Vouched => intents[req[p].intent] = "succeeded"

\* What a payment records of Stripe's answer.
ResponsesHold ==
    \A y \in Pay : pays[y].gatewayResponse # Null =>
        intents[pays[y].gatewayResponse] = "succeeded"

ChargeInv == CompletedMeansCharged /\ ChargedSlots /\ ResponsesHold

\* One slot moves on, charged intents stay charged, and payments that end up
\* completed, or with an answer of Stripe's, are as they were or name a charged
\* intent.
LEMMA ChargeStep ==
    ASSUME TypeOK, ChargeInv, NEW p \in Slot, NEW x, Goto(p, x),
           x.at \in Vouched => intents'[x.intent] = "succeeded",
           \A i \in Intent : intents[i] = "succeeded" => intents'[i] = "succeeded",
           \A y \in Pay : pays'[y].status = "completed" =>
               \/ pays'[y] = pays[y]
               \/ pays'[y].intent \in Intent /\ intents'[pays'[y].intent] = "succeeded",
           \A y \in Pay : pays'[y].gatewayResponse # Null =>
               \/ pays'[y].gatewayResponse = pays[y].gatewayResponse
               \/ intents'[pays'[y].gatewayResponse] = "succeeded"
    PROVE  ChargeInv'
<1>n. Null \notin Intent
  BY StoreAssumption
<1>t. /\ pays \in [Pay -> PayDoc]
      /\ req \in [Slot -> Activity]
  BY DEF TypeOK, StoreTypeOK
<1>1. CompletedMeansCharged'
  <2> SUFFICES ASSUME NEW y \in Pay, pays'[y].status = "completed"
               PROVE  pays'[y].intent # Null /\ intents'[pays'[y].intent] = "succeeded"
    BY DEF CompletedMeansCharged
  <2>1. CASE pays'[y] = pays[y]
    <3>1. pays[y].intent # Null /\ intents[pays[y].intent] = "succeeded"
      BY <2>1 DEF ChargeInv, CompletedMeansCharged
    <3>2. pays[y].intent \in Intent
      BY <1>t, <3>1 DEF PayDoc
    <3> QED
      BY <2>1, <3>1, <3>2
  <2>2. CASE pays'[y].intent \in Intent /\ intents'[pays'[y].intent] = "succeeded"
    BY <2>2, <1>n
  <2> QED
    BY <2>1, <2>2
<1>2. ChargedSlots'
  <2> SUFFICES ASSUME NEW q \in Slot, req'[q].at \in Vouched
               PROVE  intents'[req'[q].intent] = "succeeded"
    BY DEF ChargedSlots, Vouched, Confirming, Crediting
  <2>1. CASE q = p
    BY <1>t, <2>1 DEF Goto
  <2>2. CASE q # p
    <3>1. req'[q] = req[q]
      BY <1>t, <2>2 DEF Goto
    <3>2. req[q] \in Activity
      BY <1>t
    <3>3. req[q].at \in Vouched => req[q].intent \in Intent
      BY <3>2, CheckoutLocals, AddonLocals DEF Vouched, Confirming, Crediting
    <3> QED
      BY <3>1, <3>3 DEF ChargeInv, ChargedSlots
  <2> QED
    BY <2>1, <2>2
<1>3. ResponsesHold'
  <2>1. \A y \in Pay : pays[y].gatewayResponse # Null => pays[y].gatewayResponse \in Intent
    BY <1>t DEF PayDoc
  <2> QED
    BY <2>1 DEF ChargeInv, ResponsesHold
<1> QED
  BY <1>1, <1>2, <1>3 DEF ChargeInv

LEMMA ChargeCheckout ==
    ASSUME TypeOK, ChargeInv, NEW p \in Slot, CheckoutStep(p)
    PROVE  ChargeInv'
<1> DEFINE r == req[p]
<1>t. r \in Activity /\ pays \in [Pay -> PayDoc] /\ intents \in [Intent -> {"none", "open", "succeeded"}]
  BY DEF TypeOK, StoreTypeOK
<1>v. r.at \in Vouched => intents[r.intent] = "succeeded"
  BY DEF ChargeInv, ChargedSlots
<1>q. ASSUME NEW x, Goto(p, x), x.at \notin Vouched, UNCHANGED <<pays, intents>>
      PROVE  ChargeInv'
  BY <1>q, ChargeStep
<1>d. ASSUME Done(p), UNCHANGED <<pays, intents>>
      PROVE  ChargeInv'
  BY <1>d, <1>q DEF Done, Idle, Vouched, Confirming, Crediting
<1>f. FreshIntent \subseteq {i \in Intent : intents[i] = "none"}
  BY DEF FreshIntent, Least
<1>1. CASE CreateStart(p)
  BY <1>1, <1>q DEF CreateStart, dbVars, Vouched, Confirming, Crediting
<1>2. CASE CreatePayment(p)
  <2>1. PICK i \in FreshIntent, y \in Pay :
          /\ intents' = [intents EXCEPT ![i] = "open"]
          /\ pays' = [pays EXCEPT ![y] = [status |-> "pending", type |-> "plan",
                                          sub |-> Null, intent |-> i,
                                          gatewayResponse |-> Null]]
    BY <1>2, QueryTypes DEF CreatePayment
  <2>2. PICK x : Goto(p, x) /\ x.at \notin Vouched
    BY <1>2 DEF CreatePayment, Vouched, Confirming, Crediting
  <2>3. \A j \in Intent : intents[j] = "succeeded" => intents'[j] = "succeeded"
    BY <1>f, <1>t, <2>1
  <2>4. \A z \in Pay : \/ pays'[z] = pays[z]
                       \/ pays'[z].status = "pending" /\ pays'[z].gatewayResponse = Null
    BY <1>t, <2>1
  <2> QED
    BY <2>2, <2>3, <2>4, ChargeStep
<1>3. CASE CreateQueue(p)
  BY <1>3, <1>q DEF CreateQueue, dbVars, Vouched, Confirming, Crediting
<1>4. CASE CreateSub(p)
  BY <1>4, <1>q DEF CreateSub, Vouched, Confirming, Crediting
<1>5. CASE CreateLink(p)
  <2>1. /\ pays' = [pays EXCEPT ![r.pay].status = "pending", ![r.pay].sub = r.sub]
        /\ Goto(p, Idle)
        /\ UNCHANGED intents
    BY <1>5 DEF CreateLink, Done
  <2>2. \A z \in Pay :
          /\ pays'[z].status = "completed" => pays'[z] = pays[z]
          /\ pays'[z].gatewayResponse = pays[z].gatewayResponse
    BY <1>t, <2>1 DEF PayDoc
  <2>3. Idle.at \notin Vouched
    BY DEF Idle, Vouched, Confirming, Crediting
  <2> QED
    BY <2>1, <2>2, <2>3, ChargeStep
<1>6. CASE ConfirmStart(p)
  <2>1. PICK s \in Sub, i \in Intent :
          /\ intents[i] = "succeeded"
          /\ Goto(p, [at |-> "confirmFind", sub |-> s, intent |-> i,
                      queued |-> subs[s].isQueued])
    BY <1>6 DEF ConfirmStart, Succeeded
  <2>2. UNCHANGED <<pays, intents>>
    BY <1>6 DEF ConfirmStart, dbVars
  <2> QED
    BY <2>1, <2>2, ChargeStep
<1>7. CASE ConfirmFind(p)
  <2>1. intents[r.intent] = "succeeded"
    BY <1>7, <1>v DEF ConfirmFind, At, Vouched
  <2>2. PICK x : Goto(p, x) /\ (x.at \in Vouched => x.intent = r.intent)
    BY <1>7 DEF ConfirmFind, Done, Idle, Vouched, Confirming, Crediting
  <2>3. UNCHANGED <<pays, intents>>
    BY <1>7 DEF ConfirmFind, dbVars
  <2> QED
    BY <2>1, <2>2, <2>3, ChargeStep
<1>8. CASE ConfirmInvoice(p)
  <2>1. r.at \in Confirming /\ intents[r.intent] = "succeeded"
    BY <1>8, <1>v DEF ConfirmInvoice, At, Vouched, Confirming
  <2>2. [r EXCEPT !.at = "confirmComplete"].intent = r.intent
    BY <1>t, <2>1, Relabel
  <2>3. PICK x : Goto(p, x) /\ (x.at \in Vouched => x.intent = r.intent)
    BY <1>8, <2>2, ZenonT(40) DEF ConfirmInvoice, Done, Idle, Vouched, Confirming, Crediting
  <2>4. UNCHANGED <<pays, intents>>
    BY <1>8 DEF ConfirmInvoice
  <2> QED
    BY <2>1, <2>3, <2>4, ChargeStep
<1>9. CASE ConfirmComplete(p)
  <2>1. r.at \in Confirming /\ intents[r.intent] = "succeeded"
    BY <1>9, <1>v DEF ConfirmComplete, At, Vouched, Confirming
  <2>2. [r EXCEPT !.at = "confirmStatus"].intent = r.intent
    BY <1>t, <2>1, Relabel
  <2>3. /\ Goto(p, [r EXCEPT !.at = "confirmStatus"])
        /\ pays' = [pays EXCEPT ![r.pay].status = "completed",
                                ![r.pay].intent = r.intent,
                                ![r.pay].gatewayResponse = r.intent]
        /\ UNCHANGED intents
    BY <1>9 DEF ConfirmComplete
  <2>4. r.pay \in Pay /\ r.intent \in Intent
    BY <1>t, <2>1, CheckoutLocals DEF Confirming
  <2>5. \A z \in Pay : \/ pays'[z] = pays[z]
                       \/ /\ pays'[z].intent = r.intent
                          /\ pays'[z].gatewayResponse = r.intent
    BY <1>t, <2>3, <2>4 DEF PayDoc
  <2> HIDE DEF r
  <2> QED
    BY <2>1, <2>2, <2>3, <2>4, <2>5, ChargeStep
<1>10. CASE ConfirmStatus(p)
  BY <1>10, <1>d DEF ConfirmStatus
<1>11. CASE RetryStart(p)
  BY <1>11, <1>q DEF RetryStart, dbVars, Vouched, Confirming, Crediting
<1>12. CASE RetryFind(p)
  BY <1>12, <1>q, <1>d DEF RetryFind, dbVars, Vouched, Confirming, Crediting
<1>13. CASE RetryIssue(p)
  <2>1. PICK i \in FreshIntent :
          /\ intents' = [intents EXCEPT ![i] = "open"]
          /\ pays' = [pays EXCEPT ![r.pay].status = "pending", ![r.pay].intent = i]
    BY <1>13 DEF RetryIssue
  <2>2. \A j \in Intent : intents[j] = "succeeded" => intents'[j] = "succeeded"
    BY <1>f, <1>t, <2>1
  <2>3. \A z \in Pay :
          /\ pays'[z].status = "completed" => pays'[z] = pays[z]
          /\ pays'[z].gatewayResponse = pays[z].gatewayResponse
    BY <1>t, <2>1 DEF PayDoc
  <2>4. Goto(p, Idle) /\ Idle.at \notin Vouched
    BY <1>13 DEF RetryIssue, Done, Idle, Vouched, Confirming, Crediting
  <2> QED
    BY <2>2, <2>3, <2>4, ChargeStep
<1> QED
  BY <1>1, <1>2, <1>3, <1>4, <1>5, <1>6, <1>7, <1>8, <1>9, <1>10, <1>11, <1>12,
     <1>13 DEF CheckoutStep

LEMMA ChargeAddon ==
    ASSUME TypeOK, ChargeInv, NEW p \in Slot, AddonStep(p)
    PROVE  ChargeInv'
<1> DEFINE r == req[p]
<1>t. r \in Activity /\ pays \in [Pay -> PayDoc] /\ intents \in [Intent -> {"none", "open", "succeeded"}]
  BY DEF TypeOK, StoreTypeOK
<1>v. r.at \in Vouched => intents[r.intent] = "succeeded"
  BY DEF ChargeInv, ChargedSlots
<1>f. FreshIntent \subseteq {i \in Intent : intents[i] = "none"}
  BY DEF FreshIntent, Least
<1>1. CASE AddonStart(p)
  <2>1. PICK x : Goto(p, x) /\ x.at \notin Vouched
    BY <1>1 DEF AddonStart, Vouched, Confirming, Crediting
  <2>2. UNCHANGED <<pays, intents>>
    BY <1>1 DEF AddonStart, dbVars
  <2> QED
    BY <2>1, <2>2, ChargeStep
<1>2. CASE AddonPayment(p)
  <2>1. PICK i \in FreshIntent, y \in Pay :
          /\ intents' = [intents EXCEPT ![i] = "open"]
          /\ pays' = [pays EXCEPT ![y] = [status |-> "pending", type |-> "addon",
                                          sub |-> r.sub, intent |-> i,
                                          gatewayResponse |-> Null]]
    BY <1>2, QueryTypes DEF AddonPayment
  <2>2. Goto(p, Idle) /\ Idle.at \notin Vouched
    BY <1>2 DEF AddonPayment, Done, Idle, Vouched, Confirming, Crediting
  <2>3. \A j \in Intent : intents[j] = "succeeded" => intents'[j] = "succeeded"
    BY <1>f, <1>t, <2>1
  <2>4. \A z \in Pay : \/ pays'[z] = pays[z]
                       \/ pays'[z].status = "pending" /\ pays'[z].gatewayResponse = Null
    BY <1>t, <2>1
  <2> QED
    BY <2>2, <2>3, <2>4, ChargeStep
<1>3. CASE AddonConfirm(p)
  <2>1. PICK y \in Pay, i \in Intent :
          /\ intents[i] = "succeeded"
          /\ Goto(p, [at |-> "addonCredit", pay |-> y, intent |-> i])
    BY <1>3 DEF AddonConfirm, Succeeded
  <2>2. UNCHANGED <<pays, intents>>
    BY <1>3 DEF AddonConfirm, dbVars
  <2> QED
    BY <2>1, <2>2, ChargeStep
<1>4. CASE AddonCredit(p)
  <2>1. r.at \in Crediting /\ intents[r.intent] = "succeeded"
    BY <1>4, <1>v DEF AddonCredit, At, Vouched, Crediting
  <2>2. [r EXCEPT !.at = "addonComplete"].intent = r.intent
    BY <1>t, <2>1, Relabel
  <2>3. Goto(p, [r EXCEPT !.at = "addonComplete"]) /\ UNCHANGED <<pays, intents>>
    BY <1>4 DEF AddonCredit
  <2> HIDE DEF r
  <2> QED
    BY <2>1, <2>2, <2>3, ChargeStep
<1>5. CASE AddonComplete(p)
  <2>1. r.at \in Crediting /\ intents[r.intent] = "succeeded"
    BY <1>5, <1>v DEF AddonComplete, At, Vouched, Crediting
  <2>2. /\ Goto(p, Idle)
        /\ pays' = [pays EXCEPT ![r.pay].status = "completed",
                                ![r.pay].intent = r.intent,
                                ![r.pay].gatewayResponse = r.intent]
        /\ UNCHANGED intents
    BY <1>5 DEF AddonComplete, Done
  <2>3. r.pay \in Pay /\ r.intent \in Intent
    BY <1>t, <2>1, AddonLocals DEF Crediting
  <2>4. \A z \in Pay : \/ pays'[z] = pays[z]
                       \/ /\ pays'[z].intent = r.intent
                          /\ pays'[z].gatewayResponse = r.intent
    BY <1>t, <2>2, <2>3 DEF PayDoc
  <2>5. Idle.at \notin Vouched
    BY DEF Idle, Vouched, Confirming, Crediting
  <2> HIDE DEF r
  <2> QED
    BY <2>1, <2>2, <2>3, <2>4, <2>5, ChargeStep
<1> QED
  BY <1>1, <1>2, <1>3, <1>4, <1>5 DEF AddonStep

LEMMA ChargeInvInductive ==
    ASSUME TypeOK, ChargeInv, [Next]_vars
    PROVE  ChargeInv'
<1>1. CASE Tick
  BY <1>1 DEF Tick, dbVars, ChargeInv, CompletedMeansCharged, ChargedSlots,
     ResponsesHold, Vouched, Confirming, Crediting
<1>2. CASE Charge
  <2>1. PICK e \in issued : intents' = [intents EXCEPT ![e] = "succeeded"]
    BY <1>2 DEF Charge
  <2>2. UNCHANGED <<pays, req>>
    BY <1>2 DEF Charge, dbVars
  <2>3. \A i : intents[i] = "succeeded" /\ i \in Intent => intents'[i] = "succeeded"
    BY <2>1 DEF TypeOK, StoreTypeOK
  <2>4. \A y \in Pay :
          /\ pays[y].intent # Null => pays[y].intent \in Intent
          /\ pays[y].gatewayResponse # Null => pays[y].gatewayResponse \in Intent
    BY DEF TypeOK, StoreTypeOK, PayDoc
  <2>5. CompletedMeansCharged'
    BY <2>2, <2>3, <2>4 DEF ChargeInv, CompletedMeansCharged
  <2>6. \A q \in Slot : req[q].at \in Vouched => req[q].intent \in Intent
    <3> TAKE q \in Slot
    <3>1. req[q] \in Activity
      BY DEF TypeOK
    <3> QED
      BY <3>1, CheckoutLocals, AddonLocals DEF Vouched, Confirming, Crediting
  <2>7. ChargedSlots'
    BY <2>2, <2>3, <2>6 DEF ChargeInv, ChargedSlots, Vouched, Confirming, Crediting
  <2>8. ResponsesHold'
    BY <2>2, <2>3, <2>4 DEF ChargeInv, ResponsesHold
  <2> QED
    BY <2>5, <2>7, <2>8 DEF ChargeInv
<1>3. ASSUME NEW p \in Slot, Step(p)
      PROVE  ChargeInv'
  <2>1. CASE CheckoutStep(p)
    BY <2>1, ChargeCheckout
  <2>2. CASE ProcessStep(p) \/ CancelStep(p)
    BY <2>2, QueueFrame, ChargeStep
  <2>3. CASE AddonStep(p)
    BY <2>3, ChargeAddon
  <2> QED
    BY <1>3, <2>1, <2>2, <2>3 DEF Step
<1>4. ASSUME NEW p \in Slot, HandlerFails(p)
      PROVE  ChargeInv'
  <2>1. Goto(p, Idle) /\ UNCHANGED <<pays, intents>>
    BY <1>4 DEF HandlerFails, Done, dbVars
  <2>2. Idle.at \notin Vouched
    BY DEF Idle, Vouched, Confirming, Crediting
  <2> QED
    BY <2>1, <2>2, ChargeStep
<1>5. CASE UNCHANGED vars
  BY <1>5 DEF vars, ChargeInv, CompletedMeansCharged, ChargedSlots, ResponsesHold,
     Vouched, Confirming, Crediting
<1> QED
  BY <1>1, <1>2, <1>3, <1>4, <1>5 DEF Next

\* A payment is completed, with the transaction that paid it, only if Stripe
\* charged that transaction, in every interleaving of confirmations, retries
\* and add-on purchases and wherever they fail.
THEOREM CompletedPaymentsAreCharged == Spec => []CompletedMeansCharged
<1>1. Init => TypeOK
  BY InitTypes
<1>2. Init => ChargeInv
  BY DEF Init, StoreInit, ChargeInv, CompletedMeansCharged, ChargedSlots,
     ResponsesHold, NoPayDoc, Idle, Vouched, Confirming, Crediting
<1>3. TypeOK /\ [Next]_vars => TypeOK'
  BY StepTypes
<1>4. TypeOK /\ ChargeInv /\ [Next]_vars => ChargeInv'
  BY ChargeInvInductive
<1>5. ChargeInv => CompletedMeansCharged
  BY DEF ChargeInv
<1> QED
  BY <1>1, <1>2, <1>3, <1>4, <1>5, PTL DEF Spec

-----------------------------------------------------------------------------
(***************************************************************************)
(* Completed means invoiced.  The inductive part: a payment a handler      *)
(* holds is of the kind that handler deals with and belongs to the         *)
(* subscription of its request, a checkout's payment is its own until it   *)
(* is linked, and the invoice of a subscription exists once its request    *)
(* has passed that await.                                                  *)
(***************************************************************************)
SlotBooks(r) ==
    /\ r.at \in HoldsPayment => pays[r.pay].status # "none"
    /\ r.at \in Unlinked =>
          /\ pays[r.pay].status = "pending"
          /\ pays[r.pay].type = "plan"
          /\ pays[r.pay].sub = Null
    /\ r.at \in Confirming \cup {"retryIssue"} => pays[r.pay].sub = r.sub
    /\ r.at \in {"confirmComplete", "confirmStatus"} => r.sub \in invoices
    /\ r.at \in Crediting => pays[r.pay].type = "addon"

OwnPayment ==
    \A p, q \in Slot :
        (p # q /\ req[p].at \in Unlinked /\ req[q].at \in Unlinked)
            => req[p].pay # req[q].pay

\* What confirmAddonPurchase asks of a payment, only an existing one has.
AddonsExist ==
    \A y \in Pay : pays[y].type = "addon" => pays[y].status # "none"

BooksInv ==
    /\ CompletedMeansInvoiced
    /\ \A p \in Slot : SlotBooks(req[p])
    /\ OwnPayment
    /\ AddonsExist

\* The payment of a slot's locals exists.
LEMMA HeldPayment ==
    ASSUME NEW r \in Activity
    PROVE  /\ r.at \in HoldsPayment => r.pay \in Pay
           /\ r.at \in Confirming \cup {"retryIssue"} => r.sub \in Sub
  BY CheckoutLocals, AddonLocals DEF HoldsPayment, Unlinked, Confirming, Crediting

\* One slot moves on; payments others may hold keep what they rely on.
LEMMA BooksStep ==
    ASSUME TypeOK, BooksInv, NEW p \in Slot, NEW x, Goto(p, x),
           SlotBooks(x)',
           x.at \in Unlinked => \/ req[p].at \in Unlinked /\ x.pay = req[p].pay
                                \/ pays[x.pay].status = "none",
           invoices \subseteq invoices',
           \A y \in Pay : pays'[y].type = "addon" =>
               pays[y].type = "addon" \/ pays'[y].status # "none",
           \A y \in Pay : pays'[y].status = "completed" /\ pays'[y].type = "plan" =>
               \/ pays'[y] = pays[y]
               \/ pays'[y].sub \in invoices',
           \A y \in Pay : pays[y].status # "none" =>
               /\ pays'[y].status # "none"
               /\ pays'[y].type = pays[y].type
               /\ pays[y].sub # Null => pays'[y].sub = pays[y].sub,
           \A q \in Slot : q # p /\ req[q].at \in Unlinked =>
               pays'[req[q].pay] = pays[req[q].pay]
    PROVE  BooksInv'
<1>n. Null \notin Sub
  BY StoreAssumption
<1>t. /\ pays \in [Pay -> PayDoc]
      /\ req \in [Slot -> Activity]
  BY DEF TypeOK, StoreTypeOK
<1>o. \A q \in Slot : q # p => req'[q] = req[q]
  BY <1>t DEF Goto
<1>p. req'[p] = x
  BY <1>t DEF Goto
<1>1. CompletedMeansInvoiced'
  BY DEF BooksInv, CompletedMeansInvoiced
<1>2. ASSUME NEW q \in Slot
      PROVE  SlotBooks(req[q])'
  <2>1. CASE q = p
    BY <2>1, <1>p DEF SlotBooks, HoldsPayment, Unlinked, Confirming, Crediting
  <2>2. CASE q # p
    <3> DEFINE r == req[q]
    <3>1. r \in Activity /\ SlotBooks(r)
      BY <1>t DEF BooksInv
    <3>2. /\ r.at \in HoldsPayment => r.pay \in Pay /\ pays[r.pay].status # "none"
          /\ r.at \in Confirming \cup {"retryIssue"} =>
                r.sub \in Sub /\ pays[r.pay].sub = r.sub
      BY <3>1, HeldPayment DEF SlotBooks
    <3>3. r.at \in Confirming \cup {"retryIssue"} => pays'[r.pay].sub = r.sub
      BY <1>n, <3>2 DEF HoldsPayment
    <3>4. r.at \in Unlinked => pays'[r.pay] = pays[r.pay]
      BY <2>2
    <3>5. r.at \in Crediting => pays'[r.pay].type = "addon"
      BY <3>1, <3>2 DEF SlotBooks, HoldsPayment
    <3>6. r.at \in HoldsPayment => pays'[r.pay].status # "none"
      BY <3>2
    <3>7. r.at \in {"confirmComplete", "confirmStatus"} => r.sub \in invoices'
      BY <3>1 DEF SlotBooks
    <3>8. r.at \in Unlinked =>
            /\ pays'[r.pay].status = "pending"
            /\ pays'[r.pay].type = "plan"
            /\ pays'[r.pay].sub = Null
      BY <3>1, <3>4 DEF SlotBooks
    <3>9. req'[q] = r
      BY <1>o, <2>2
    <3> HIDE DEF r
    <3> QED
      BY <3>3, <3>5, <3>6, <3>7, <3>8, <3>9
      DEF SlotBooks, HoldsPayment, Unlinked, Confirming, Crediting
  <2> QED
    BY <2>1, <2>2
<1>3. OwnPayment'
  <2>1. \A q \in Slot : req[q].at \in Unlinked => pays[req[q].pay].status # "none"
    BY DEF BooksInv, SlotBooks, HoldsPayment
  <2>2. ASSUME NEW q \in Slot, q # p, x.at \in Unlinked, req[q].at \in Unlinked
        PROVE  x.pay # req[q].pay
    BY <2>1, <2>2 DEF BooksInv, OwnPayment
  <2> SUFFICES ASSUME NEW a \in Slot, NEW b \in Slot, a # b,
                      req'[a].at \in Unlinked, req'[b].at \in Unlinked
               PROVE  req'[a].pay # req'[b].pay
    BY DEF OwnPayment, Unlinked
  <2>3. CASE a = p
    BY <2>2, <2>3, <1>o, <1>p
  <2>4. CASE b = p
    BY <2>2, <2>4, <1>o, <1>p
  <2>5. CASE a # p /\ b # p
    BY <2>5, <1>o DEF BooksInv, OwnPayment
  <2> QED
    BY <2>3, <2>4, <2>5
<1>4. AddonsExist'
  BY DEF BooksInv, AddonsExist
<1> QED
  BY <1>1, <1>2, <1>3, <1>4 DEF BooksInv

\* The same for a step that writes no payment.
LEMMA BooksQuiet ==
    ASSUME TypeOK, BooksInv, NEW p \in Slot, NEW x, Goto(p, x),
           UNCHANGED pays, invoices \subseteq invoices',
           SlotBooks(x)',
           x.at \in Unlinked => req[p].at \in Unlinked /\ x.pay = req[p].pay
    PROVE  BooksInv'
  BY BooksStep

\* A slot that holds no payment asks nothing of the books.
LEMMA BooksClear ==
    ASSUME TypeOK, BooksInv, NEW p \in Slot, NEW x, Goto(p, x),
           x.at \notin HoldsPayment,
           UNCHANGED pays, invoices \subseteq invoices'
    PROVE  BooksInv'
<1>1. SlotBooks(x)'
  BY DEF SlotBooks, HoldsPayment, Unlinked, Confirming, Crediting
<1>2. x.at \notin Unlinked
  BY DEF HoldsPayment
<1> QED
  BY <1>1, <1>2, BooksQuiet

LEMMA BooksCreate ==
    ASSUME TypeOK, BooksInv, NEW p \in Slot,
           \/ CreateStart(p) \/ CreatePayment(p) \/ CreateQueue(p)
           \/ CreateSub(p) \/ CreateLink(p)
    PROVE  BooksInv'
<1> DEFINE r == req[p]
<1>t. r \in Activity /\ pays \in [Pay -> PayDoc] /\ SlotBooks(r)
  BY DEF TypeOK, StoreTypeOK, BooksInv
<1>f. FreshPay \subseteq {y \in Pay : pays[y].status = "none"}
  BY DEF FreshPay, Least
<1>h. \A q \in Slot : req[q].at \in Unlinked =>
        req[q].pay \in Pay /\ pays[req[q].pay].status = "pending"
  <2> TAKE q \in Slot
  <2>1. req[q] \in Activity
    BY DEF TypeOK
  <2> QED
    BY <2>1, HeldPayment DEF BooksInv, SlotBooks, HoldsPayment
<1>n. Null \notin Sub
  BY StoreAssumption
<1> USE DEF HoldsPayment, Unlinked, Confirming, Crediting
<1>1. CASE CreateStart(p)
  BY <1>1, BooksClear DEF CreateStart, dbVars
<1>2. CASE CreatePayment(p)
  <2> DEFINE doc(i) == [status |-> "pending", type |-> "plan", sub |-> Null, intent |-> i,
                        gatewayResponse |-> Null]
  <2>1. PICK i \in Intent, y \in FreshPay :
          /\ pays' = [pays EXCEPT ![y] = doc(i)]
          /\ Goto(p, IF req[p].active = Null
                     THEN [at |-> "createSub", company |-> req[p].company,
                           active |-> Null, from |-> 0,
                           pay |-> y, intent |-> i, position |-> 0]
                     ELSE [at |-> "createQueue", company |-> req[p].company,
                           active |-> req[p].active, from |-> req[p].from,
                           pay |-> y, intent |-> i])
    BY <1>2, QueryTypes DEF CreatePayment
  <2>2. PICK x : Goto(p, x) /\ x.at \in {"createSub", "createQueue"} /\ x.pay = y
    BY <2>1
  <2>3. y \in Pay /\ pays[y].status = "none" /\ pays'[y] = doc(i)
    BY <1>f, <1>t, <2>1
  <2>4. SlotBooks(x)'
    BY <2>2, <2>3 DEF SlotBooks
  <2>5. \A z \in Pay : z # y => pays'[z] = pays[z]
    BY <1>t, <2>1
  <2>6. \A q \in Slot : req[q].at \in Unlinked => pays'[req[q].pay] = pays[req[q].pay]
    BY <1>h, <2>3, <2>5
  <2>7. \A z \in Pay : pays'[z].status = "completed" => pays'[z] = pays[z]
    BY <2>3, <2>5
  <2>8. \A z \in Pay : pays[z].status # "none" => pays'[z] = pays[z]
    BY <2>3, <2>5
  <2>9. UNCHANGED invoices
    BY <1>2 DEF CreatePayment
  <2>10. \A z \in Pay : pays'[z] = pays[z] \/ pays'[z].status # "none"
    BY <2>3, <2>5
  <2> HIDE DEF doc
  <2> QED
    BY <2>2, <2>3, <2>4, <2>6, <2>7, <2>8, <2>9, <2>10, BooksStep
<1>3. CASE CreateQueue(p)
  <2>1. PICK x : Goto(p, x) /\ x.at = "createSub" /\ x.pay = r.pay
    BY <1>3 DEF CreateQueue
  <2>2. UNCHANGED <<pays, invoices>> /\ r.at \in Unlinked
    BY <1>3 DEF CreateQueue, dbVars, At
  <2>3. SlotBooks(x)'
    BY <1>t, <2>1, <2>2 DEF SlotBooks
  <2> QED
    BY <2>1, <2>2, <2>3, BooksQuiet
<1>4. CASE CreateSub(p)
  <2>1. PICK x : Goto(p, x) /\ x.at = "createLink" /\ x.pay = r.pay
    BY <1>4 DEF CreateSub
  <2>2. UNCHANGED <<pays, invoices>> /\ r.at \in Unlinked
    BY <1>4 DEF CreateSub, At
  <2>3. SlotBooks(x)'
    BY <1>t, <2>1, <2>2 DEF SlotBooks
  <2> QED
    BY <2>1, <2>2, <2>3, BooksQuiet
<1>5. CASE CreateLink(p)
  <2>1. /\ r.at \in Unlinked /\ r.pay \in Pay
        /\ pays[r.pay].sub = Null
    BY <1>5, <1>t, HeldPayment DEF CreateLink, At, SlotBooks
  <2>2. /\ pays' = [pays EXCEPT ![r.pay].status = "pending", ![r.pay].sub = r.sub]
        /\ Goto(p, Idle)
        /\ UNCHANGED invoices
    BY <1>5 DEF CreateLink, Done
  <2>3. /\ \A z \in Pay : z # r.pay => pays'[z] = pays[z]
        /\ pays'[r.pay].status = "pending"
        /\ pays'[r.pay].type = pays[r.pay].type
    BY <1>t, <2>1, <2>2 DEF PayDoc
  <2>4. \A q \in Slot : q # p /\ req[q].at \in Unlinked =>
          pays'[req[q].pay] = pays[req[q].pay]
    BY <1>h, <2>1, <2>3 DEF BooksInv, OwnPayment
  <2>5. SlotBooks(Idle)'
    BY DEF SlotBooks, Idle
  <2>6. \A z \in Pay : pays'[z].type = pays[z].type
    BY <2>3
  <2>7. Idle.at \notin Unlinked
    BY DEF Idle
  <2>8. \A z \in Pay : pays'[z].status = "completed" => pays'[z] = pays[z]
    BY <2>3
  <2>9. \A z \in Pay : pays[z].status # "none" =>
               /\ pays'[z].status # "none"
               /\ pays'[z].type = pays[z].type
               /\ pays[z].sub # Null => pays'[z].sub = pays[z].sub
    BY <2>1, <2>3
  <2> HIDE DEF r, Unlinked
  <2> QED
    BY <2>2, <2>4, <2>5, <2>6, <2>7, <2>8, <2>9, BooksStep
<1> QED
  BY <1>1, <1>2, <1>3, <1>4, <1>5

LEMMA BooksConfirm ==
    ASSUME TypeOK, BooksInv, NEW p \in Slot,
           \/ ConfirmStart(p) \/ ConfirmFind(p) \/ ConfirmInvoice(p)
           \/ ConfirmComplete(p) \/ ConfirmStatus(p)
           \/ RetryStart(p) \/ RetryFind(p) \/ RetryIssue(p)
    PROVE  BooksInv'
<1> DEFINE r == req[p]
<1>t. r \in Activity /\ pays \in [Pay -> PayDoc] /\ SlotBooks(r)
  BY DEF TypeOK, StoreTypeOK, BooksInv
<1>n. Null \notin Sub
  BY StoreAssumption
<1>h. \A q \in Slot : req[q].at \in Unlinked =>
        req[q].pay \in Pay /\ pays[req[q].pay].sub = Null
  <2> TAKE q \in Slot
  <2>1. req[q] \in Activity
    BY DEF TypeOK
  <2> QED
    BY <2>1, HeldPayment DEF BooksInv, SlotBooks, HoldsPayment
<1>d. ASSUME Done(p), UNCHANGED pays, invoices \subseteq invoices'
      PROVE  BooksInv'
  BY <1>d, BooksClear DEF Done, Idle, HoldsPayment, Unlinked, Confirming, Crediting
<1>i. SlotBooks(Idle)' /\ Idle.at \notin Unlinked
  BY DEF SlotBooks, Idle, HoldsPayment, Unlinked, Confirming, Crediting
<1>1. CASE ConfirmStart(p)
  BY <1>1, BooksClear
  DEF ConfirmStart, dbVars, HoldsPayment, Unlinked, Confirming, Crediting
<1>2. CASE ConfirmFind(p)
  <2>1. UNCHANGED <<pays, invoices>>
    BY <1>2 DEF ConfirmFind, dbVars
  <2>2. PICK y \in FindOne(PendingBySubscription(r.sub)) :
          IF y = Null
          THEN Done(p)
          ELSE Goto(p, [at |-> "confirmInvoice", sub |-> r.sub,
                        intent |-> r.intent, queued |-> r.queued, pay |-> y])
    BY <1>2 DEF ConfirmFind
  <2>3. CASE y = Null
    BY <1>d, <2>1, <2>2, <2>3
  <2>4. CASE y # Null
    <3>1. pays[y].sub = r.sub /\ pays[y].status = "pending"
      BY <2>4 DEF FindOne, PendingBySubscription
    <3>2. PICK x : Goto(p, x) /\ x.at = "confirmInvoice" /\ x.sub = r.sub /\ x.pay = y
      BY <2>2, <2>4
    <3>3. SlotBooks(x)' /\ x.at \notin Unlinked
      BY <2>1, <3>1, <3>2 DEF SlotBooks, HoldsPayment, Unlinked, Confirming, Crediting
    <3> QED
      BY <2>1, <3>2, <3>3, BooksQuiet
  <2> QED
    BY <2>3, <2>4
<1>3. CASE ConfirmInvoice(p)
  <2>1. /\ UNCHANGED pays
        /\ invoices \subseteq invoices'
        /\ r.at = "confirmInvoice"
    BY <1>3 DEF ConfirmInvoice, At
  <2> DEFINE y == [r EXCEPT !.at = "confirmComplete"]
  <2>9. y.at = "confirmComplete" /\ y.pay = r.pay /\ y.sub = r.sub
    BY <1>t, <2>1, Relabel DEF Confirming
  <2>10. (Goto(p, y) /\ r.sub \in invoices') \/ Done(p)
    BY <1>3 DEF ConfirmInvoice
  <2> HIDE DEF y
  <2>2. PICK x : /\ x.at = "confirmComplete" /\ x.pay = r.pay /\ x.sub = r.sub
                 /\ (Goto(p, x) /\ r.sub \in invoices') \/ Done(p)
    BY <2>9, <2>10
  <2>4. r.at \in HoldsPayment \cap Confirming
    BY <2>1 DEF HoldsPayment, Confirming
  <2>5. pays[r.pay].status # "none" /\ pays[r.pay].sub = r.sub
    BY <1>t, <2>4 DEF SlotBooks
  <2> HIDE DEF r
  <2>6. r.sub \in invoices' => SlotBooks(x)' /\ x.at \notin Unlinked
    BY <2>1, <2>2, <2>5 DEF SlotBooks, Unlinked, Crediting
  <2>7. CASE Goto(p, x) /\ r.sub \in invoices'
    BY <2>1, <2>6, <2>7, BooksQuiet
  <2>8. CASE Done(p)
    BY <1>d, <2>1, <2>8
  <2> QED
    BY <2>2, <2>7, <2>8
<1>4. CASE ConfirmComplete(p)
  <2>1. /\ r.at = "confirmComplete" /\ r.pay \in Pay /\ r.sub \in Sub
        /\ pays[r.pay].sub = r.sub /\ r.sub \in invoices
        /\ pays[r.pay].status # "none"
    BY <1>4, <1>t, HeldPayment
    DEF ConfirmComplete, At, SlotBooks, HoldsPayment, Unlinked, Confirming, Crediting
  <2>2. /\ pays' = [pays EXCEPT ![r.pay].status = "completed",
                                ![r.pay].intent = r.intent,
                                ![r.pay].gatewayResponse = r.intent]
        /\ Goto(p, [r EXCEPT !.at = "confirmStatus"])
        /\ UNCHANGED invoices
    BY <1>4 DEF ConfirmComplete
  <2> DEFINE y == [r EXCEPT !.at = "confirmStatus"]
  <2>9. y.at = "confirmStatus" /\ y.pay = r.pay /\ y.sub = r.sub
    BY <1>t, <2>1, Relabel DEF Confirming
  <2>10. Goto(p, y)
    BY <2>2
  <2> HIDE DEF y
  <2>3. PICK x : /\ Goto(p, x) /\ x.at = "confirmStatus"
                 /\ x.pay = r.pay /\ x.sub = r.sub
    BY <2>9, <2>10
  <2>4. /\ \A z \in Pay : z # r.pay => pays'[z] = pays[z]
        /\ pays'[r.pay].status = "completed"
        /\ pays'[r.pay].type = pays[r.pay].type
        /\ pays'[r.pay].sub = r.sub
    BY <1>t, <2>1, <2>2 DEF PayDoc
  <2>5. SlotBooks(x)' /\ x.at \notin Unlinked
    BY <2>1, <2>2, <2>3, <2>4
    DEF SlotBooks, HoldsPayment, Unlinked, Confirming, Crediting
  <2>6. \A q \in Slot : q # p /\ req[q].at \in Unlinked =>
          pays'[req[q].pay] = pays[req[q].pay]
    BY <1>h, <1>n, <2>1, <2>4
  <2>7. \A z \in Pay : pays'[z] = pays[z] \/ pays'[z].sub \in invoices'
    <3>1. r.sub \in invoices'
      BY <2>1, <2>2
    <3> HIDE DEF r
    <3> QED
      BY <2>4, <3>1
  <2>8. \A z \in Pay : pays[z].status # "none" =>
               /\ pays'[z].status # "none"
               /\ pays'[z].type = pays[z].type
               /\ pays[z].sub # Null => pays'[z].sub = pays[z].sub
    BY <2>1, <2>4
  <2>11. \A z \in Pay : pays'[z].type = "addon" =>
             pays[z].type = "addon" \/ pays'[z].status # "none"
    BY <2>4
  <2> HIDE DEF r
  <2> QED
    BY <2>2, <2>3, <2>5, <2>6, <2>7, <2>8, <2>11, BooksStep
<1>5. CASE ConfirmStatus(p)
  BY <1>5, <1>d DEF ConfirmStatus
<1>6. CASE RetryStart(p)
  BY <1>6, BooksClear
  DEF RetryStart, dbVars, HoldsPayment, Unlinked, Confirming, Crediting
<1>7. CASE RetryFind(p)
  <2>1. UNCHANGED <<pays, invoices>>
    BY <1>7 DEF RetryFind, dbVars
  <2>2. PICK y \in FindOne(PendingBySubscription(r.sub)) :
          IF y = Null
          THEN Done(p)
          ELSE Goto(p, [at |-> "retryIssue", sub |-> r.sub, pay |-> y])
    BY <1>7 DEF RetryFind
  <2>3. CASE y = Null
    BY <1>d, <2>1, <2>2, <2>3
  <2>4. CASE y # Null
    <3>1. pays[y].sub = r.sub /\ pays[y].status = "pending"
      BY <2>4 DEF FindOne, PendingBySubscription
    <3>2. PICK x : Goto(p, x) /\ x.at = "retryIssue" /\ x.sub = r.sub /\ x.pay = y
      BY <2>2, <2>4
    <3>3. SlotBooks(x)' /\ x.at \notin Unlinked
      BY <2>1, <3>1, <3>2 DEF SlotBooks, HoldsPayment, Unlinked, Confirming, Crediting
    <3> QED
      BY <2>1, <3>2, <3>3, BooksQuiet
  <2> QED
    BY <2>3, <2>4
<1>8. CASE RetryIssue(p)
  <2>1. /\ r.at = "retryIssue" /\ r.pay \in Pay /\ r.sub \in Sub
        /\ pays[r.pay].sub = r.sub
    BY <1>8, <1>t, HeldPayment DEF RetryIssue, At, SlotBooks, HoldsPayment
  <2>2. PICK i :
        /\ pays' = [pays EXCEPT ![r.pay].status = "pending", ![r.pay].intent = i]
        /\ Goto(p, Idle)
        /\ UNCHANGED invoices
    BY <1>8 DEF RetryIssue, Done
  <2>3. /\ \A z \in Pay : z # r.pay => pays'[z] = pays[z]
        /\ pays'[r.pay].status = "pending"
        /\ pays'[r.pay].type = pays[r.pay].type
        /\ pays'[r.pay].sub = pays[r.pay].sub
    BY <1>t, <2>1, <2>2 DEF PayDoc
  <2>4. \A q \in Slot : q # p /\ req[q].at \in Unlinked =>
          pays'[req[q].pay] = pays[req[q].pay]
    BY <1>h, <1>n, <2>1, <2>3
  <2>5. \A z \in Pay : pays'[z].type = pays[z].type
    BY <2>3
  <2>6. \A z \in Pay : pays'[z].status = "completed" => pays'[z] = pays[z]
    BY <2>3
  <2>7. \A z \in Pay : pays[z].status # "none" =>
               /\ pays'[z].status # "none"
               /\ pays'[z].type = pays[z].type
               /\ pays[z].sub # Null => pays'[z].sub = pays[z].sub
    BY <2>3
  <2> HIDE DEF r
  <2> QED
    BY <1>i, <2>2, <2>4, <2>5, <2>6, <2>7, BooksStep
<1> QED
  BY <1>1, <1>2, <1>3, <1>4, <1>5, <1>6, <1>7, <1>8

LEMMA BooksAddon ==
    ASSUME TypeOK, BooksInv, NEW p \in Slot, AddonStep(p)
    PROVE  BooksInv'
<1> DEFINE r == req[p]
<1>t. r \in Activity /\ pays \in [Pay -> PayDoc] /\ SlotBooks(r)
  BY DEF TypeOK, StoreTypeOK, BooksInv
<1>h. \A q \in Slot : req[q].at \in Unlinked =>
        /\ req[q].pay \in Pay /\ pays[req[q].pay].status # "none"
        /\ pays[req[q].pay].type = "plan"
  <2> TAKE q \in Slot
  <2>1. req[q] \in Activity
    BY DEF TypeOK
  <2> QED
    BY <2>1, HeldPayment DEF BooksInv, SlotBooks, HoldsPayment
<1>i. SlotBooks(Idle)' /\ Idle.at \notin Unlinked
  BY DEF SlotBooks, Idle, HoldsPayment, Unlinked, Confirming, Crediting
<1>1. CASE AddonStart(p)
  <2>1. PICK x : Goto(p, x) /\ x.at \notin HoldsPayment
    BY <1>1 DEF AddonStart, HoldsPayment, Unlinked, Confirming, Crediting
  <2>2. UNCHANGED <<pays, invoices>>
    BY <1>1 DEF AddonStart, dbVars
  <2> QED
    BY <2>1, <2>2, BooksClear
<1>2. CASE AddonPayment(p)
  <2>1. PICK i \in Intent, y \in FreshPay :
          /\ pays' = [pays EXCEPT ![y] = [status |-> "pending", type |-> "addon",
                                          sub |-> r.sub, intent |-> i,
                                          gatewayResponse |-> Null]]
    BY <1>2, QueryTypes DEF AddonPayment
  <2>2. Goto(p, Idle) /\ UNCHANGED invoices
    BY <1>2 DEF AddonPayment, Done
  <2>3. y \in Pay /\ pays[y].status = "none"
    BY <2>1 DEF FreshPay, Least
  <2>4. /\ \A z \in Pay : z # y => pays'[z] = pays[z]
        /\ pays'[y].status = "pending"
    BY <1>t, <2>1, <2>3
  <2>5. \A q \in Slot : q # p /\ req[q].at \in Unlinked =>
          pays'[req[q].pay] = pays[req[q].pay]
    BY <1>h, <2>3, <2>4
  <2>6. \A z \in Pay : pays'[z] = pays[z] \/ pays'[z].status # "none"
    BY <2>4
  <2>7. \A z \in Pay : pays'[z].status = "completed" => pays'[z] = pays[z]
    BY <2>4
  <2>8. \A z \in Pay : pays[z].status # "none" => pays'[z] = pays[z]
    BY <2>3, <2>4
  <2> QED
    BY <1>i, <2>2, <2>5, <2>6, <2>7, <2>8, BooksStep
<1>3. CASE AddonConfirm(p)
  <2>1. PICK y \in Pay, i \in Intent :
          /\ pays[y].type = "addon"
          /\ Goto(p, [at |-> "addonCredit", pay |-> y, intent |-> i])
    BY <1>3 DEF AddonConfirm, Succeeded
  <2>2. UNCHANGED <<pays, invoices>>
    BY <1>3 DEF AddonConfirm, dbVars
  <2>3. pays[y].status # "none"
    BY <2>1 DEF BooksInv, AddonsExist
  <2>4. PICK x : Goto(p, x) /\ x.at = "addonCredit" /\ x.pay = y
    BY <2>1
  <2>5. SlotBooks(x)' /\ x.at \notin Unlinked
    BY <2>1, <2>2, <2>3, <2>4
    DEF SlotBooks, HoldsPayment, Unlinked, Confirming, Crediting
  <2> QED
    BY <2>2, <2>4, <2>5, BooksQuiet
<1>4. CASE AddonCredit(p)
  <2>1. UNCHANGED <<pays, invoices>> /\ r.at = "addonCredit"
    BY <1>4 DEF AddonCredit, At
  <2>2. PICK x : Goto(p, x) /\ x.at = "addonComplete" /\ x.pay = r.pay
    <3>1. Goto(p, [r EXCEPT !.at = "addonComplete"])
      BY <1>4 DEF AddonCredit
    <3> QED
      BY <1>t, <2>1, <3>1, Relabel, ZenonT(40) DEF Crediting
  <2>3. SlotBooks(x)' /\ x.at \notin Unlinked
    BY <1>t, <2>1, <2>2 DEF SlotBooks, HoldsPayment, Unlinked, Confirming, Crediting
  <2> QED
    BY <2>1, <2>2, <2>3, BooksQuiet
<1>5. CASE AddonComplete(p)
  <2>1. /\ r.pay \in Pay /\ pays[r.pay].type = "addon" /\ pays[r.pay].status # "none"
    BY <1>5, <1>t, HeldPayment DEF AddonComplete, At, SlotBooks, HoldsPayment, Crediting
  <2>2. /\ pays' = [pays EXCEPT ![r.pay].status = "completed",
                                ![r.pay].intent = r.intent,
                                ![r.pay].gatewayResponse = r.intent]
        /\ Goto(p, Idle)
        /\ UNCHANGED invoices
    BY <1>5 DEF AddonComplete, Done
  <2>3. /\ \A z \in Pay : z # r.pay => pays'[z] = pays[z]
        /\ pays'[r.pay].status = "completed"
        /\ pays'[r.pay].type = "addon"
        /\ pays'[r.pay].sub = pays[r.pay].sub
    BY <1>t, <2>1, <2>2 DEF PayDoc
  <2>4. \A q \in Slot : q # p /\ req[q].at \in Unlinked =>
          pays'[req[q].pay] = pays[req[q].pay]
    BY <1>h, <2>1, <2>3
  <2>5. \A z \in Pay : /\ pays'[z].type = "plan" => pays'[z] = pays[z]
                       /\ pays'[z] = pays[z] \/ pays'[z].status # "none"
    BY <2>3
  <2>6. \A z \in Pay : pays[z].status # "none" =>
               /\ pays'[z].status # "none"
               /\ pays'[z].type = pays[z].type
               /\ pays[z].sub # Null => pays'[z].sub = pays[z].sub
    BY <2>1, <2>3
  <2> HIDE DEF r
  <2> QED
    BY <1>i, <2>2, <2>4, <2>5, <2>6, BooksStep
<1> QED
  BY <1>1, <1>2, <1>3, <1>4, <1>5 DEF AddonStep

LEMMA BooksInvInductive ==
    ASSUME TypeOK, BooksInv, [Next]_vars
    PROVE  BooksInv'
<1> USE DEF HoldsPayment, Unlinked, Confirming, Crediting
<1>1. CASE Tick \/ Charge \/ UNCHANGED vars
  <2>1. UNCHANGED <<pays, invoices, req>>
    BY <1>1 DEF Tick, Charge, vars, dbVars
  <2> QED
    BY <2>1 DEF BooksInv, CompletedMeansInvoiced, SlotBooks, OwnPayment, AddonsExist
<1>2. ASSUME NEW p \in Slot, Step(p)
      PROVE  BooksInv'
  <2>1. CASE CheckoutStep(p)
    BY <2>1, BooksCreate, BooksConfirm DEF CheckoutStep
  <2>2. CASE ProcessStep(p) \/ CancelStep(p)
    BY <2>2, QueueFrame, BooksClear
  <2>3. CASE AddonStep(p)
    BY <2>3, BooksAddon
  <2> QED
    BY <1>2, <2>1, <2>2, <2>3 DEF Step
<1>3. ASSUME NEW p \in Slot, HandlerFails(p)
      PROVE  BooksInv'
  BY <1>3, BooksClear DEF HandlerFails, Done, dbVars, Idle
<1> QED
  BY <1>1, <1>2, <1>3 DEF Next

\* A completed plan payment belongs to a subscription whose invoice exists,
\* whatever was confirmed, retried or cancelled meanwhile and wherever a
\* handler stopped.
THEOREM CompletedPaymentsAreInvoiced == Spec => []CompletedMeansInvoiced
<1>1. Init => TypeOK
  BY InitTypes
<1>2. Init => BooksInv
  BY DEF Init, StoreInit, BooksInv, CompletedMeansInvoiced, SlotBooks, OwnPayment,
     AddonsExist, NoPayDoc, Idle, HoldsPayment, Unlinked, Confirming, Crediting
<1>3. TypeOK /\ [Next]_vars => TypeOK'
  BY StepTypes
<1>4. TypeOK /\ BooksInv /\ [Next]_vars => BooksInv'
  BY BooksInvInductive
<1>5. BooksInv => CompletedMeansInvoiced
  BY DEF BooksInv
<1> QED
  BY <1>1, <1>2, <1>3, <1>4, <1>5, PTL DEF Spec

-----------------------------------------------------------------------------
(***************************************************************************)
(* The lives of subscriptions.  A walk-in is never flagged queued, so no   *)
(* queue a handler has read holds one: only confirm makes it active, and   *)
(* confirm has settled one of its payments and has its invoice.            *)
(***************************************************************************)
Known == {s \in Sub : subs[s].status # "none"}

\* The subscriptions that were put in a queue when they were bought.
Queueable == {s \in Known : subs[s].previous # Null}

SubLife(s) ==
    subs[s].previous = Null =>
        /\ ~subs[s].isQueued
        /\ subs[s].status # "queued"
        /\ subs[s].status = "active" => s \in Settled /\ s \in invoices

\* What the subscriptions a handler holds are.
SlotLife(r) ==
    /\ r.at \in {"createLink", "retryFind", "retryIssue", "cancelWrite", "addonPayment"}
          => r.sub \in Known
    /\ r.at \in {"confirmFind"} \cup Confirming =>
          /\ r.sub \in Known
          /\ r.queued => r.sub \in Queueable
    /\ r.at = "confirmStatus" => r.sub \in Settled
    /\ r.at \in {"expireNext", "promoteFind", "promote", "renumber"}
          => r.expired \in Seq(Known)
    /\ r.at = "promote" => r.queue \in Seq(Queueable)
    /\ r.at \in {"readyCheck", "readyActivate"} => r.ready \in Seq(Queueable)
    /\ r.at \in {"cancelPromote", "cancelReread", "cancelReorder"}
          => r.queue \in Seq([id: Queueable, endDate: Nat])

\* An id not used yet carries no answer of Stripe's.
BlankPays ==
    \A y \in Pay : pays[y].status = "none" => pays[y].gatewayResponse = Null

LifeInv ==
    /\ \A s \in Sub : SubLife(s)
    /\ BlankPays
    /\ \A y \in Pay : pays[y].sub # Null => pays[y].sub \in Known
    /\ \A p \in Slot : SlotLife(req[p])

\* What an insert or an update of one subscription may do.
Opens(s) ==
    /\ subs[s].status = "none"
    /\ subs'[s].status = "pending"
    /\ subs'[s].previous = Null
    /\ ~subs'[s].isQueued

Queues(s) ==
    /\ subs[s].status = "none"
    /\ subs'[s].status = "queued"
    /\ subs'[s].previous # Null

Moves(s) ==
    /\ s \in Known
    /\ subs'[s].previous = Null <=> subs[s].previous = Null
    /\ subs[s].previous = Null => ~subs'[s].isQueued
    /\ \/ subs'[s].status \in {subs[s].status, "cancelled", "expired"}
       \/ /\ subs'[s].status = "active"
          /\ subs[s].previous = Null => s \in Settled /\ s \in invoices
       \/ subs'[s].status = "queued" /\ subs[s].previous # Null

Change(s) ==
    /\ \A t \in Sub \ {s} : subs'[t] = subs[t]
    /\ Opens(s) \/ Queues(s) \/ Moves(s)
    /\ UNCHANGED <<pays, invoices, intents>>

Growing ==
    /\ Known \subseteq Known'
    /\ Queueable \subseteq Queueable'
    /\ Settled \subseteq Settled'
    /\ \A s \in Known : subs'[s].status = "pending" => subs[s].status = "pending"

Refined ==
    <<[s \in Sub |-> PhaseOf(subs[s].status)],
      {s \in Sub : subs[s].status # "none" /\ subs[s].previous = Null},
      Succeeded,
      Settled>>

\* What every step has to show of the lives.
Lives ==
    /\ LifeInv'
    /\ Growing
    /\ L!LifecycleNext \/ UNCHANGED Refined

LEMMA SeqMonotone ==
    ASSUME NEW S, NEW T, S \subseteq T
    PROVE  Seq(S) \subseteq Seq(T)
<1> SUFFICES ASSUME NEW q \in Seq(S) PROVE q \in Seq(T)
  OBVIOUS
<1>1. Len(q) \in Nat /\ q \in [1..Len(q) -> S]
  OBVIOUS
<1>2. q \in [1..Len(q) -> T]
  BY <1>1
<1> QED
  BY <1>1, <1>2, IsASeq

\* An enumeration of a set of subscriptions lists nothing else.
LEMMA EnumerationWithin ==
    ASSUME NEW S \in SUBSET Sub, NEW q \in SetToSeqs(S)
    PROVE  q \in Seq(S)
<1>1. IsFiniteSet(S)
  BY StoreAssumption, FS_Subset
<1>2. Cardinality(S) \in Nat
  BY <1>1, FS_CardinalityType
<1>3. q \in [1..Cardinality(S) -> S]
  BY DEF SetToSeqs
<1> QED
  BY <1>2, <1>3, IsASeq

\* What the queries of the queue return.
LEMMA QueryLives ==
    ASSUME TypeOK, \A s \in Sub : SubLife(s)
    PROVE  /\ \A c : QueuedByCompany(c) \subseteq Seq(Queueable)
           /\ ReadyToActivate \subseteq Seq(Queueable)
           /\ Expired \subseteq Seq(Known)
           /\ \A c : ActiveByCompany(c) \subseteq Known
<1>1. Waiting \subseteq Queueable
  BY DEF Waiting, Queueable, Known, SubLife
<1>2. ASSUME NEW S \in SUBSET Queueable
      PROVE  ByPosition(S) \subseteq Seq(Queueable)
  <2>1. S \subseteq Sub
    BY DEF Queueable, Known
  <2>2. SetToSeqs(S) \subseteq Seq(S)
    BY <2>1, EnumerationWithin
  <2> QED
    BY <2>2, SeqMonotone DEF ByPosition
<1>3. \A c : QueuedByCompany(c) \subseteq Seq(Queueable)
  BY <1>1, <1>2 DEF QueuedByCompany
<1>4. ReadyToActivate \subseteq Seq(Queueable)
  BY <1>1, <1>2 DEF ReadyToActivate
<1>5. Expired \subseteq Seq(Known)
  <2> DEFINE S == {s \in Sub : subs[s].status = "active" /\ ~subs[s].isQueued /\ subs[s].endDate < now}
  <2>1. S \subseteq Sub /\ S \subseteq Known
    BY DEF Known
  <2>2. Expired = SetToSeqs(S)
    BY DEF Expired
  <2>3. SetToSeqs(S) \subseteq Seq(S)
    BY <2>1, EnumerationWithin
  <2> HIDE DEF S
  <2> QED
    BY <2>1, <2>2, <2>3, SeqMonotone
<1>6. \A c : ActiveByCompany(c) \subseteq Known
  BY DEF ActiveByCompany, Known
<1> QED
  BY <1>3, <1>4, <1>5, <1>6

\* A change of one subscription keeps what is known of all, and is a step of
\* that subscription's life, or none.
LEMMA ChangeLives ==
    ASSUME TypeOK, TypeOK', \A t \in Sub : SubLife(t), NEW s \in Sub, Change(s)
    PROVE  /\ Growing
           /\ (\A t \in Sub : SubLife(t))'
           /\ L!LifecycleNext \/ UNCHANGED Refined
<1>t. subs \in [Sub -> SubDoc] /\ subs' \in [Sub -> SubDoc]
  BY DEF TypeOK, StoreTypeOK
<1>p. Settled' = Settled /\ Succeeded' = Succeeded
  BY DEF Settled, Succeeded, Change
<1>u. \A t \in Sub \ {s} : subs'[t] = subs[t]
  BY DEF Change
<1>o. Opens(s) \/ Queues(s) \/ Moves(s)
  BY DEF Change
<1>g. UNCHANGED <<pays, invoices, intents>>
  BY DEF Change
<1>1. Growing
  <2>1. Known \subseteq Known'
    BY <1>u, <1>o DEF Known, Opens, Queues, Moves
  <2>2. Queueable \subseteq Queueable'
    BY <1>u, <1>o DEF Queueable, Known, Opens, Queues, Moves
  <2>3. \A t \in Known : subs'[t].status = "pending" => subs[t].status = "pending"
    BY <1>u, <1>o DEF Known, Opens, Queues, Moves
  <2> QED
    BY <1>p, <2>1, <2>2, <2>3 DEF Growing
<1>2. (\A t \in Sub : SubLife(t))'
  <2> SUFFICES ASSUME NEW t \in Sub PROVE SubLife(t)'
    OBVIOUS
  <2>1. SubLife(t)
    OBVIOUS
  <2>2. CASE t # s
    BY <1>u, <1>p, <1>g, <2>1, <2>2 DEF SubLife
  <2>3. CASE t = s /\ Opens(s)
    BY <2>3 DEF SubLife, Opens
  <2>4. CASE t = s /\ Queues(s)
    BY <2>4 DEF SubLife, Queues
  <2>5. CASE t = s /\ Moves(s)
    BY <1>p, <1>g, <2>1, <2>5 DEF SubLife, Moves
  <2> QED
    BY <1>o, <2>2, <2>3, <2>4, <2>5
<1>3. L!LifecycleNext \/ UNCHANGED Refined
  <2> DEFINE Phase == [t \in Sub |-> PhaseOf(subs[t].status)]
             WalkIn == {t \in Sub : subs[t].status # "none" /\ subs[t].previous = Null}
  <2>1. Settled' = Settled /\ Succeeded' = Succeeded
    BY <1>p
  <2>2. Phase' = [Phase EXCEPT ![s] = PhaseOf(subs'[s].status)]
    BY <1>u
  <2>3. Phase[s] = PhaseOf(subs[s].status)
    OBVIOUS
  <2>4. CASE Opens(s)
    <3>1. PhaseOf(subs[s].status) = "absent" /\ PhaseOf(subs'[s].status) = "checkout"
      BY <2>4 DEF Opens, PhaseOf
    <3>2. WalkIn' = WalkIn \cup {s}
      BY <1>u, <2>4 DEF Opens
    <3>3. L!Open(s)
      BY <2>1, <2>2, <2>3, <3>1, <3>2 DEF L!Open, L!Become
    <3> QED
      BY <3>3 DEF L!LifecycleNext
  <2>5. CASE Queues(s)
    <3>1. PhaseOf(subs[s].status) = "absent" /\ PhaseOf(subs'[s].status) = "waiting"
      BY <2>5 DEF Queues, PhaseOf
    <3>2. WalkIn' = WalkIn
      BY <1>u, <2>5 DEF Queues
    <3>3. L!Enqueue(s)
      BY <2>1, <2>2, <2>3, <3>1, <3>2 DEF L!Enqueue, L!Become
    <3> QED
      BY <3>3 DEF L!LifecycleNext
  <2>6. CASE Moves(s)
    <3>1. PhaseOf(subs[s].status) # "absent"
      BY <1>t, <2>6 DEF Moves, Known, PhaseOf, SubDoc, SubStatus
    <3>2. subs[s].status # "none" /\ subs'[s].status # "none"
      BY <2>6 DEF Moves, Known
    <3>3. WalkIn' = WalkIn
      BY <1>u, <2>6, <3>2 DEF Moves
    <3>4. CASE subs'[s].status = subs[s].status
      <4>1. Phase' = Phase
        BY <2>2, <3>4
      <4> QED
        BY <2>1, <3>3, <4>1 DEF Refined
    <3>5. CASE subs'[s].status \in {"cancelled", "expired"}
      <4>1. PhaseOf(subs'[s].status) = "over"
        BY <3>5 DEF PhaseOf
      <4>2. L!End(s)
        BY <2>1, <2>2, <2>3, <3>1, <3>3, <4>1 DEF L!End, L!Become
      <4> QED
        BY <4>2 DEF L!LifecycleNext
    <3>6. CASE /\ subs'[s].status = "active"
               /\ subs[s].previous = Null => s \in Settled /\ s \in invoices
      <4>1. PhaseOf(subs'[s].status) = "live"
        BY <3>6 DEF PhaseOf
      <4>2. s \in WalkIn => s \in Settled
        BY <3>6
      <4>3. L!GoLive(s)
        BY <2>1, <2>2, <2>3, <3>1, <3>3, <4>1, <4>2 DEF L!GoLive, L!Become
      <4> QED
        BY <4>3 DEF L!LifecycleNext
    <3>7. CASE subs'[s].status = "queued" /\ subs[s].previous # Null
      <4>1. PhaseOf(subs'[s].status) = "waiting"
        BY <3>7 DEF PhaseOf
      <4>2. s \notin WalkIn
        BY <3>7
      <4>3. L!Enqueue(s)
        BY <2>1, <2>2, <2>3, <3>3, <4>1, <4>2 DEF L!Enqueue, L!Become
      <4> QED
        BY <4>3 DEF L!LifecycleNext
    <3> QED
      BY <2>6, <3>4, <3>5, <3>6, <3>7 DEF Moves
  <2> QED
    BY <1>o, <2>4, <2>5, <2>6
<1> QED
  BY <1>1, <1>2, <1>3

\* A handler at rest holds what it held.
LEMMA SlotKeeps ==
    ASSUME NEW r, Growing, SlotLife(r)
    PROVE  SlotLife(r)'
<1>1. /\ Known \subseteq Known' /\ Queueable \subseteq Queueable'
      /\ Settled \subseteq Settled'
  BY DEF Growing
<1>2. Seq(Known) \subseteq Seq(Known')
  BY <1>1, SeqMonotone
<1>3. Seq(Queueable) \subseteq Seq(Queueable')
  BY <1>1, SeqMonotone
<1>4. Seq([id: Queueable, endDate: Nat]) \subseteq Seq([id: Queueable', endDate: Nat])
  <2>1. [id: Queueable, endDate: Nat] \subseteq [id: Queueable', endDate: Nat]
    BY <1>1
  <2> QED
    BY <2>1, SeqMonotone
<1> QED
  BY <1>1, <1>2, <1>3, <1>4 DEF SlotLife, Confirming

\* One slot moves on, what was known stays known.
LEMMA LifeStep ==
    ASSUME TypeOK, LifeInv, NEW p \in Slot, NEW x, Goto(p, x), SlotLife(x)',
           Growing, (\A t \in Sub : SubLife(t))', BlankPays',
           \A y \in Pay : pays'[y].sub \in {pays[y].sub, Null} \cup Known'
    PROVE  LifeInv'
<1>t. req \in [Slot -> Activity]
  BY DEF TypeOK
<1>g. Known \subseteq Known'
  BY DEF Growing
<1>2. (\A y \in Pay : pays[y].sub # Null => pays[y].sub \in Known)'
  BY <1>g DEF LifeInv
<1>3. (\A q \in Slot : SlotLife(req[q]))'
  <2> SUFFICES ASSUME NEW q \in Slot PROVE SlotLife(req[q])'
    OBVIOUS
  <2>1. CASE q = p
    <3>1. req'[q] = x
      BY <1>t, <2>1 DEF Goto
    <3> QED
      BY <3>1 DEF SlotLife
  <2>2. CASE q # p
    <3>1. req'[q] = req[q]
      BY <1>t, <2>2 DEF Goto
    <3>2. PICK r : r = req[q]
      OBVIOUS
    <3>3. SlotLife(r)
      BY <3>2 DEF LifeInv
    <3>4. SlotLife(r)'
      BY <3>3, SlotKeeps
    <3>5. req'[q] = r
      BY <3>1, <3>2
    <3> QED
      BY <3>4, <3>5 DEF SlotLife
  <2> QED
    BY <2>1, <2>2
<1> QED
  BY <1>2, <1>3 DEF LifeInv

\* Most steps: a handler reads, or writes what this part says nothing of.
LEMMA LifeReads ==
    ASSUME TypeOK, LifeInv, NEW p \in Slot, NEW x, Goto(p, x), SlotLife(x),
           UNCHANGED <<subs, pays, intents>>, invoices \subseteq invoices'
    PROVE  Lives
<1>1. /\ Settled' = Settled /\ Succeeded' = Succeeded
      /\ Known' = Known /\ Queueable' = Queueable
  BY DEF Settled, Succeeded, Known, Queueable
<1>2. Growing
  BY <1>1 DEF Growing
<1>3. (\A t \in Sub : SubLife(t))'
  BY <1>1 DEF LifeInv, SubLife
<1>4. SlotLife(x)'
  BY <1>2, SlotKeeps
<1>5. BlankPays'
  BY DEF LifeInv, BlankPays
<1>6. LifeInv'
  BY <1>2, <1>3, <1>4, <1>5, LifeStep
<1>7. UNCHANGED Refined
  BY <1>1 DEF Refined
<1> QED
  BY <1>2, <1>6, <1>7 DEF Lives

\* One payment is inserted or written: what it settled it still settles, and
\* at most the subscription it names becomes settled.
LEMMA PaymentSettles ==
    ASSUME NEW z \in Pay, Succeeded' = Succeeded,
           \A y \in Pay \ {z} : pays'[y] = pays[y],
           pays[z].gatewayResponse \in Succeeded /\ pays[z].sub \in Sub =>
               /\ pays'[z].sub = pays[z].sub
               /\ pays'[z].gatewayResponse \in Succeeded
    PROVE  /\ Settled \subseteq Settled'
           /\ \A s \in Settled' : s \in Settled \/ s = pays'[z].sub
           /\ Settled' # Settled => Succeeded # {}
<1>1. Settled \subseteq Settled'
  BY DEF Settled
<1>2. \A s \in Settled' : s \in Settled \/ s = pays'[z].sub
  BY DEF Settled
<1>3. \A s \in Settled' : Succeeded # {}
  BY DEF Settled
<1> QED
  BY <1>1, <1>2, <1>3

\* Such a write is a step of the life of the subscription it names, or none.
LEMMA SettleRefines ==
    ASSUME NEW s \in Known \cup {Null}, UNCHANGED subs, Succeeded' = Succeeded,
           Settled \subseteq Settled', \A t \in Settled' : t \in Settled \/ t = s,
           Settled' # Settled => Succeeded # {}
    PROVE  L!LifecycleNext \/ UNCHANGED Refined
<1> DEFINE Phase == [t \in Sub |-> PhaseOf(subs[t].status)]
           WalkIn == {t \in Sub : subs[t].status # "none" /\ subs[t].previous = Null}
<1>1. Phase' = Phase /\ WalkIn' = WalkIn
  OBVIOUS
<1>2. CASE Settled' = Settled
  BY <1>1, <1>2 DEF Refined
<1>3. CASE Settled' # Settled
  <2>1. s \in Settled' /\ Settled' = Settled \cup {s}
    BY <1>3
  <2>2. s \in Sub
    BY <2>1 DEF Settled
  <2>3. subs[s].status # "none"
    BY <2>2, StoreAssumption DEF Known
  <2>4. Phase[s] # "absent"
    BY <2>2, <2>3 DEF PhaseOf
  <2>5. L!Settle(s)
    BY <1>1, <1>3, <2>1, <2>4 DEF L!Settle
  <2> QED
    BY <2>2, <2>5 DEF L!LifecycleNext
<1> QED
  BY <1>2, <1>3

\* One payment is inserted or written and the slot moves on.
LEMMA LifePays ==
    ASSUME TypeOK, LifeInv, NEW p \in Slot, NEW x, Goto(p, x), NEW z \in Pay,
           UNCHANGED <<subs, invoices>>, Succeeded' = Succeeded,
           \A y \in Pay \ {z} : pays'[y] = pays[y],
           pays'[z].status # "none",
           pays'[z].sub \in Known \cup {Null},
           pays[z].gatewayResponse \in Succeeded /\ pays[z].sub \in Sub =>
               /\ pays'[z].sub = pays[z].sub
               /\ pays'[z].gatewayResponse \in Succeeded,
           SlotLife(x)'
    PROVE  Lives
<1>1. /\ Settled \subseteq Settled'
      /\ \A s \in Settled' : s \in Settled \/ s = pays'[z].sub
      /\ Settled' # Settled => Succeeded # {}
  BY PaymentSettles
<1>2. Growing
  BY <1>1 DEF Growing, Known, Queueable
<1>3. (\A t \in Sub : SubLife(t))'
  BY <1>1 DEF LifeInv, SubLife
<1>4. BlankPays'
  BY DEF LifeInv, BlankPays
<1>5. \A y \in Pay : pays'[y].sub \in {pays[y].sub, Null} \cup Known'
  BY DEF Known
<1>6. LifeInv'
  BY <1>2, <1>3, <1>4, <1>5, LifeStep
<1>7. PICK s \in Known \cup {Null} : s = pays'[z].sub
  OBVIOUS
<1>8. L!LifecycleNext \/ UNCHANGED Refined
  BY <1>1, <1>7, SettleRefines
<1> QED
  BY <1>2, <1>6, <1>8 DEF Lives

\* A handler changes one subscription it holds.
LEMMA LifeChange ==
    ASSUME TypeOK, TypeOK', LifeInv, NEW p \in Slot, NEW x, Goto(p, x), SlotLife(x),
           NEW s \in Sub, Change(s), UNCHANGED pays
    PROVE  Lives
<1>1. /\ Growing
      /\ (\A t \in Sub : SubLife(t))'
      /\ L!LifecycleNext \/ UNCHANGED Refined
  BY ChangeLives DEF LifeInv
<1>2. SlotLife(x)'
  BY <1>1, SlotKeeps
<1>3. BlankPays'
  BY DEF LifeInv, BlankPays
<1>4. LifeInv'
  BY <1>1, <1>2, <1>3, LifeStep
<1> QED
  BY <1>1, <1>4 DEF Lives

LEMMA LoopLives ==
    /\ \A list \in Seq(Known) : SlotLife(ExpireOrReady(list))
    /\ \A list \in Seq(Queueable) : SlotLife(CheckOrEnd(list))
    /\ SlotLife(Idle)
  BY DEF SlotLife, ExpireOrReady, CheckOrEnd, Idle, Confirming

\* The update that promotes a queued subscription.
LEMMA ActivateMoves ==
    ASSUME TypeOK, NEW s \in Queueable, subs' = Activate(s),
           UNCHANGED <<pays, invoices, intents>>
    PROVE  Change(s)
<1>1. s \in Sub /\ subs[s].previous # Null /\ s \in Known
  BY DEF Queueable, Known
<1>2. subs \in [Sub -> SubDoc]
  BY DEF TypeOK, StoreTypeOK
<1>3. /\ \A t \in Sub \ {s} : subs'[t] = subs[t]
      /\ subs'[s].status = "active"
      /\ subs'[s].previous = subs[s].previous
  BY <1>1, <1>2 DEF Activate, SubDoc
<1> QED
  BY <1>1, <1>3 DEF Change, Moves

LEMMA LifeProcess ==
    ASSUME TypeOK, TypeOK', LifeInv, NEW p \in Slot, ProcessStep(p)
    PROVE  Lives
<1> DEFINE r == req[p]
<1>t. r \in Activity /\ subs \in [Sub -> SubDoc]
  BY DEF TypeOK, StoreTypeOK
<1>l. SlotLife(r)
  BY DEF LifeInv
<1>q. /\ \A c : QueuedByCompany(c) \subseteq Seq(Queueable)
      /\ ReadyToActivate \subseteq Seq(Queueable)
      /\ Expired \subseteq Seq(Known)
  BY QueryLives DEF LifeInv
<1>r. ASSUME NEW x, Goto(p, x), SlotLife(x), UNCHANGED <<dbVars, intents>>
      PROVE  Lives
  BY <1>r, LifeReads DEF dbVars
<1>1. CASE ProcessStart(p)
  BY <1>1, <1>q, <1>r, LoopLives DEF ProcessStart
<1>2. CASE ExpireNext(p)
  <2>1. r.expired \in NonEmpty(Sub) /\ r.expired \in Seq(Known)
    BY <1>2, <1>t, <1>l, QueueLocals DEF ExpireNext, At, SlotLife
  <2>2. Head(r.expired) \in Known /\ Tail(r.expired) \in Seq(Known)
    BY <2>1, HeadAndTail DEF NonEmpty
  <2>3. PICK s : s = Head(r.expired)
    OBVIOUS
  <2>4. s \in Known /\ s \in Sub
    BY <2>2, <2>3 DEF Known
  <2>5. /\ subs' = [subs EXCEPT ![s].status = "expired"]
        /\ UNCHANGED <<pays, invoices, intents>>
    BY <1>2, <2>3 DEF ExpireNext
  <2>6. /\ \A t \in Sub \ {s} : subs'[t] = subs[t]
        /\ subs'[s].status = "expired"
        /\ subs'[s].previous = subs[s].previous
        /\ subs'[s].isQueued = subs[s].isQueued
    BY <1>t, <2>4, <2>5 DEF SubDoc
  <2>7. Change(s)
    BY <2>4, <2>5, <2>6 DEF Change, Moves, LifeInv, SubLife
  <2>8. PICK c : Goto(p, [at |-> "promoteFind", expired |-> Tail(r.expired), company |-> c])
    BY <1>2 DEF ExpireNext
  <2>9. SlotLife([at |-> "promoteFind", expired |-> Tail(r.expired), company |-> c])
    BY <2>2 DEF SlotLife, Confirming
  <2> QED
    BY <2>4, <2>5, <2>7, <2>8, <2>9, LifeChange
<1>3. CASE PromoteFind(p)
  <2>1. r.expired \in Seq(Known)
    BY <1>3, <1>l DEF PromoteFind, At, SlotLife
  <2>2. PICK q \in Seq(Queueable) :
          Goto(p, IF q = <<>>
                  THEN ExpireOrReady(r.expired)
                  ELSE [at |-> "promote", expired |-> r.expired, queue |-> q])
    BY <1>3, <1>q DEF PromoteFind
  <2>3. SlotLife([at |-> "promote", expired |-> r.expired, queue |-> q])
    BY <2>1 DEF SlotLife, Confirming
  <2>4. SlotLife(ExpireOrReady(r.expired))
    BY <2>1, LoopLives
  <2>5. PICK x : Goto(p, x) /\ SlotLife(x)
    BY <2>2, <2>3, <2>4
  <2> QED
    BY <1>3, <1>r, <2>5 DEF PromoteFind
<1>4. CASE Promote(p)
  <2>1. /\ r.queue \in NonEmpty(Sub) /\ r.queue \in Seq(Queueable)
        /\ r.expired \in Seq(Known)
    BY <1>4, <1>t, <1>l, QueueLocals DEF Promote, At, SlotLife
  <2>2. Head(r.queue) \in Queueable
    BY <2>1, HeadAndTail DEF NonEmpty
  <2>3. PICK s \in Queueable : s = Head(r.queue)
    BY <2>2
  <2>4. subs' = Activate(s) /\ UNCHANGED <<pays, invoices, intents>>
    BY <1>4, <2>3 DEF Promote
  <2>5. Change(s) /\ s \in Sub
    BY <2>3, <2>4, ActivateMoves DEF Queueable, Known
  <2>6. SlotLife([at |-> "renumber", expired |-> r.expired,
                  queue |-> Tail(r.queue), position |-> 1])
    BY <2>1 DEF SlotLife, Confirming
  <2>7. SlotLife(ExpireOrReady(r.expired))
    BY <2>1, LoopLives
  <2>8. PICK x : Goto(p, x) /\ SlotLife(x)
    BY <1>4, <2>6, <2>7 DEF Promote
  <2> QED
    BY <2>4, <2>5, <2>8, LifeChange
<1>5. CASE Renumber(p)
  <2>1. /\ r.queue \in NonEmpty(Sub) /\ r.expired \in Seq(Known)
        /\ r \in [at: {"renumber"}, expired: Seq(Sub),
                  queue: NonEmpty(Sub), position: Nat]
    BY <1>5, <1>t, <1>l, QueueLocals DEF Renumber, At, SlotLife
  <2>2. PICK s : s = Head(r.queue)
    OBVIOUS
  <2>3. s \in Sub
    BY <2>1, <2>2, HeadAndTail
  <2>4. /\ subs' = [subs EXCEPT ![s].queuePosition = r.position]
        /\ UNCHANGED <<pays, invoices, intents>>
    BY <1>5, <2>2 DEF Renumber
  <2>5. /\ \A t \in Sub \ {s} : subs'[t] = subs[t]
        /\ subs'[s].status = subs[s].status
        /\ subs'[s].previous = subs[s].previous
        /\ subs'[s].isQueued = subs[s].isQueued
    BY <1>t, <2>3, <2>4 DEF SubDoc
  <2>6. SlotLife(ExpireOrReady(r.expired))
    BY <2>1, LoopLives
  <2> DEFINE y == [r EXCEPT !.queue = Tail(@), !.position = @ + 1]
  <2>7. y.at = "renumber" /\ y.expired = r.expired
    BY <2>1
  <2>8. SlotLife(y)
    BY <2>1, <2>7 DEF SlotLife, Confirming
  <2>9. PICK x : Goto(p, x) /\ SlotLife(x)
    <3> HIDE DEF y
    <3>1. Goto(p, IF Len(r.queue) = 1 THEN ExpireOrReady(r.expired) ELSE y)
      BY <1>5 DEF Renumber, y
    <3> QED
      BY <2>6, <2>8, <3>1
  <2>10. CASE s \in Known
    <3>1. subs[s].previous = Null => ~subs[s].isQueued
      BY <2>3 DEF LifeInv, SubLife
    <3>2. Moves(s)
      BY <2>5, <2>10, <3>1 DEF Moves
    <3>3. Change(s)
      BY <2>4, <2>5, <3>2 DEF Change
    <3> QED
      BY <2>3, <2>4, <2>9, <3>3, LifeChange
  <2>11. CASE s \notin Known
    <3>1. \A t \in Sub : /\ subs'[t].status = subs[t].status
                         /\ subs'[t].previous = subs[t].previous
                         /\ subs'[t].isQueued = subs[t].isQueued
      BY <2>5
    <3>2. Known' = Known /\ Queueable' = Queueable
      BY <3>1 DEF Known, Queueable
    <3>3. Growing
      BY <2>4, <3>2 DEF Growing, Settled, Succeeded
    <3>4. SlotLife(x)'
      BY <2>9, <3>3, SlotKeeps
    <3>5. (\A t \in Sub : SubLife(t))'
      BY <2>4, <3>1 DEF LifeInv, SubLife, Settled, Succeeded
    <3>6. BlankPays'
      BY <2>4 DEF LifeInv, BlankPays
    <3>8. LifeInv'
      BY <2>4, <2>9, <3>3, <3>4, <3>5, <3>6, LifeStep
    <3>7. UNCHANGED Refined
      BY <2>4, <3>1 DEF Refined, Settled, Succeeded
    <3> QED
      BY <3>3, <3>7, <3>8 DEF Lives
  <2> QED
    BY <2>10, <2>11
<1>6. CASE ReadyFind(p)
  BY <1>6, <1>q, <1>r, LoopLives DEF ReadyFind
<1>7. CASE ReadyCheck(p)
  <2>1. /\ r.ready \in NonEmpty(Sub) /\ r.ready \in Seq(Queueable)
        /\ r \in [at: {"readyCheck", "readyActivate"}, ready: NonEmpty(Sub)]
    BY <1>7, <1>t, <1>l, QueueLocals DEF ReadyCheck, At, SlotLife
  <2>2. Tail(r.ready) \in Seq(Queueable)
    BY <2>1, HeadAndTail DEF NonEmpty
  <2>3. SlotLife(CheckOrEnd(Tail(r.ready)))
    BY <2>2, LoopLives
  <2> DEFINE y == [r EXCEPT !.at = "readyActivate"]
  <2>4. y.at = "readyActivate" /\ y.ready = r.ready
    BY <2>1
  <2>5. SlotLife(y)
    BY <2>1, <2>4 DEF SlotLife, Confirming
  <2>6. PICK x : Goto(p, x) /\ SlotLife(x)
    <3> HIDE DEF y
    <3>1. \/ Goto(p, y)
          \/ Goto(p, CheckOrEnd(Tail(r.ready)))
      BY <1>7 DEF ReadyCheck, y
    <3> QED
      BY <2>3, <2>5, <3>1
  <2> QED
    BY <1>7, <1>r, <2>6 DEF ReadyCheck
<1>8. CASE ReadyActivate(p)
  <2>1. r.ready \in NonEmpty(Sub) /\ r.ready \in Seq(Queueable)
    BY <1>8, <1>t, <1>l, QueueLocals DEF ReadyActivate, At, SlotLife
  <2>2. Head(r.ready) \in Queueable /\ Tail(r.ready) \in Seq(Queueable)
    BY <2>1, HeadAndTail DEF NonEmpty
  <2>3. PICK s \in Queueable : s = Head(r.ready)
    BY <2>2
  <2>4. subs' = Activate(s) /\ UNCHANGED <<pays, invoices, intents>>
    BY <1>8, <2>3 DEF ReadyActivate
  <2>5. Change(s) /\ s \in Sub
    BY <2>3, <2>4, ActivateMoves DEF Queueable, Known
  <2>6. PICK x : Goto(p, x) /\ SlotLife(x)
    BY <1>8, <2>2, LoopLives DEF ReadyActivate
  <2> QED
    BY <2>4, <2>5, <2>6, LifeChange
<1> QED
  BY <1>1, <1>2, <1>3, <1>4, <1>5, <1>6, <1>7, <1>8 DEF ProcessStep

LEMMA LifeCancel ==
    ASSUME TypeOK, TypeOK', LifeInv, NEW p \in Slot, CancelStep(p)
    PROVE  Lives
<1> DEFINE r == req[p]
           Held == [id: Queueable, endDate: Nat]
<1>t. r \in Activity /\ subs \in [Sub -> SubDoc]
  BY DEF TypeOK, StoreTypeOK
<1>n. Null \notin Sub
  BY StoreAssumption
<1>l. SlotLife(r)
  BY DEF LifeInv
<1>q. /\ \A c : QueuedByCompany(c) \subseteq Seq(Queueable)
      /\ \A c : ActiveByCompany(c) \subseteq Known
  BY QueryLives DEF LifeInv
<1>r. ASSUME NEW x, Goto(p, x), SlotLife(x), UNCHANGED <<dbVars, intents>>
      PROVE  Lives
  BY <1>r, LifeReads DEF dbVars
<1>h. ASSUME r.at \in {"cancelPromote", "cancelReread", "cancelReorder"}
      PROVE  /\ r.queue \in NonEmpty(Snapshot) /\ r.queue \in Seq(Held)
             /\ Head(r.queue) \in Held /\ Tail(r.queue) \in Seq(Held)
             /\ Head(r.queue).id \in Queueable
  <2>1. r.queue \in NonEmpty(Snapshot) /\ r.queue \in Seq(Held)
    BY <1>h, <1>t, <1>l, QueueLocals DEF SlotLife
  <2>2. r.queue \in NonEmpty(Held)
    BY <2>1 DEF NonEmpty
  <2>3. Head(r.queue) \in Held /\ Tail(r.queue) \in Seq(Held)
    BY <2>2, HeadAndTail
  <2> QED
    BY <2>1, <2>3
<1>1. CASE CancelStart(p)
  <2>1. PICK s \in Known : \E c \in Company :
            Goto(p, [at |-> "cancelWrite", company |-> c, sub |-> s])
    BY <1>1, <1>q DEF CancelStart
  <2>2. \A c : SlotLife([at |-> "cancelWrite", company |-> c, sub |-> s])
    BY DEF SlotLife, Confirming
  <2> QED
    BY <1>1, <1>r, <2>1, <2>2 DEF CancelStart
<1>2. CASE CancelWrite(p)
  <2>1. PICK s \in Known : s = r.sub
    BY <1>2, <1>l DEF CancelWrite, At, SlotLife
  <2>2. s \in Sub
    BY DEF Known
  <2>3. /\ subs' = [subs EXCEPT ![s].status = "cancelled", ![s].cancelledAt = TRUE]
        /\ UNCHANGED <<pays, invoices, intents>>
    BY <1>2, <2>1 DEF CancelWrite
  <2>4. /\ \A t \in Sub \ {s} : subs'[t] = subs[t]
        /\ subs'[s].status = "cancelled"
        /\ subs'[s].previous = subs[s].previous
        /\ subs'[s].isQueued = subs[s].isQueued
    BY <1>t, <2>2, <2>3 DEF SubDoc
  <2>5. Change(s)
    BY <2>2, <2>3, <2>4 DEF Change, Moves, LifeInv, SubLife
  <2>6. PICK x : Goto(p, x) /\ x.at = "cancelQueue"
    BY <1>2 DEF CancelWrite
  <2>7. SlotLife(x)
    BY <2>6 DEF SlotLife, Confirming
  <2> QED
    BY <2>2, <2>3, <2>5, <2>6, <2>7, LifeChange
<1>3. CASE CancelQueue(p)
  <2>1. PICK q \in Seq(Queueable) :
          Goto(p, IF q = <<>>
                  THEN Idle
                  ELSE [at |-> "cancelPromote",
                        queue |-> [k \in 1..Len(q) |->
                            [id |-> q[k], endDate |-> subs[q[k]].endDate]]])
    BY <1>3, <1>q DEF CancelQueue
  <2> DEFINE w == [k \in 1..Len(q) |-> [id |-> q[k], endDate |-> subs[q[k]].endDate]]
  <2>2. w \in [1..Len(q) -> Held]
    <3>1. \A k \in 1..Len(q) : q[k] \in Queueable
      OBVIOUS
    <3>2. \A s \in Queueable : subs[s].endDate \in Nat
      BY <1>t DEF SubDoc, Queueable, Known
    <3> QED
      BY <3>1, <3>2
  <2>3. w \in Seq(Held)
    BY <2>2, IsASeq
  <2> HIDE DEF w, Held
  <2>4. SlotLife([at |-> "cancelPromote", queue |-> w])
    BY <2>3 DEF SlotLife, Confirming, Held
  <2>5. Goto(p, IF q = <<>> THEN Idle ELSE [at |-> "cancelPromote", queue |-> w])
    BY <2>1 DEF w
  <2>6. PICK x : Goto(p, x) /\ SlotLife(x)
    BY <2>4, <2>5, LoopLives
  <2> QED
    BY <1>3, <1>r, <2>6 DEF CancelQueue
<1>4. CASE CancelPromote(p)
  <2>1. r.at = "cancelPromote"
    BY <1>4 DEF CancelPromote, At
  <2>2. PICK s \in Queueable : s = Head(r.queue).id
    BY <1>h, <2>1
  <2>3. s \in Sub /\ s \in Known /\ subs[s].previous # Null
    BY DEF Queueable, Known
  <2>4. PICK d : /\ subs' = [subs EXCEPT ![s] = [@ EXCEPT
                               !.status = "active", !.isQueued = FALSE,
                               !.queuePosition = 0, !.startDate = now,
                               !.endDate = d, !.scheduledStart = now]]
                 /\ UNCHANGED <<pays, invoices, intents>>
    BY <1>4, <2>2 DEF CancelPromote
  <2>5. /\ \A t \in Sub \ {s} : subs'[t] = subs[t]
        /\ subs'[s].status = "active"
        /\ subs'[s].previous = subs[s].previous
    BY <1>t, <2>3, <2>4 DEF SubDoc
  <2>6. Change(s)
    BY <2>3, <2>4, <2>5 DEF Change, Moves
  <2>7. SlotLife([at |-> "cancelReread", queue |-> Tail(r.queue), previous |-> s])
    BY <1>h, <2>1 DEF SlotLife, Confirming
  <2>8. PICK x : Goto(p, x) /\ SlotLife(x)
    BY <1>4, <2>2, <2>7, LoopLives DEF CancelPromote
  <2> QED
    BY <2>3, <2>4, <2>6, <2>8, LifeChange
<1>5. CASE CancelReread(p)
  <2>1. r.at = "cancelReread"
    BY <1>5 DEF CancelReread, At
  <2>2. PICK f : Goto(p, [at |-> "cancelReorder", queue |-> r.queue,
                          previous |-> r.previous, from |-> f, position |-> 1])
    BY <1>5 DEF CancelReread
  <2>3. SlotLife([at |-> "cancelReorder", queue |-> r.queue,
                  previous |-> r.previous, from |-> f, position |-> 1])
    BY <1>h, <2>1 DEF SlotLife, Confirming
  <2> QED
    BY <1>5, <1>r, <2>2, <2>3 DEF CancelReread
<1>6. CASE CancelReorder(p)
  <2>1. r.at = "cancelReorder" /\ r.previous \in Sub
    BY <1>6, <1>t, QueueLocals DEF CancelReorder, At
  <2>2. PICK s \in Queueable : s = Head(r.queue).id
    BY <1>h, <2>1
  <2>3. s \in Sub /\ s \in Known /\ subs[s].previous # Null
    BY DEF Queueable, Known
  <2>4. PICK f : /\ subs' = [subs EXCEPT ![s] = [@ EXCEPT
                               !.queuePosition = r.position,
                               !.scheduledStart = f,
                               !.previous = r.previous]]
                 /\ UNCHANGED <<pays, invoices, intents>>
    BY <1>6, <2>2 DEF CancelReorder
  <2>5. /\ \A t \in Sub \ {s} : subs'[t] = subs[t]
        /\ subs'[s].status = subs[s].status
        /\ subs'[s].previous = r.previous
    BY <1>t, <2>3, <2>4 DEF SubDoc
  <2>6. Change(s)
    BY <1>n, <2>1, <2>3, <2>4, <2>5 DEF Change, Moves
  <2>7. PICK x : Goto(p, x) /\ SlotLife(x)
    <3>1. ASSUME NEW e, NEW n
          PROVE  SlotLife([at |-> "cancelReorder", queue |-> Tail(r.queue),
                           previous |-> e.id, from |-> e.endDate, position |-> n])
      BY <1>h, <2>1 DEF SlotLife, Confirming
    <3> QED
      BY <1>6, <3>1, LoopLives DEF CancelReorder
  <2> QED
    BY <2>3, <2>4, <2>6, <2>7, LifeChange
<1> QED
  BY <1>1, <1>2, <1>3, <1>4, <1>5, <1>6 DEF CancelStep

-----------------------------------------------------------------------------
(***************************************************************************)
(* The lives of subscriptions, continued: checkout, add-ons and charges.   *)
(***************************************************************************)

\* Asking Stripe for a fresh intent charges nobody, and a fresh payment
\* carries no answer of Stripe's.
LEMMA FreshIntents ==
    ASSUME TypeOK, NEW i \in FreshIntent, intents' = [intents EXCEPT ![i] = "open"]
    PROVE  Succeeded' = Succeeded
<1>1. i \in Intent /\ intents[i] = "none"
  BY DEF FreshIntent, Least
<1>2. intents \in [Intent -> {"none", "open", "succeeded"}]
  BY DEF TypeOK, StoreTypeOK
<1> QED
  BY <1>1, <1>2 DEF Succeeded

LEMMA FreshPays ==
    ASSUME LifeInv, NEW y \in FreshPay
    PROVE  y \in Pay /\ pays[y].gatewayResponse \notin Succeeded
<1>1. y \in Pay /\ pays[y].status = "none"
  BY DEF FreshPay, Least
<1>2. pays[y].gatewayResponse = Null
  BY <1>1 DEF LifeInv, BlankPays
<1>3. Null \notin Intent
  BY StoreAssumption
<1> QED
  BY <1>1, <1>2, <1>3 DEF Succeeded

LEMMA LifeCreate ==
    ASSUME TypeOK, TypeOK', BooksInv, LifeInv, NEW p \in Slot,
           \/ CreateStart(p) \/ CreatePayment(p) \/ CreateQueue(p)
           \/ CreateSub(p) \/ CreateLink(p)
    PROVE  Lives
<1> DEFINE r == req[p]
<1>t. /\ r \in Activity
      /\ subs \in [Sub -> SubDoc] /\ subs' \in [Sub -> SubDoc]
      /\ pays \in [Pay -> PayDoc]
  BY DEF TypeOK, StoreTypeOK
<1>n. Null \notin Sub
  BY StoreAssumption
<1>l. SlotLife(r)
  BY DEF LifeInv
<1>r. ASSUME NEW x, Goto(p, x), x.at \in {"createPayment", "createSub"},
             UNCHANGED <<dbVars, intents>>
      PROVE  Lives
  <2>1. SlotLife(x)
    BY <1>r DEF SlotLife, Confirming
  <2> QED
    BY <1>r, <2>1, LifeReads DEF dbVars
<1>1. CASE CreateStart(p)
  BY <1>1, <1>r DEF CreateStart
<1>2. CASE CreatePayment(p)
  <2>1. PICK i \in FreshIntent, y \in FreshPay :
          /\ intents' = [intents EXCEPT ![i] = "open"]
          /\ pays' = [pays EXCEPT ![y] = [status |-> "pending", type |-> "plan",
                                          sub |-> Null, intent |-> i,
                                          gatewayResponse |-> Null]]
    BY <1>2 DEF CreatePayment
  <2>2. UNCHANGED <<subs, invoices>>
    BY <1>2 DEF CreatePayment
  <2>3. PICK x : Goto(p, x) /\ x.at \in {"createSub", "createQueue"}
    BY <1>2 DEF CreatePayment
  <2>4. SlotLife(x)'
    BY <2>3 DEF SlotLife, Confirming
  <2>5. Succeeded' = Succeeded
    BY <2>1, FreshIntents
  <2>6. y \in Pay /\ pays[y].gatewayResponse \notin Succeeded
    BY FreshPays
  <2>7. /\ \A z \in Pay \ {y} : pays'[z] = pays[z]
        /\ pays'[y].status = "pending" /\ pays'[y].sub = Null
    BY <1>t, <2>1, <2>6
  <2> QED
    BY <2>2, <2>3, <2>4, <2>5, <2>6, <2>7, LifePays
<1>3. CASE CreateQueue(p)
  BY <1>3, <1>r DEF CreateQueue
<1>4. CASE CreateSub(p)
  <2>1. r.active \in Sub \cup {Null}
    BY <1>4, <1>t, CheckoutLocals DEF CreateSub, At
  <2>2. PICK s, start, d :
          /\ s \in FreshSub
          /\ subs' = [subs EXCEPT ![s] =
                [company |-> r.company,
                 status |-> IF r.active # Null THEN "queued" ELSE "pending",
                 isQueued |-> r.active # Null, queuePosition |-> r.position,
                 startDate |-> start, endDate |-> start + d,
                 scheduledStart |-> IF r.active # Null THEN start ELSE 0,
                 duration |-> d, previous |-> r.active,
                 cancelledAt |-> FALSE, paymentId |-> r.pay]]
          /\ Goto(p, [at |-> "createLink", sub |-> s, pay |-> r.pay, intent |-> r.intent])
    BY <1>4 DEF CreateSub
  <2>3. UNCHANGED <<pays, invoices, intents>>
    BY <1>4 DEF CreateSub
  <2>4. s \in Sub /\ subs[s].status = "none"
    BY <2>2 DEF FreshSub, Least
  <2>5. /\ \A t \in Sub \ {s} : subs'[t] = subs[t]
        /\ subs'[s].status = IF r.active # Null THEN "queued" ELSE "pending"
        /\ subs'[s].previous = r.active
        /\ subs'[s].isQueued <=> r.active # Null
    BY <1>t, <2>2, <2>4
  <2>6. Change(s)
    BY <1>n, <2>1, <2>3, <2>4, <2>5 DEF Change, Opens, Queues
  <2>7. /\ Growing
        /\ (\A t \in Sub : SubLife(t))'
        /\ L!LifecycleNext \/ UNCHANGED Refined
    BY <2>4, <2>6, ChangeLives DEF LifeInv
  <2>8. s \in Known'
    BY <2>4, <2>5 DEF Known
  <2>9. PICK x : Goto(p, x) /\ x.at = "createLink" /\ x.sub = s
    BY <2>2
  <2>10. SlotLife(x)'
    BY <2>8, <2>9 DEF SlotLife, Confirming
  <2>11. BlankPays'
    BY <2>3 DEF LifeInv, BlankPays
  <2>12. LifeInv'
    BY <2>3, <2>7, <2>9, <2>10, <2>11, LifeStep
  <2> QED
    BY <2>7, <2>12 DEF Lives
<1>5. CASE CreateLink(p)
  <2>1. /\ r.sub \in Known /\ r.pay \in Pay
        /\ pays[r.pay].sub = Null
    BY <1>5, <1>t, <1>l, CheckoutLocals
    DEF CreateLink, At, SlotLife, BooksInv, SlotBooks, Unlinked
  <2>2. /\ pays' = [pays EXCEPT ![r.pay].status = "pending", ![r.pay].sub = r.sub]
        /\ Goto(p, Idle)
        /\ UNCHANGED <<subs, invoices, intents>>
    BY <1>5 DEF CreateLink, Done
  <2>3. /\ \A z \in Pay \ {r.pay} : pays'[z] = pays[z]
        /\ pays'[r.pay].status = "pending" /\ pays'[r.pay].sub = r.sub
    BY <1>t, <2>1, <2>2 DEF PayDoc
  <2>4. Succeeded' = Succeeded
    BY <2>2 DEF Succeeded
  <2>5. SlotLife(Idle)'
    BY DEF SlotLife, Idle, Confirming
  <2> HIDE DEF r
  <2> QED
    BY <1>n, <2>1, <2>2, <2>3, <2>4, <2>5, LifePays
<1> QED
  BY <1>1, <1>2, <1>3, <1>4, <1>5

\* What a confirm request holds carries over when only its label changes.
LEMMA ConfirmRelabel ==
    ASSUME NEW r \in Activity, r.at \in Confirming, SlotLife(r), NEW l \in Confirming,
           l = "confirmStatus" => r.sub \in Settled
    PROVE  SlotLife([r EXCEPT !.at = l])
<1>1. r \in [at: {"confirmInvoice", "confirmComplete", "confirmStatus"},
             sub: Sub, intent: Intent, queued: BOOLEAN, pay: Pay]
  BY CheckoutLocals DEF Confirming
<1>2. PICK x : x = [r EXCEPT !.at = l]
  OBVIOUS
<1>3. x.at = l /\ x.sub = r.sub /\ x.intent = r.intent /\ x.queued = r.queued
  BY <1>1, <1>2
<1>4. SlotLife(x)
  BY <1>3 DEF SlotLife, Confirming
<1> QED
  BY <1>2, <1>4

LEMMA LifeConfirm ==
    ASSUME TypeOK, TypeOK', ChargeInv, BooksInv, LifeInv, NEW p \in Slot,
           \/ ConfirmStart(p) \/ ConfirmFind(p) \/ ConfirmInvoice(p)
           \/ ConfirmComplete(p) \/ ConfirmStatus(p)
           \/ RetryStart(p) \/ RetryFind(p) \/ RetryIssue(p)
    PROVE  Lives
<1> DEFINE r == req[p]
<1>t. /\ r \in Activity
      /\ subs \in [Sub -> SubDoc]
      /\ pays \in [Pay -> PayDoc]
  BY DEF TypeOK, StoreTypeOK
<1>n. Null \notin Sub /\ Null \notin Intent
  BY StoreAssumption
<1>l. SlotLife(r)
  BY DEF LifeInv
<1>r. ASSUME NEW x, Goto(p, x), SlotLife(x), UNCHANGED <<dbVars, intents>>
      PROVE  Lives
  BY <1>r, LifeReads DEF dbVars
<1>1. CASE ConfirmStart(p)
  <2>1. PICK s \in Sub, i \in Succeeded :
          /\ Exists(s)
          /\ Goto(p, [at |-> "confirmFind", sub |-> s, intent |-> i,
                      queued |-> subs[s].isQueued])
    BY <1>1 DEF ConfirmStart
  <2>2. s \in Known
    BY <2>1 DEF Exists, Known
  <2>3. PICK b : b = subs[s].isQueued
    OBVIOUS
  <2>4. Goto(p, [at |-> "confirmFind", sub |-> s, intent |-> i, queued |-> b])
    BY <2>1, <2>3
  <2>5. b => s \in Queueable
    BY <2>2, <2>3 DEF LifeInv, SubLife, Queueable
  <2>6. SlotLife([at |-> "confirmFind", sub |-> s, intent |-> i, queued |-> b])
    BY <2>2, <2>5 DEF SlotLife, Confirming
  <2>7. UNCHANGED <<dbVars, intents>>
    BY <1>1 DEF ConfirmStart
  <2> QED
    BY <1>r, <2>4, <2>6, <2>7
<1>2. CASE ConfirmFind(p)
  <2>1. UNCHANGED <<dbVars, intents>> /\ r.at = "confirmFind"
    BY <1>2 DEF ConfirmFind, At
  <2>2. PICK y : \/ Done(p)
                 \/ Goto(p, [at |-> "confirmInvoice", sub |-> r.sub,
                             intent |-> r.intent, queued |-> r.queued, pay |-> y])
    BY <1>2 DEF ConfirmFind
  <2>3. SlotLife([at |-> "confirmInvoice", sub |-> r.sub,
                  intent |-> r.intent, queued |-> r.queued, pay |-> y])
    BY <1>l, <2>1 DEF SlotLife, Confirming
  <2> QED
    BY <1>r, <2>1, <2>2, <2>3, LoopLives DEF Done
<1>3. CASE ConfirmInvoice(p)
  <2>1. /\ UNCHANGED <<subs, pays, intents>>
        /\ invoices \subseteq invoices'
        /\ r.at \in Confirming
    BY <1>3 DEF ConfirmInvoice, At, Confirming
  <2>2. SlotLife([r EXCEPT !.at = "confirmComplete"])
    BY <1>t, <1>l, <2>1, ConfirmRelabel DEF Confirming
  <2>3. PICK x : Goto(p, x) /\ SlotLife(x)
    BY <1>3, <2>2, LoopLives DEF ConfirmInvoice, Done
  <2> QED
    BY <2>1, <2>3, LifeReads
<1>4. CASE ConfirmComplete(p)
  <2>1. /\ UNCHANGED <<subs, invoices, intents>>
        /\ r.at = "confirmComplete"
        /\ pays' = [pays EXCEPT ![r.pay].status = "completed",
                                ![r.pay].intent = r.intent,
                                ![r.pay].gatewayResponse = r.intent]
        /\ Goto(p, [r EXCEPT !.at = "confirmStatus"])
    BY <1>4 DEF ConfirmComplete, At
  <2>2. /\ r.pay \in Pay /\ r.intent \in Intent
        /\ r \in [at: {"confirmInvoice", "confirmComplete", "confirmStatus"},
                  sub: Sub, intent: Intent, queued: BOOLEAN, pay: Pay]
    BY <1>t, <2>1, CheckoutLocals
  <2>3. r.sub \in Known /\ r.sub \in Sub /\ (r.queued => r.sub \in Queueable)
    BY <1>l, <2>1, <2>2 DEF SlotLife, Confirming
  <2>4. pays[r.pay].sub = r.sub
    BY <2>1 DEF BooksInv, SlotBooks, Confirming
  <2>5. r.intent \in Succeeded
    BY <2>1, <2>2 DEF ChargeInv, ChargedSlots, Vouched, Confirming, Succeeded
  <2>6. /\ \A z \in Pay \ {r.pay} : pays'[z] = pays[z]
        /\ pays'[r.pay].status = "completed" /\ pays'[r.pay].sub = r.sub
        /\ pays'[r.pay].gatewayResponse = r.intent
    BY <1>t, <2>1, <2>2, <2>4 DEF PayDoc
  <2>7. Succeeded' = Succeeded
    BY <2>1 DEF Succeeded
  <2>8. r.sub \in Settled'
    BY <2>2, <2>3, <2>5, <2>6, <2>7 DEF Settled
  <2>9. PICK x : x = [r EXCEPT !.at = "confirmStatus"]
    OBVIOUS
  <2>10. x.at = "confirmStatus" /\ x.sub = r.sub /\ x.queued = r.queued
    BY <2>2, <2>9
  <2>11. r.sub \in Known' /\ (r.queued => r.sub \in Queueable')
    BY <2>1, <2>3 DEF Known, Queueable
  <2>12. SlotLife(x)'
    BY <2>8, <2>10, <2>11 DEF SlotLife, Confirming
  <2>13. Goto(p, x) /\ UNCHANGED <<subs, invoices>>
    BY <2>1, <2>9
  <2> HIDE DEF r
  <2> QED
    BY <2>2, <2>3, <2>4, <2>5, <2>6, <2>7, <2>12, <2>13, LifePays
<1>5. CASE ConfirmStatus(p)
  <2>1. /\ r.at = "confirmStatus"
        /\ r \in [at: {"confirmInvoice", "confirmComplete", "confirmStatus"},
                  sub: Sub, intent: Intent, queued: BOOLEAN, pay: Pay]
    BY <1>5, <1>t, CheckoutLocals DEF ConfirmStatus, At
  <2>2. PICK s \in Sub : s = r.sub
    BY <2>1
  <2>3. /\ s \in Known /\ s \in Settled
        /\ r.queued => s \in Queueable
    BY <1>l, <2>1, <2>2 DEF SlotLife, Confirming
  <2>7. s \in invoices
    BY <2>1, <2>2 DEF BooksInv, SlotBooks
  <2>8. /\ subs' = [subs EXCEPT ![s].status = IF r.queued THEN "queued" ELSE "active"]
        /\ UNCHANGED <<pays, invoices, intents>>
        /\ Goto(p, Idle)
    BY <1>5, <2>2 DEF ConfirmStatus, Done
  <2>9. /\ \A t \in Sub \ {s} : subs'[t] = subs[t]
        /\ subs'[s].status = IF r.queued THEN "queued" ELSE "active"
        /\ subs'[s].previous = subs[s].previous
        /\ subs'[s].isQueued = subs[s].isQueued
    BY <1>t, <2>8 DEF SubDoc
  <2>10. r.queued => subs[s].previous # Null
    BY <2>3 DEF Queueable
  <2>11. subs[s].previous = Null => ~subs[s].isQueued
    BY DEF LifeInv, SubLife
  <2>12. Moves(s)
    BY <2>3, <2>7, <2>9, <2>10, <2>11 DEF Moves
  <2>13. Change(s)
    BY <2>8, <2>9, <2>12 DEF Change
  <2> QED
    BY <2>8, <2>13, LoopLives, LifeChange
<1>6. CASE RetryStart(p)
  <2>1. PICK s \in Known : Goto(p, [at |-> "retryFind", sub |-> s])
    BY <1>6 DEF RetryStart, Known
  <2>2. SlotLife([at |-> "retryFind", sub |-> s])
    BY DEF SlotLife, Confirming
  <2> QED
    BY <1>6, <1>r, <2>1, <2>2 DEF RetryStart
<1>7. CASE RetryFind(p)
  <2>1. UNCHANGED <<dbVars, intents>> /\ r.at = "retryFind"
    BY <1>7 DEF RetryFind, At
  <2>2. PICK y : \/ Done(p)
                 \/ Goto(p, [at |-> "retryIssue", sub |-> r.sub, pay |-> y])
    BY <1>7 DEF RetryFind
  <2>3. SlotLife([at |-> "retryIssue", sub |-> r.sub, pay |-> y])
    BY <1>l, <2>1 DEF SlotLife, Confirming
  <2> QED
    BY <1>r, <2>1, <2>2, <2>3, LoopLives DEF Done
<1>8. CASE RetryIssue(p)
  <2>1. r.sub \in Known /\ r.pay \in Pay /\ pays[r.pay].sub = r.sub
    BY <1>8, <1>t, <1>l, CheckoutLocals DEF RetryIssue, At, SlotLife, BooksInv, SlotBooks
  <2>2. PICK i \in FreshIntent :
          /\ intents' = [intents EXCEPT ![i] = "open"]
          /\ pays' = [pays EXCEPT ![r.pay].status = "pending", ![r.pay].intent = i]
    BY <1>8 DEF RetryIssue
  <2>3. Goto(p, Idle) /\ UNCHANGED <<subs, invoices>>
    BY <1>8 DEF RetryIssue, Done
  <2>4. /\ \A z \in Pay \ {r.pay} : pays'[z] = pays[z]
        /\ pays'[r.pay].status = "pending" /\ pays'[r.pay].sub = r.sub
        /\ pays'[r.pay].gatewayResponse = pays[r.pay].gatewayResponse
    BY <1>t, <2>1, <2>2 DEF PayDoc
  <2>5. SlotLife(Idle)'
    BY DEF SlotLife, Idle, Confirming
  <2>6. Succeeded' = Succeeded
    BY <2>2, FreshIntents
  <2> HIDE DEF r
  <2> QED
    BY <2>1, <2>3, <2>4, <2>5, <2>6, LifePays
<1> QED
  BY <1>1, <1>2, <1>3, <1>4, <1>5, <1>6, <1>7, <1>8

LEMMA LifeAddon ==
    ASSUME TypeOK, TypeOK', ChargeInv, LifeInv, NEW p \in Slot, AddonStep(p)
    PROVE  Lives
<1> DEFINE r == req[p]
<1>t. r \in Activity /\ pays \in [Pay -> PayDoc]
  BY DEF TypeOK, StoreTypeOK
<1>l. SlotLife(r)
  BY DEF LifeInv
<1>r. ASSUME NEW x, Goto(p, x), x.at \in {"idle", "addonCredit", "addonComplete"},
             UNCHANGED <<subs, pays, invoices, intents>>
      PROVE  Lives
  <2>1. SlotLife(x)
    BY <1>r DEF SlotLife, Confirming
  <2> QED
    BY <1>r, <2>1, LifeReads
<1>1. CASE AddonStart(p)
  <2>1. PICK s \in Known : Goto(p, [at |-> "addonPayment", sub |-> s])
    BY <1>1, QueryLives DEF AddonStart, LifeInv
  <2>2. SlotLife([at |-> "addonPayment", sub |-> s])
    BY DEF SlotLife, Confirming
  <2> QED
    BY <1>1, <2>1, <2>2, LifeReads DEF AddonStart, dbVars
<1>2. CASE AddonPayment(p)
  <2>1. r.sub \in Known
    BY <1>2, <1>l DEF AddonPayment, At, SlotLife
  <2>2. PICK i \in FreshIntent, y \in FreshPay :
          /\ intents' = [intents EXCEPT ![i] = "open"]
          /\ pays' = [pays EXCEPT ![y] = [status |-> "pending", type |-> "addon",
                                          sub |-> r.sub, intent |-> i,
                                          gatewayResponse |-> Null]]
    BY <1>2 DEF AddonPayment
  <2>3. Goto(p, Idle) /\ UNCHANGED <<subs, invoices>>
    BY <1>2 DEF AddonPayment, Done
  <2>4. y \in Pay /\ pays[y].gatewayResponse \notin Succeeded
    BY FreshPays
  <2>5. SlotLife(Idle)'
    BY DEF SlotLife, Idle, Confirming
  <2>6. Succeeded' = Succeeded
    BY <2>2, FreshIntents
  <2>7. /\ \A z \in Pay \ {y} : pays'[z] = pays[z]
        /\ pays'[y].status = "pending" /\ pays'[y].sub = r.sub
    BY <1>t, <2>2, <2>4
  <2> HIDE DEF r
  <2> QED
    BY <2>1, <2>3, <2>4, <2>5, <2>6, <2>7, LifePays
<1>3. CASE AddonConfirm(p)
  BY <1>3, <1>r DEF AddonConfirm, dbVars
<1>4. CASE AddonCredit(p)
  <2>1. r.at \in Crediting
    BY <1>4 DEF AddonCredit, At, Crediting
  <2>2. [r EXCEPT !.at = "addonComplete"].at = "addonComplete"
    BY <1>t, <2>1, Relabel
  <2>3. PICK x : Goto(p, x) /\ x.at = "addonComplete"
    BY <1>4, <2>2 DEF AddonCredit
  <2> QED
    BY <1>4, <1>r, <2>3 DEF AddonCredit
<1>5. CASE AddonComplete(p)
  <2>1. /\ UNCHANGED <<subs, invoices, intents>>
        /\ r.at = "addonComplete"
        /\ pays' = [pays EXCEPT ![r.pay].status = "completed",
                                ![r.pay].intent = r.intent,
                                ![r.pay].gatewayResponse = r.intent]
        /\ Goto(p, Idle)
    BY <1>5 DEF AddonComplete, At, Done
  <2>2. r.pay \in Pay /\ r.intent \in Intent
    BY <1>t, <2>1, AddonLocals
  <2>3. r.intent \in Succeeded
    BY <2>1, <2>2 DEF ChargeInv, ChargedSlots, Vouched, Crediting, Succeeded
  <2>4. /\ \A z \in Pay \ {r.pay} : pays'[z] = pays[z]
        /\ pays'[r.pay].status = "completed" /\ pays'[r.pay].sub = pays[r.pay].sub
        /\ pays'[r.pay].gatewayResponse = r.intent
    BY <1>t, <2>1, <2>2 DEF PayDoc
  <2>5. pays[r.pay].sub \in Known \cup {Null}
    BY <2>2 DEF LifeInv
  <2>6. Succeeded' = Succeeded
    BY <2>1 DEF Succeeded
  <2>7. SlotLife(Idle)'
    BY DEF SlotLife, Idle, Confirming
  <2> HIDE DEF r
  <2> QED
    BY <2>1, <2>2, <2>3, <2>4, <2>5, <2>6, <2>7, LifePays
<1> QED
  BY <1>1, <1>2, <1>3, <1>4, <1>5 DEF AddonStep

LEMMA LifeStands ==
    ASSUME TypeOK, LifeInv, UNCHANGED <<subs, pays, invoices, intents, req>>
    PROVE  Lives
<1>1. /\ Settled' = Settled /\ Succeeded' = Succeeded
      /\ Known' = Known /\ Queueable' = Queueable
  BY DEF Settled, Succeeded, Known, Queueable
<1>2. Growing
  BY <1>1 DEF Growing
<1>3. (\A t \in Sub : SubLife(t))'
  BY <1>1 DEF LifeInv, SubLife
<1>4. ASSUME NEW p \in Slot PROVE SlotLife(req[p])'
  <2>1. SlotLife(req[p])
    BY DEF LifeInv
  <2> QED
    BY <1>1, <2>1 DEF SlotLife
<1>5. LifeInv'
  BY <1>1, <1>3, <1>4 DEF LifeInv, BlankPays
<1>6. UNCHANGED Refined
  BY <1>1 DEF Refined
<1> QED
  BY <1>2, <1>5, <1>6 DEF Lives

\* Stripe charges an intent: no payment is settled by that, because none
\* records an answer of Stripe's that Stripe did not give.
LEMMA LifeCharge ==
    ASSUME TypeOK, ChargeInv, LifeInv, Charge
    PROVE  Lives
<1>t. /\ intents \in [Intent -> {"none", "open", "succeeded"}]
      /\ issued \subseteq Intent
      /\ pays \in [Pay -> PayDoc]
  BY DEF TypeOK, StoreTypeOK
<1>1. PICK i \in Intent : intents' = [intents EXCEPT ![i] = "succeeded"]
  BY <1>t DEF Charge
<1>2. UNCHANGED <<subs, pays, invoices, req>>
  BY DEF Charge, dbVars
<1>3. Succeeded' = Succeeded \cup {i}
  BY <1>t, <1>1 DEF Succeeded
<1>4. \A y \in Pay : pays[y].gatewayResponse \in Succeeded'
                       => pays[y].gatewayResponse \in Succeeded
  <2>1. TAKE y \in Pay
  <2>2. HAVE pays[y].gatewayResponse \in Succeeded'
  <2>3. pays[y].gatewayResponse \in Intent /\ Null \notin Intent
    BY <2>2, StoreAssumption DEF Succeeded
  <2> QED
    BY <2>3 DEF ChargeInv, ResponsesHold, Succeeded
<1>5. Settled' = Settled
  BY <1>2, <1>3, <1>4 DEF Settled
<1>6. Known' = Known /\ Queueable' = Queueable /\ Growing
  BY <1>2, <1>5 DEF Growing, Known, Queueable
<1>7. (\A t \in Sub : SubLife(t))'
  BY <1>2, <1>5 DEF LifeInv, SubLife
<1>8. ASSUME NEW p \in Slot PROVE SlotLife(req[p])'
  <2>1. SlotLife(req[p])
    BY DEF LifeInv
  <2> QED
    BY <1>2, <1>5, <1>6, <2>1 DEF SlotLife
<1>9. LifeInv'
  BY <1>2, <1>6, <1>7, <1>8 DEF LifeInv, BlankPays
<1>10. L!Charge(i)
  BY <1>2, <1>3, <1>5 DEF L!Charge
<1> QED
  BY <1>6, <1>9, <1>10 DEF Lives, L!LifecycleNext

LEMMA LifeFails ==
    ASSUME TypeOK, LifeInv, NEW p \in Slot, HandlerFails(p)
    PROVE  Lives
<1>1. Goto(p, Idle) /\ UNCHANGED <<dbVars, intents>>
  BY DEF HandlerFails, Done
<1> QED
  BY <1>1, LoopLives, LifeReads DEF dbVars

LEMMA EveryStepLives ==
    ASSUME TypeOK, ChargeInv, BooksInv, LifeInv, [Next]_vars
    PROVE  Lives
<1>t. TypeOK'
  BY StepTypes
<1>1. CASE Tick \/ UNCHANGED vars
  BY <1>1, LifeStands DEF Tick, vars, dbVars
<1>2. CASE Charge
  BY <1>2, LifeCharge
<1>3. ASSUME NEW p \in Slot, Step(p)
      PROVE  Lives
  <2>1. CASE CheckoutStep(p)
    BY <1>t, <2>1, LifeCreate, LifeConfirm DEF CheckoutStep
  <2>2. CASE ProcessStep(p)
    BY <1>t, <2>2, LifeProcess
  <2>3. CASE CancelStep(p)
    BY <1>t, <2>3, LifeCancel
  <2>4. CASE AddonStep(p)
    BY <1>t, <2>4, LifeAddon
  <2> QED
    BY <1>3, <2>1, <2>2, <2>3, <2>4 DEF Step
<1>4. ASSUME NEW p \in Slot, HandlerFails(p)
      PROVE  Lives
  BY <1>4, LifeFails
<1> QED
  BY <1>1, <1>2, <1>3, <1>4 DEF Next

-----------------------------------------------------------------------------
(***************************************************************************)
(* Money is stranded only between the last two awaits of a confirm, or by  *)
(* a failure there: nothing else makes a subscription pending again, and   *)
(* nothing else completes a plan payment.                                  *)
(***************************************************************************)

LEMMA StrandStep ==
    ASSUME TypeOK, LifeInv, BooksInv, StrandedOnlyByFailure, Growing,
           NEW p \in Slot, NEW x, Goto(p, x),
           fails' = fails \/ fails' > 0,
           \A y \in Pay : pays'[y].status = "completed" /\ pays'[y].type = "plan" =>
               \/ pays'[y] = pays[y]
               \/ x.at = "confirmStatus" /\ x.sub = pays'[y].sub,
           At(p, "confirmStatus") =>
               subs'[req[p].sub].status # "pending" \/ fails' > 0
    PROVE  StrandedOnlyByFailure'
<1>t. req \in [Slot -> Activity]
  BY DEF TypeOK
<1>n. Null \notin Sub
  BY StoreAssumption
<1>1. SUFFICES ASSUME NEW y \in Pay,
                      pays'[y].status = "completed", pays'[y].type = "plan",
                      subs'[pays'[y].sub].status = "pending",
                      ~(fails' > 0)
               PROVE  \E q \in Slot : req'[q].at = "confirmStatus" /\ req'[q].sub = pays'[y].sub
  BY DEF StrandedOnlyByFailure, At
<1>2. CASE x.at = "confirmStatus" /\ x.sub = pays'[y].sub
  <2>1. req'[p] = x
    BY <1>t DEF Goto
  <2> QED
    BY <1>2, <2>1
<1>3. CASE pays'[y] = pays[y]
  <2>1. PICK s : s = pays[y].sub
    OBVIOUS
  <2>2. s \in Known
    <3>1. s \in Sub
      BY <1>1, <1>3, <2>1 DEF BooksInv, CompletedMeansInvoiced, TypeOK, StoreTypeOK
    <3> QED
      BY <1>n, <2>1, <3>1 DEF LifeInv
  <2>3. subs[s].status = "pending"
    BY <1>1, <1>3, <2>1, <2>2 DEF Growing
  <2>4. fails' = fails /\ ~(fails > 0)
    BY <1>1
  <2>5. PICK q \in Slot : req[q].at = "confirmStatus" /\ req[q].sub = s
    BY <1>1, <1>3, <2>1, <2>3, <2>4 DEF StrandedOnlyByFailure, At
  <2>6. q # p
    BY <1>1, <1>3, <2>1, <2>5 DEF At
  <2>7. req'[q] = req[q]
    BY <1>t, <2>6 DEF Goto
  <2> QED
    BY <1>3, <2>1, <2>5, <2>7
<1> QED
  BY <1>1, <1>2, <1>3

LEMMA StrandCheckout ==
    ASSUME TypeOK, LifeInv, BooksInv, StrandedOnlyByFailure, Growing,
           NEW p \in Slot, CheckoutStep(p)
    PROVE  StrandedOnlyByFailure'
<1> DEFINE r == req[p]
<1>t. /\ r \in Activity /\ pays \in [Pay -> PayDoc]
      /\ subs \in [Sub -> SubDoc]
  BY DEF TypeOK, StoreTypeOK
<1>q. ASSUME NEW x, Goto(p, x), ~At(p, "confirmStatus"), UNCHANGED fails,
             \A z \in Pay : pays'[z].status = "completed" => pays'[z] = pays[z]
      PROVE  StrandedOnlyByFailure'
  BY <1>q, StrandStep
<1>1. CASE CreatePayment(p)
  <2>1. PICK i, y :
          pays' = [pays EXCEPT ![y] = [status |-> "pending", type |-> "plan",
                                       sub |-> Null, intent |-> i,
                                       gatewayResponse |-> Null]]
    BY <1>1 DEF CreatePayment
  <2>2. \A z \in Pay : pays'[z].status = "completed" => pays'[z] = pays[z]
    BY <1>t, <2>1
  <2>3. (\E x : Goto(p, x)) /\ ~At(p, "confirmStatus") /\ UNCHANGED fails
    BY <1>1 DEF CreatePayment, At
  <2> QED
    BY <1>q, <2>2, <2>3
<1>2. CASE CreateLink(p)
  <2>1. /\ pays' = [pays EXCEPT ![r.pay].status = "pending", ![r.pay].sub = r.sub]
        /\ Goto(p, Idle) /\ ~At(p, "confirmStatus") /\ UNCHANGED fails
    BY <1>2 DEF CreateLink, Done, At
  <2>2. \A z \in Pay : pays'[z].status = "completed" => pays'[z] = pays[z]
    BY <1>t, <2>1 DEF PayDoc
  <2> QED
    BY <1>q, <2>1, <2>2
<1>3. CASE RetryIssue(p)
  <2>1. PICK i :
          pays' = [pays EXCEPT ![r.pay].status = "pending", ![r.pay].intent = i]
    BY <1>3 DEF RetryIssue
  <2>2. \A z \in Pay : pays'[z].status = "completed" => pays'[z] = pays[z]
    BY <1>t, <2>1 DEF PayDoc
  <2>3. Goto(p, Idle) /\ ~At(p, "confirmStatus") /\ UNCHANGED fails
    BY <1>3 DEF RetryIssue, Done, At
  <2> QED
    BY <1>q, <2>2, <2>3
<1>4. CASE ConfirmComplete(p)
  <2>1. /\ r.at = "confirmComplete" /\ r.pay \in Pay /\ pays[r.pay].sub = r.sub
    BY <1>4, <1>t, HeldPayment
    DEF ConfirmComplete, At, BooksInv, SlotBooks, HoldsPayment, Confirming
  <2>2. /\ pays' = [pays EXCEPT ![r.pay].status = "completed",
                                ![r.pay].intent = r.intent,
                                ![r.pay].gatewayResponse = r.intent]
        /\ Goto(p, [r EXCEPT !.at = "confirmStatus"])
        /\ UNCHANGED fails
    BY <1>4 DEF ConfirmComplete
  <2>3. /\ \A z \in Pay : z # r.pay => pays'[z] = pays[z]
        /\ pays'[r.pay].sub = r.sub
    BY <1>t, <2>1, <2>2 DEF PayDoc
  <2>4. PICK x : x = [r EXCEPT !.at = "confirmStatus"]
    OBVIOUS
  <2>5. x.at = "confirmStatus" /\ x.sub = r.sub
    BY <1>t, <2>1, <2>4, Relabel DEF Confirming
  <2>6. Goto(p, x) /\ ~At(p, "confirmStatus")
    BY <2>1, <2>2, <2>4 DEF At
  <2>7. \A z \in Pay : pays'[z] = pays[z] \/ x.sub = pays'[z].sub
    BY <2>3, <2>5
  <2>8. fails' = fails
    BY <2>2
  <2> QED
    BY <2>5, <2>6, <2>7, <2>8, StrandStep
<1>5. CASE ConfirmStatus(p)
  <2>1. r.sub \in Sub
    BY <1>5, <1>t, HeldPayment DEF ConfirmStatus, At, Confirming
  <2>2. /\ subs' = [subs EXCEPT ![r.sub].status = IF r.queued THEN "queued" ELSE "active"]
        /\ Goto(p, Idle)
        /\ UNCHANGED <<fails, pays>>
    BY <1>5 DEF ConfirmStatus, Done
  <2>3. subs'[r.sub].status # "pending"
    BY <1>t, <2>1, <2>2 DEF SubDoc
  <2> QED
    BY <2>2, <2>3, StrandStep
<1>6. CASE CreateStart(p) \/ CreateQueue(p) \/ CreateSub(p)
  <2>1. (\E x : Goto(p, x)) /\ ~At(p, "confirmStatus") /\ UNCHANGED <<fails, pays>>
    BY <1>6 DEF CreateStart, CreateQueue, CreateSub, At, Starting, dbVars
  <2> QED
    BY <1>q, <2>1
<1>7. CASE ConfirmStart(p) \/ ConfirmFind(p) \/ ConfirmInvoice(p)
  <2>1. (\E x : Goto(p, x)) /\ ~At(p, "confirmStatus") /\ UNCHANGED <<fails, pays>>
    BY <1>7 DEF ConfirmStart, ConfirmFind, ConfirmInvoice, At, Starting, Done, dbVars
  <2> QED
    BY <1>q, <2>1
<1>8. CASE RetryStart(p) \/ RetryFind(p)
  <2>1. (\E x : Goto(p, x)) /\ ~At(p, "confirmStatus") /\ UNCHANGED <<fails, pays>>
    BY <1>8 DEF RetryStart, RetryFind, At, Starting, Done, dbVars
  <2> QED
    BY <1>q, <2>1
<1> QED
  BY <1>1, <1>2, <1>3, <1>4, <1>5, <1>6, <1>7, <1>8 DEF CheckoutStep

LEMMA StrandAddon ==
    ASSUME TypeOK, LifeInv, BooksInv, StrandedOnlyByFailure, Growing,
           NEW p \in Slot, AddonStep(p)
    PROVE  StrandedOnlyByFailure'
<1> DEFINE r == req[p]
<1>t. r \in Activity /\ pays \in [Pay -> PayDoc]
  BY DEF TypeOK, StoreTypeOK
<1>q. ASSUME NEW x, Goto(p, x), ~At(p, "confirmStatus"), UNCHANGED fails,
             \A z \in Pay : (pays'[z].status = "completed" /\ pays'[z].type = "plan")
                                => pays'[z] = pays[z]
      PROVE  StrandedOnlyByFailure'
  BY <1>q, StrandStep
<1>1. CASE AddonStart(p) \/ AddonConfirm(p) \/ AddonCredit(p)
  <2>1. (\E x : Goto(p, x)) /\ ~At(p, "confirmStatus") /\ UNCHANGED <<fails, pays>>
    BY <1>1 DEF AddonStart, AddonConfirm, AddonCredit, At, Starting, dbVars
  <2> QED
    BY <1>q, <2>1
<1>2. CASE AddonPayment(p)
  <2>1. PICK i, y :
          pays' = [pays EXCEPT ![y] = [status |-> "pending", type |-> "addon",
                                       sub |-> r.sub, intent |-> i,
                                       gatewayResponse |-> Null]]
    BY <1>2 DEF AddonPayment
  <2>2. \A z \in Pay : pays'[z].status = "completed" => pays'[z] = pays[z]
    BY <1>t, <2>1
  <2>3. Goto(p, Idle) /\ ~At(p, "confirmStatus") /\ UNCHANGED fails
    BY <1>2 DEF AddonPayment, Done, At
  <2> QED
    BY <1>q, <2>2, <2>3
<1>3. CASE AddonComplete(p)
  <2>1. r.at = "addonComplete" /\ r.pay \in Pay /\ pays[r.pay].type = "addon"
    BY <1>3, <1>t, HeldPayment
    DEF AddonComplete, At, BooksInv, SlotBooks, HoldsPayment, Crediting
  <2>2. /\ pays' = [pays EXCEPT ![r.pay].status = "completed",
                                ![r.pay].intent = r.intent,
                                ![r.pay].gatewayResponse = r.intent]
        /\ Goto(p, Idle) /\ ~At(p, "confirmStatus") /\ UNCHANGED fails
    BY <1>3 DEF AddonComplete, Done, At
  <2>3. /\ \A z \in Pay : z # r.pay => pays'[z] = pays[z]
        /\ pays'[r.pay].type = "addon"
    BY <1>t, <2>1, <2>2 DEF PayDoc
  <2> QED
    BY <1>q, <2>2, <2>3
<1> QED
  BY <1>1, <1>2, <1>3 DEF AddonStep

LEMMA StrandInductive ==
    ASSUME TypeOK, LifeInv, BooksInv, StrandedOnlyByFailure, Growing, [Next]_vars
    PROVE  StrandedOnlyByFailure'
<1>1. CASE Tick \/ Charge \/ UNCHANGED vars
  <2>1. UNCHANGED <<fails, subs, pays, req>>
    BY <1>1 DEF Tick, Charge, vars, dbVars
  <2> QED
    BY <2>1 DEF StrandedOnlyByFailure, At
<1>2. ASSUME NEW p \in Slot, Step(p)
      PROVE  StrandedOnlyByFailure'
  <2>1. CASE CheckoutStep(p)
    BY <2>1, StrandCheckout
  <2>2. CASE ProcessStep(p) \/ CancelStep(p)
    <3>1. ~At(p, "confirmStatus")
      BY <2>2 DEF ProcessStep, CancelStep, At, Starting,
         ProcessStart, ExpireNext, PromoteFind, Promote, Renumber, ReadyFind,
         ReadyCheck, ReadyActivate, CancelStart, CancelWrite, CancelQueue,
         CancelPromote, CancelReread, CancelReorder
    <3>2. UNCHANGED <<fails, pays>> /\ \E x : Goto(p, x)
      BY <2>2, QueueFrame
    <3> QED
      BY <3>1, <3>2, StrandStep
  <2>3. CASE AddonStep(p)
    BY <2>3, StrandAddon
  <2> QED
    BY <1>2, <2>1, <2>2, <2>3 DEF Step
<1>3. ASSUME NEW p \in Slot, HandlerFails(p)
      PROVE  StrandedOnlyByFailure'
  <2>1. fails' > 0
    BY <1>3 DEF HandlerFails, TypeOK, StoreTypeOK
  <2>2. Goto(p, Idle) /\ UNCHANGED pays
    BY <1>3 DEF HandlerFails, Done, dbVars
  <2> QED
    BY <2>1, <2>2, StrandStep
<1> QED
  BY <1>1, <1>2, <1>3 DEF Next

-----------------------------------------------------------------------------
(***************************************************************************)
(* The three theorems share one invariant.                                 *)
(***************************************************************************)
MoneyInv ==
    /\ TypeOK
    /\ ChargeInv
    /\ BooksInv
    /\ LifeInv
    /\ StrandedOnlyByFailure

LEMMA InitMoney == Init => MoneyInv
<1> SUFFICES ASSUME Init PROVE MoneyInv
  OBVIOUS
<1>1. TypeOK
  BY InitTypes
<1>2. ChargeInv
  BY DEF Init, StoreInit, ChargeInv, CompletedMeansCharged, ChargedSlots,
     ResponsesHold, NoPayDoc, Idle, Vouched, Confirming, Crediting
<1>3. BooksInv
  BY DEF Init, StoreInit, BooksInv, CompletedMeansInvoiced, SlotBooks, OwnPayment,
     AddonsExist, NoPayDoc, Idle, HoldsPayment, Unlinked, Confirming, Crediting
<1>5. LifeInv
  BY DEF Init, StoreInit, LifeInv, BlankPays, SubLife, SlotLife, NoSubDoc, NoPayDoc,
     Idle, Confirming
<1>6. StrandedOnlyByFailure
  BY DEF Init, StoreInit, StrandedOnlyByFailure, NoPayDoc
<1> QED
  BY <1>1, <1>2, <1>3, <1>5, <1>6 DEF MoneyInv

LEMMA StepMoney ==
    ASSUME MoneyInv, [Next]_vars
    PROVE  MoneyInv' /\ Lives
<1>1. TypeOK'
  BY StepTypes DEF MoneyInv
<1>2. ChargeInv' /\ BooksInv'
  BY ChargeInvInductive, BooksInvInductive DEF MoneyInv
<1>3. Lives
  BY EveryStepLives DEF MoneyInv
<1>4. LifeInv' /\ Growing
  BY <1>3 DEF Lives
<1>5. StrandedOnlyByFailure'
  BY <1>4, StrandInductive DEF MoneyInv
<1> QED
  BY <1>1, <1>2, <1>3, <1>4, <1>5 DEF MoneyInv

\* A subscription that was never queued is active only once a payment of its
\* own was completed with a transaction Stripe charged and its invoice exists,
\* in every interleaving of confirmations, retries, add-ons and the queue.
THEOREM WalkInsArePaid == Spec => []WalkInLiveMeansPaid
<1>1. MoneyInv => WalkInLiveMeansPaid
  BY DEF MoneyInv, LifeInv, SubLife, WalkInLiveMeansPaid
<1>2. Init => MoneyInv
  BY InitMoney
<1>3. MoneyInv /\ [Next]_vars => MoneyInv'
  BY StepMoney
<1> QED
  BY <1>1, <1>2, <1>3, PTL DEF Spec

\* No race strands a paid subscription in "pending": only a confirm that has
\* one await to go, or a handler that failed.
THEOREM OnlyFailuresStrand == Spec => []StrandedOnlyByFailure
<1>1. MoneyInv => StrandedOnlyByFailure
  BY DEF MoneyInv
<1>2. Init => MoneyInv
  BY InitMoney
<1>3. MoneyInv /\ [Next]_vars => MoneyInv'
  BY StepMoney
<1> QED
  BY <1>1, <1>2, <1>3, PTL DEF Spec

\* Every subscription lives the life of SubscriptionLifecycle: each step of
\* any handler is one step of one subscription's life, or none.
THEOREM SystemImplementsLifecycle == Spec => ImplementsLifecycle
<1>1. Init => L!LifecycleInit
  <2>1. Init => Succeeded = {}
    BY DEF Init, StoreInit, Succeeded
  <2>2. Init => Settled = {}
    BY <2>1 DEF Settled
  <2> QED
    BY <2>1, <2>2 DEF Init, StoreInit, L!LifecycleInit, PhaseOf, NoSubDoc
<1>2. MoneyInv /\ [Next]_vars => [L!LifecycleNext]_Refined
  BY StepMoney DEF Lives
<1>3. Init => MoneyInv
  BY InitMoney
<1>4. MoneyInv /\ [Next]_vars => MoneyInv'
  BY StepMoney
<1> QED
  BY <1>1, <1>2, <1>3, <1>4, PTL
     DEF Spec, ImplementsLifecycle, L!Lifecycle, L!lifecycleVars, Refined

-----------------------------------------------------------------------------
(***************************************************************************)
(* What a step writes to the subscriptions, whoever takes it.              *)
(***************************************************************************)

\* Only s changes, and it stays its company's.
Only(s) ==
    /\ s \in Sub
    /\ \A t \in Sub \ {s} : subs'[t] = subs[t]
    /\ subs'[s].company = subs[s].company

\* Its place or its start is rewritten, nothing else.
Files(s) ==
    /\ Only(s)
    /\ subs'[s].status = subs[s].status
    /\ subs'[s].isQueued = subs[s].isQueued
    /\ subs'[s].endDate = subs[s].endDate

\* Its status becomes what one of the handlers decided.
Turns(s, status) ==
    /\ Only(s)
    /\ s \in Known
    /\ subs'[s].status = status
    /\ subs'[s].isQueued = subs[s].isQueued
    /\ subs'[s].endDate = subs[s].endDate

\* It leaves the queue.
Promotes(s) ==
    /\ Only(s)
    /\ s \in Known
    /\ subs'[s].status = "active"
    /\ ~subs'[s].isQueued

\* A new one, behind an active one or not.
Inserts(s, r) ==
    /\ s \in Sub \ Known
    /\ \A t \in Sub \ {s} : subs'[t] = subs[t]
    /\ subs'[s].company = r.company
    /\ IF r.active = Null THEN subs'[s].status = "pending" /\ ~subs'[s].isQueued
                          ELSE subs'[s].status = "queued" /\ subs'[s].isQueued

\* The job's writes.
LEMMA JobWrites ==
    ASSUME TypeOK, LifeInv, NEW p \in Slot
    PROVE  /\ ExpireNext(p) =>
                /\ req[p].expired \in NonEmpty(Known)
                /\ Turns(Head(req[p].expired), "expired")
           /\ Promote(p) =>
                /\ req[p].queue \in NonEmpty(Sub)
                /\ Promotes(Head(req[p].queue))
                /\ subs'[Head(req[p].queue)].endDate = subs[Head(req[p].queue)].endDate
           /\ Renumber(p) =>
                /\ req[p].queue \in NonEmpty(Sub)
                /\ Files(Head(req[p].queue))
           /\ ReadyActivate(p) =>
                /\ req[p].ready \in NonEmpty(Sub)
                /\ Promotes(Head(req[p].ready))
                /\ subs'[Head(req[p].ready)].endDate = subs[Head(req[p].ready)].endDate
<1> DEFINE r == req[p]
<1>t. r \in Activity /\ subs \in [Sub -> SubDoc]
  BY DEF TypeOK, StoreTypeOK
<1>l. SlotLife(r)
  BY DEF LifeInv
<1>k. Known \subseteq Sub /\ Queueable \subseteq Known
  BY DEF Known, Queueable
<1>a. ASSUME NEW s \in Known, subs' = Activate(s)
      PROVE  Promotes(s) /\ subs'[s].endDate = subs[s].endDate
  <2>1. s \in Sub
    BY <1>k
  <2>2. /\ \A t \in Sub \ {s} : subs'[t] = subs[t]
        /\ subs'[s].status = "active" /\ ~subs'[s].isQueued
        /\ subs'[s].company = subs[s].company
        /\ subs'[s].endDate = subs[s].endDate
    BY <1>t, <1>a, <2>1 DEF Activate, SubDoc
  <2> QED
    BY <2>1, <2>2 DEF Promotes, Only
<1>1. ASSUME ExpireNext(p)
      PROVE  r.expired \in NonEmpty(Known) /\ Turns(Head(r.expired), "expired")
  <2>1. r.expired \in NonEmpty(Sub) /\ r.expired \in Seq(Known)
    BY <1>1, <1>t, <1>l, QueueLocals DEF ExpireNext, At, SlotLife
  <2>2. r.expired \in NonEmpty(Known)
    BY <2>1 DEF NonEmpty
  <2>3. PICK s \in Known : s = Head(r.expired)
    BY <2>2, HeadAndTail
  <2>4. subs' = [subs EXCEPT ![s].status = "expired"]
    BY <1>1, <2>3 DEF ExpireNext
  <2>5. s \in Sub
    BY <1>k
  <2>6. /\ \A t \in Sub \ {s} : subs'[t] = subs[t]
        /\ subs'[s].status = "expired"
        /\ subs'[s].company = subs[s].company
        /\ subs'[s].endDate = subs[s].endDate
        /\ subs'[s].isQueued = subs[s].isQueued
    BY <1>t, <2>4, <2>5 DEF SubDoc
  <2>7. Turns(s, "expired")
    BY <2>5, <2>6 DEF Turns, Only
  <2> QED
    BY <2>2, <2>3, <2>7
<1>2. ASSUME Promote(p)
      PROVE  /\ r.queue \in NonEmpty(Sub)
             /\ Promotes(Head(r.queue))
             /\ subs'[Head(r.queue)].endDate = subs[Head(r.queue)].endDate
  <2>1. r.queue \in NonEmpty(Sub) /\ r.queue \in Seq(Queueable)
    BY <1>2, <1>t, <1>l, QueueLocals DEF Promote, At, SlotLife
  <2>2. r.queue \in NonEmpty(Queueable)
    BY <2>1 DEF NonEmpty
  <2>3. PICK s \in Known : s = Head(r.queue)
    BY <1>k, <2>2, HeadAndTail
  <2>4. subs' = Activate(s)
    BY <1>2, <2>3 DEF Promote
  <2> QED
    BY <1>a, <2>1, <2>3, <2>4
<1>3. ASSUME Renumber(p)
      PROVE  r.queue \in NonEmpty(Sub) /\ Files(Head(r.queue))
  <2>1. r.queue \in NonEmpty(Sub)
    BY <1>3, <1>t, QueueLocals DEF Renumber, At
  <2>2. PICK s \in Sub : s = Head(r.queue)
    BY <2>1, HeadAndTail
  <2>3. subs' = [subs EXCEPT ![s].queuePosition = r.position]
    BY <1>3, <2>2 DEF Renumber
  <2>4. /\ \A t \in Sub \ {s} : subs'[t] = subs[t]
        /\ subs'[s].status = subs[s].status
        /\ subs'[s].company = subs[s].company
        /\ subs'[s].endDate = subs[s].endDate
        /\ subs'[s].isQueued = subs[s].isQueued
    BY <1>t, <2>3 DEF SubDoc
  <2>5. Files(s)
    BY <2>4 DEF Files, Only
  <2> QED
    BY <2>1, <2>2, <2>5
<1>4. ASSUME ReadyActivate(p)
      PROVE  /\ r.ready \in NonEmpty(Sub)
             /\ Promotes(Head(r.ready))
             /\ subs'[Head(r.ready)].endDate = subs[Head(r.ready)].endDate
  <2>1. r.ready \in NonEmpty(Sub) /\ r.ready \in Seq(Queueable)
    BY <1>4, <1>t, <1>l, QueueLocals DEF ReadyActivate, At, SlotLife
  <2>2. r.ready \in NonEmpty(Queueable)
    BY <2>1 DEF NonEmpty
  <2>3. PICK s \in Known : s = Head(r.ready)
    BY <1>k, <2>2, HeadAndTail
  <2>4. subs' = Activate(s)
    BY <1>4, <2>3 DEF ReadyActivate
  <2> QED
    BY <1>a, <2>1, <2>3, <2>4
<1> QED
  BY <1>1, <1>2, <1>3, <1>4

\* The writes of cancel, of confirm and of a new purchase.
LEMMA RequestWrites ==
    ASSUME TypeOK, LifeInv, NEW p \in Slot
    PROVE  /\ CancelWrite(p) => Turns(req[p].sub, "cancelled")
           /\ CancelPromote(p) =>
                /\ req[p].queue \in NonEmpty(Snapshot)
                /\ Promotes(Head(req[p].queue).id)
           /\ CancelReorder(p) => \E s \in Sub : Files(s)
           /\ ConfirmStatus(p) =>
                Turns(req[p].sub, IF req[p].queued THEN "queued" ELSE "active")
           /\ CreateSub(p) =>
                \E s \in Sub : Inserts(s, req[p]) /\ \E x : Goto(p, x) /\ x.at = "createLink"
<1> DEFINE r == req[p]
<1>t. r \in Activity /\ subs \in [Sub -> SubDoc]
  BY DEF TypeOK, StoreTypeOK
<1>n. Null \notin Sub
  BY StoreAssumption
<1>l. SlotLife(r)
  BY DEF LifeInv
<1>k. Known \subseteq Sub /\ Queueable \subseteq Known
  BY DEF Known, Queueable
<1>1. ASSUME CancelWrite(p)
      PROVE  Turns(r.sub, "cancelled")
  <2>1. PICK s \in Known : s = r.sub
    BY <1>1, <1>l DEF CancelWrite, At, SlotLife
  <2>2. subs' = [subs EXCEPT ![s].status = "cancelled", ![s].cancelledAt = TRUE]
    BY <1>1, <2>1 DEF CancelWrite
  <2>3. s \in Sub
    BY <1>k
  <2>4. /\ \A t \in Sub \ {s} : subs'[t] = subs[t]
        /\ subs'[s].status = "cancelled"
        /\ subs'[s].company = subs[s].company
        /\ subs'[s].endDate = subs[s].endDate
        /\ subs'[s].isQueued = subs[s].isQueued
    BY <1>t, <2>2, <2>3 DEF SubDoc
  <2>5. Turns(s, "cancelled")
    BY <2>3, <2>4 DEF Turns, Only
  <2> QED
    BY <2>1, <2>5
<1>h. ASSUME r.at \in {"cancelPromote", "cancelReorder"}
      PROVE  /\ r.queue \in NonEmpty(Snapshot)
             /\ \E s \in Known : s = Head(r.queue).id
  <2>1. r.queue \in NonEmpty(Snapshot) /\ r.queue \in Seq([id: Queueable, endDate: Nat])
    BY <1>h, <1>t, <1>l, QueueLocals DEF SlotLife
  <2>2. r.queue \in NonEmpty([id: Queueable, endDate: Nat])
    BY <2>1 DEF NonEmpty
  <2>3. Head(r.queue) \in [id: Queueable, endDate: Nat]
    BY <2>2, HeadAndTail
  <2> QED
    BY <1>k, <2>1, <2>3
<1>2. ASSUME CancelPromote(p)
      PROVE  /\ r.queue \in NonEmpty(Snapshot)
             /\ Promotes(Head(r.queue).id)
  <2>1. r.at = "cancelPromote"
    BY <1>2 DEF CancelPromote, At
  <2>2. PICK s \in Known : s = Head(r.queue).id
    BY <1>h, <2>1
  <2>3. s \in Sub
    BY <1>k
  <2>4. PICK d : subs' = [subs EXCEPT ![s] = [@ EXCEPT
                            !.status = "active", !.isQueued = FALSE,
                            !.queuePosition = 0, !.startDate = now,
                            !.endDate = d, !.scheduledStart = now]]
    BY <1>2, <2>2 DEF CancelPromote
  <2>5. /\ \A t \in Sub \ {s} : subs'[t] = subs[t]
        /\ subs'[s].status = "active"
        /\ ~subs'[s].isQueued
        /\ subs'[s].company = subs[s].company
    BY <1>t, <2>3, <2>4 DEF SubDoc
  <2>6. Promotes(s)
    BY <2>3, <2>5 DEF Promotes, Only
  <2> QED
    BY <1>h, <2>1, <2>2, <2>6
<1>3. ASSUME CancelReorder(p)
      PROVE  \E s \in Sub : Files(s)
  <2>1. r.at = "cancelReorder"
    BY <1>3 DEF CancelReorder, At
  <2>2. PICK s \in Known : s = Head(r.queue).id
    BY <1>h, <2>1
  <2>3. s \in Sub
    BY <1>k
  <2>4. PICK f : subs' = [subs EXCEPT ![s] = [@ EXCEPT
                            !.queuePosition = r.position,
                            !.scheduledStart = f,
                            !.previous = r.previous]]
    BY <1>3, <2>2 DEF CancelReorder
  <2>5. /\ \A t \in Sub \ {s} : subs'[t] = subs[t]
        /\ subs'[s].status = subs[s].status
        /\ subs'[s].company = subs[s].company
        /\ subs'[s].endDate = subs[s].endDate
        /\ subs'[s].isQueued = subs[s].isQueued
    BY <1>t, <2>3, <2>4 DEF SubDoc
  <2>6. Files(s)
    BY <2>3, <2>5 DEF Files, Only
  <2> QED
    BY <2>3, <2>6
<1>4. ASSUME ConfirmStatus(p)
      PROVE  Turns(r.sub, IF r.queued THEN "queued" ELSE "active")
  <2>1. r.sub \in Sub /\ r.sub \in Known
    BY <1>4, <1>t, <1>l, CheckoutLocals DEF ConfirmStatus, At, SlotLife, Confirming
  <2>3. PICK s \in Sub : s = r.sub
    BY <2>1
  <2>4. s \in Known
    BY <2>1, <2>3
  <2> DEFINE st == IF r.queued THEN "queued" ELSE "active"
  <2>5. subs' = [subs EXCEPT ![s].status = st]
    BY <1>4, <2>3 DEF ConfirmStatus
  <2> HIDE DEF st
  <2>6. /\ \A t \in Sub \ {s} : subs'[t] = subs[t]
        /\ subs'[s].status = st
        /\ subs'[s].company = subs[s].company
        /\ subs'[s].endDate = subs[s].endDate
        /\ subs'[s].isQueued = subs[s].isQueued
    BY <1>t, <2>5 DEF SubDoc
  <2>7. Turns(s, st)
    BY <2>4, <2>6 DEF Turns, Only
  <2> QED
    BY <2>3, <2>7 DEF st
<1>5. ASSUME CreateSub(p)
      PROVE  \E s \in Sub : Inserts(s, r) /\ \E x : Goto(p, x) /\ x.at = "createLink"
  <2>1. r.active \in Sub \cup {Null}
    BY <1>5, <1>t, CheckoutLocals DEF CreateSub, At
  <2>2. PICK s, start, d :
          /\ s \in FreshSub
          /\ subs' = [subs EXCEPT ![s] =
                [company |-> r.company,
                 status |-> IF r.active # Null THEN "queued" ELSE "pending",
                 isQueued |-> r.active # Null, queuePosition |-> r.position,
                 startDate |-> start, endDate |-> start + d,
                 scheduledStart |-> IF r.active # Null THEN start ELSE 0,
                 duration |-> d, previous |-> r.active,
                 cancelledAt |-> FALSE, paymentId |-> r.pay]]
          /\ Goto(p, [at |-> "createLink", sub |-> s, pay |-> r.pay, intent |-> r.intent])
    BY <1>5 DEF CreateSub
  <2>3. s \in Sub \ Known
    BY <2>2 DEF FreshSub, Least, Known
  <2>4. /\ \A t \in Sub \ {s} : subs'[t] = subs[t]
        /\ subs'[s].status = IF r.active # Null THEN "queued" ELSE "pending"
        /\ subs'[s].company = r.company
        /\ subs'[s].isQueued <=> r.active # Null
    BY <1>t, <2>2, <2>3
  <2>5. Inserts(s, r)
    BY <2>3, <2>4 DEF Inserts
  <2>6. \E x : Goto(p, x) /\ x.at = "createLink"
    BY <2>2
  <2> QED
    BY <2>3, <2>5, <2>6
<1> QED
  BY <1>1, <1>2, <1>3, <1>4, <1>5

\* The awaits at which a handler holds nothing the properties below speak of.
Calm == {"idle", "createLink", "retryFind", "retryIssue", "addonPayment", "addonCredit",
         "addonComplete", "readyCheck", "readyActivate", "cancelReread", "cancelReorder"}

CalmStep(p) ==
    /\ UNCHANGED subs
    /\ \E x : Goto(p, x) /\ x.at \in Calm

LEMMA CalmSteps ==
    ASSUME TypeOK, NEW p \in Slot
    PROVE  /\ CreateLink(p) \/ RetryStart(p) \/ RetryFind(p) \/ RetryIssue(p) => CalmStep(p)
           /\ ReadyFind(p) \/ ReadyCheck(p) \/ CancelReread(p) => CalmStep(p)
           /\ AddonStep(p) \/ HandlerFails(p) => CalmStep(p)
<1>t. req[p] \in Activity
  BY DEF TypeOK
<1>e. \A list : CheckOrEnd(list).at \in Calm
  BY DEF CheckOrEnd, Idle, Calm
<1>i. Idle.at \in Calm
  BY DEF Idle, Calm
<1>1. CreateLink(p) \/ RetryIssue(p) \/ AddonPayment(p) \/ AddonComplete(p) \/ HandlerFails(p)
        => CalmStep(p)
  BY <1>i DEF CreateLink, RetryIssue, AddonPayment, AddonComplete, HandlerFails, Done,
     dbVars, CalmStep
<1>2. RetryStart(p) \/ RetryFind(p) => CalmStep(p)
  <2>1. \A s, y : /\ [at |-> "retryFind", sub |-> s].at \in Calm
                  /\ [at |-> "retryIssue", sub |-> s, pay |-> y].at \in Calm
    BY DEF Calm
  <2>2. RetryStart(p) \/ RetryFind(p) => \E x : Goto(p, x) /\ x.at \in Calm
    BY <1>i, <2>1 DEF RetryStart, RetryFind, Done
  <2> QED
    BY <2>2 DEF RetryStart, RetryFind, dbVars, CalmStep
<1>3. AddonStart(p) \/ AddonConfirm(p) => CalmStep(p)
  <2>1. \A s, y, i : /\ [at |-> "addonPayment", sub |-> s].at \in Calm
                     /\ [at |-> "addonCredit", pay |-> y, intent |-> i].at \in Calm
    BY DEF Calm
  <2>2. AddonStart(p) \/ AddonConfirm(p) => \E x : Goto(p, x) /\ x.at \in Calm
    BY <2>1 DEF AddonStart, AddonConfirm
  <2> QED
    BY <2>2 DEF AddonStart, AddonConfirm, dbVars, CalmStep
<1>4. AddonCredit(p) => CalmStep(p)
  <2>1. SUFFICES ASSUME AddonCredit(p) PROVE CalmStep(p)
    OBVIOUS
  <2>2. [req[p] EXCEPT !.at = "addonComplete"].at = "addonComplete"
    BY <1>t, <2>1, AddonLocals DEF AddonCredit, At
  <2>3. PICK x : x = [req[p] EXCEPT !.at = "addonComplete"]
    OBVIOUS
  <2>4. Goto(p, x) /\ x.at \in Calm
    BY <2>1, <2>2, <2>3 DEF AddonCredit, Calm
  <2> QED
    BY <2>1, <2>4 DEF AddonCredit, CalmStep
<1>5. ReadyFind(p) \/ CancelReread(p) => CalmStep(p)
  BY <1>e DEF ReadyFind, CancelReread, dbVars, CalmStep, Calm
<1>6. ReadyCheck(p) => CalmStep(p)
  <2>1. SUFFICES ASSUME ReadyCheck(p) PROVE CalmStep(p)
    OBVIOUS
  <2>2. [req[p] EXCEPT !.at = "readyActivate"].at = "readyActivate"
    BY <1>t, <2>1, QueueLocals DEF ReadyCheck, At
  <2>3. PICK x : x = [req[p] EXCEPT !.at = "readyActivate"]
    OBVIOUS
  <2>4. Goto(p, x) \/ Goto(p, CheckOrEnd(Tail(req[p].ready)))
    BY <2>1, <2>3 DEF ReadyCheck
  <2>5. x.at \in Calm
    BY <2>2, <2>3 DEF Calm
  <2>6. \E y : Goto(p, y) /\ y.at \in Calm
    BY <1>e, <2>4, <2>5
  <2> QED
    BY <2>1, <2>6 DEF ReadyCheck, dbVars, CalmStep
<1> QED
  BY <1>1, <1>2, <1>3, <1>4, <1>5, <1>6 DEF AddonStep

\* What a confirm request keeps from one await to the next.
LEMMA ConfirmCarries ==
    ASSUME TypeOK, NEW p \in Slot, ConfirmFind(p) \/ ConfirmInvoice(p) \/ ConfirmComplete(p)
    PROVE  /\ req[p].at \in {"confirmFind"} \cup Confirming
           /\ UNCHANGED subs
           /\ \E x : /\ Goto(p, x)
                     /\ \/ x.at = "idle"
                        \/ /\ x.at \in Confirming
                           /\ x.sub = req[p].sub /\ x.queued = req[p].queued
<1>t. req[p] \in Activity
  BY DEF TypeOK
<1>i. Idle.at = "idle"
  BY DEF Idle
<1>1. CASE ConfirmFind(p)
  BY <1>1, <1>i DEF ConfirmFind, At, Done, dbVars, Confirming
<1>2. CASE ConfirmInvoice(p) \/ ConfirmComplete(p)
  <2>1. req[p].at \in {"confirmInvoice", "confirmComplete"}
    BY <1>2 DEF ConfirmInvoice, ConfirmComplete, At
  <2>2. req[p] \in [at: {"confirmInvoice", "confirmComplete", "confirmStatus"},
                    sub: Sub, intent: Intent, queued: BOOLEAN, pay: Pay]
    BY <1>t, <2>1, CheckoutLocals
  <2>3. PICK l \in Confirming : Goto(p, Idle) \/ Goto(p, [req[p] EXCEPT !.at = l])
    BY <1>2 DEF ConfirmInvoice, ConfirmComplete, Confirming, Done
  <2>4. PICK x : x = [req[p] EXCEPT !.at = l]
    OBVIOUS
  <2>5. x.at = l /\ x.sub = req[p].sub /\ x.queued = req[p].queued
    BY <2>2, <2>4
  <2>6. UNCHANGED subs
    BY <1>2 DEF ConfirmInvoice, ConfirmComplete
  <2> QED
    BY <1>i, <2>1, <2>3, <2>4, <2>5, <2>6 DEF Confirming
<1> QED
  BY <1>1, <1>2

LEMMA CreateLabels ==
    ASSUME NEW p \in Slot, CreateStart(p) \/ CreatePayment(p) \/ CreateQueue(p)
    PROVE  \E x : Goto(p, x) /\ x.at \in {"createPayment", "createQueue", "createSub"}
<1>1. ASSUME NEW c, NEW a, NEW f, NEW y, NEW i, NEW n
      PROVE  /\ [at |-> "createPayment", company |-> c, active |-> a, from |-> f].at
                   = "createPayment"
             /\ [at |-> "createQueue", company |-> c, active |-> a, from |-> f,
                 pay |-> y, intent |-> i].at = "createQueue"
             /\ [at |-> "createSub", company |-> c, active |-> a, from |-> f,
                 pay |-> y, intent |-> i, position |-> n].at = "createSub"
  OBVIOUS
<1>2. CASE CreateStart(p)
  BY <1>1, <1>2 DEF CreateStart
<1>3. CASE CreatePayment(p)
  BY <1>1, <1>3 DEF CreatePayment
<1>4. CASE CreateQueue(p)
  BY <1>1, <1>4 DEF CreateQueue
<1> QED
  BY <1>2, <1>3, <1>4

\* The awaits of confirm after its read, and those before a promotion.
Confirms == {"confirmFind"} \cup Confirming

Promoting == {"promote", "readyActivate", "cancelPromote"}

\* The awaits at which the job holds the subscriptions it is to expire.
Looping == {"expireNext", "promoteFind", "promote", "renumber"}

\* Whatever the subscriptions the job may find expired are, the ones it still
\* has to expire are that, and other handlers hold none.
LEMMA LoopCarries ==
    ASSUME TypeOK, NEW p \in Slot, NEW S, Expired \subseteq Seq(S),
           req[p].at \in Looping => req[p].expired \in Seq(S), ProcessStep(p)
    PROVE  \E x : /\ Goto(p, x)
                  /\ x.at \in Looping \cup Calm \cup {"readyFind"}
                  /\ x.at \in Looping => x.expired \in Seq(S)
<1> DEFINE r == req[p]
           Ok(x) == /\ x.at \in Looping \cup Calm \cup {"readyFind"}
                    /\ x.at \in Looping => x.expired \in Seq(S)
<1>t. r \in Activity
  BY DEF TypeOK
<1>n. ASSUME NEW x, NEW list \in Seq(S),
             x = ExpireOrReady(list) \/ (x.at \in Looping /\ x.expired = list)
      PROVE  Ok(x)
  BY <1>n DEF ExpireOrReady, Looping
<1> HIDE DEF Ok
<1>1. CASE ProcessStart(p)
  BY <1>1, <1>n DEF ProcessStart, Ok
<1>2. CASE ExpireNext(p)
  <2>1. r.expired \in NonEmpty(Sub) /\ r.expired \in Seq(S)
    BY <1>2, <1>t, QueueLocals DEF ExpireNext, At, Looping
  <2>2. r.expired \in NonEmpty(S)
    BY <2>1 DEF NonEmpty
  <2>3. PICK list \in Seq(S) : list = Tail(r.expired)
    BY <2>2, HeadAndTail
  <2>4. PICK c : Goto(p, [at |-> "promoteFind", expired |-> list, company |-> c])
    BY <1>2, <2>3 DEF ExpireNext
  <2>5. PICK x : x = [at |-> "promoteFind", expired |-> list, company |-> c]
    OBVIOUS
  <2>6. x.at \in Looping /\ x.expired = list
    BY <2>5 DEF Looping
  <2> QED
    BY <1>n, <2>4, <2>5, <2>6 DEF Ok
<1>3. CASE PromoteFind(p)
  <2>1. PICK list \in Seq(S) : list = r.expired
    BY <1>3 DEF PromoteFind, At, Looping
  <2>2. PICK q : Goto(p, IF q = <<>>
                         THEN ExpireOrReady(list)
                         ELSE [at |-> "promote", expired |-> list, queue |-> q])
    BY <1>3, <2>1 DEF PromoteFind
  <2>3. PICK x : x = [at |-> "promote", expired |-> list, queue |-> q]
    OBVIOUS
  <2>4. x.at \in Looping /\ x.expired = list
    BY <2>3 DEF Looping
  <2> QED
    BY <1>n, <2>2, <2>3, <2>4 DEF Ok
<1>4. CASE Promote(p)
  <2>1. PICK list \in Seq(S) : list = r.expired
    BY <1>4 DEF Promote, At, Looping
  <2>2. PICK x : x = [at |-> "renumber", expired |-> list,
                      queue |-> Tail(r.queue), position |-> 1]
    OBVIOUS
  <2>3. x.at \in Looping /\ x.expired = list
    BY <2>2 DEF Looping
  <2>4. Goto(p, x) \/ Goto(p, ExpireOrReady(list))
    BY <1>4, <2>1, <2>2 DEF Promote
  <2> QED
    BY <1>n, <2>3, <2>4 DEF Ok
<1>5. CASE Renumber(p)
  <2>1. PICK list \in Seq(S) : list = r.expired
    BY <1>5 DEF Renumber, At, Looping
  <2>2. r \in [at: {"renumber"}, expired: Seq(Sub), queue: NonEmpty(Sub), position: Nat]
    BY <1>5, <1>t, QueueLocals DEF Renumber, At
  <2>3. PICK x : x = [r EXCEPT !.queue = Tail(@), !.position = @ + 1]
    OBVIOUS
  <2>4. x.at \in Looping /\ x.expired = list
    BY <2>1, <2>2, <2>3 DEF Looping
  <2>5. Goto(p, x) \/ Goto(p, ExpireOrReady(list))
    BY <1>5, <2>1, <2>3 DEF Renumber
  <2> QED
    BY <1>n, <2>4, <2>5 DEF Ok
<1>6. CASE ReadyFind(p) \/ ReadyCheck(p)
  <2>1. PICK x : Goto(p, x) /\ x.at \in Calm
    BY <1>6, CalmSteps DEF CalmStep
  <2>2. x.at \notin Looping
    BY <2>1 DEF Calm, Looping
  <2> QED
    BY <2>1, <2>2
<1>7. CASE ReadyActivate(p)
  <2>1. PICK x : Goto(p, x) /\ x.at \in Calm
    BY <1>7 DEF ReadyActivate, CheckOrEnd, Idle, Calm
  <2>2. x.at \notin Looping
    BY <2>1 DEF Calm, Looping
  <2> QED
    BY <2>1, <2>2
<1> QED
  BY <1>1, <1>2, <1>3, <1>4, <1>5, <1>6, <1>7 DEF ProcessStep

\* Where the other handlers go holds nothing to expire.
LEMMA OthersCarryNone ==
    ASSUME TypeOK, NEW p \in Slot, CheckoutStep(p) \/ CancelStep(p) \/ AddonStep(p) \/ HandlerFails(p)
    PROVE  \E x : Goto(p, x) /\ x.at \notin Looping
<1>i. Idle.at \notin Looping
  BY DEF Idle, Looping
<1>c. CalmStep(p) => \E x : Goto(p, x) /\ x.at \notin Looping
  BY DEF CalmStep, Calm, Looping
<1>1. CASE CreateStart(p) \/ CreatePayment(p) \/ CreateQueue(p)
  BY <1>1, CreateLabels DEF Looping
<1>2. CASE CreateSub(p)
  BY <1>2 DEF CreateSub, Looping
<1>3. CASE ConfirmStart(p)
  <2>1. \A s, i, b : [at |-> "confirmFind", sub |-> s, intent |-> i, queued |-> b].at = "confirmFind"
    OBVIOUS
  <2> QED
    BY <1>3, <2>1 DEF ConfirmStart, Looping
<1>4. CASE ConfirmFind(p) \/ ConfirmInvoice(p) \/ ConfirmComplete(p)
  BY <1>4, ConfirmCarries DEF Confirming, Looping
<1>5. CASE ConfirmStatus(p)
  BY <1>5, <1>i DEF ConfirmStatus, Done
<1>6. CASE CreateLink(p) \/ RetryStart(p) \/ RetryFind(p) \/ RetryIssue(p)
  BY <1>6, <1>c, CalmSteps
<1>7. CASE CancelStart(p) \/ CancelWrite(p)
  <2>1. \A c, s : /\ [at |-> "cancelWrite", company |-> c, sub |-> s].at \notin Looping
                  /\ [at |-> "cancelQueue", company |-> c].at \notin Looping
    BY DEF Looping
  <2>2. \E c, s : \/ Goto(p, [at |-> "cancelWrite", company |-> c, sub |-> s])
                  \/ Goto(p, [at |-> "cancelQueue", company |-> c])
    BY <1>7 DEF CancelStart, CancelWrite
  <2> QED
    BY <2>1, <2>2
<1>8. CASE CancelQueue(p) \/ CancelPromote(p) \/ CancelReorder(p)
  <2>1. ASSUME NEW q, NEW s, NEW f, NEW n
        PROVE  /\ [at |-> "cancelPromote", queue |-> q].at = "cancelPromote"
               /\ [at |-> "cancelReread", queue |-> q, previous |-> s].at = "cancelReread"
               /\ [at |-> "cancelReorder", queue |-> q, previous |-> s,
                   from |-> f, position |-> n].at = "cancelReorder"
    OBVIOUS
  <2>2. CASE CancelQueue(p)
    <3>1. PICK q : Goto(p, Idle) \/ Goto(p, [at |-> "cancelPromote", queue |-> q])
      BY <2>2 DEF CancelQueue
    <3>2. [at |-> "cancelPromote", queue |-> q].at \notin Looping
      BY <2>1 DEF Looping
    <3> QED
      BY <1>i, <3>1, <3>2
  <2>3. CASE CancelPromote(p)
    <3>1. PICK q, s : Goto(p, Idle) \/ Goto(p, [at |-> "cancelReread", queue |-> q, previous |-> s])
      BY <2>3 DEF CancelPromote
    <3>2. [at |-> "cancelReread", queue |-> q, previous |-> s].at \notin Looping
      BY <2>1 DEF Looping
    <3> QED
      BY <1>i, <3>1, <3>2
  <2>4. CASE CancelReorder(p)
    <3>1. PICK q, s, f, n : \/ Goto(p, Idle)
                           \/ Goto(p, [at |-> "cancelReorder", queue |-> q, previous |-> s,
                                       from |-> f, position |-> n])
      BY <2>4 DEF CancelReorder
    <3>2. [at |-> "cancelReorder", queue |-> q, previous |-> s,
           from |-> f, position |-> n].at \notin Looping
      BY <2>1 DEF Looping
    <3> QED
      BY <1>i, <3>1, <3>2
  <2> QED
    BY <1>8, <2>2, <2>3, <2>4
<1>9. CASE CancelReread(p) \/ AddonStep(p) \/ HandlerFails(p)
  BY <1>9, <1>c, CalmSteps
<1> QED
  BY <1>1, <1>2, <1>3, <1>4, <1>5, <1>6, <1>7, <1>8, <1>9 DEF CheckoutStep, CancelStep

-----------------------------------------------------------------------------
(***************************************************************************)
(* The flag and the status.  Every write of a handler keeps them in step   *)
(* except the last one of confirm, which writes the status the flag called *)
(* for four awaits earlier: while no other handler promotes beside a       *)
(* confirm, the flag is still what confirm read.                           *)
(***************************************************************************)

\* No slot is at an await of A while another one is at an await of B.
Apart(A, B) ==
    \A p, q \in Slot : p # q => ~(req[p].at \in A /\ req[q].at \in B)

Unqueued == {s \in Known : ~subs[s].isQueued}

FlagHeld(r) ==
    /\ r.at \in Looping => r.expired \in Seq(Unqueued)
    /\ r.at = "cancelWrite" => r.sub \in Unqueued
    /\ r.at \in Confirms => (r.queued <=> subs[r.sub].isQueued)

FlagInv == QueuedFlagAgrees /\ \A p \in Slot : FlagHeld(req[p])

\* One slot moves on; a flag falls only where a promotion is.
LEMMA FlagStep ==
    ASSUME TypeOK, LifeInv, FlagInv, Apart(Confirms, Promoting),
           NEW p \in Slot, NEW x, Goto(p, x), FlagHeld(x)',
           QueuedFlagAgrees', Unqueued \subseteq Unqueued',
           \/ req[p].at \in Promoting
           \/ \A s \in Known : subs'[s].isQueued <=> subs[s].isQueued
    PROVE  FlagInv'
<1>t. req \in [Slot -> Activity]
  BY DEF TypeOK
<1>1. SUFFICES ASSUME NEW q \in Slot PROVE FlagHeld(req[q])'
  BY DEF FlagInv
<1>2. CASE q = p
  <2>1. req'[q] = x
    BY <1>t, <1>2 DEF Goto
  <2> QED
    BY <2>1 DEF FlagHeld
<1>3. CASE q # p
  <2>1. req'[q] = req[q]
    BY <1>t, <1>3 DEF Goto
  <2>2. FlagHeld(req[q]) /\ SlotLife(req[q])
    BY DEF FlagInv, LifeInv
  <2>3. Seq(Unqueued) \subseteq Seq(Unqueued')
    BY SeqMonotone
  <2>4. ASSUME req[q].at \in Confirms
        PROVE  req[q].queued <=> subs'[req[q].sub].isQueued
    <3>1. \A s \in Known : subs'[s].isQueued <=> subs[s].isQueued
      BY <1>3, <2>4 DEF Apart
    <3>4. req[q].sub \in Known
      BY <2>2, <2>4 DEF SlotLife, Confirms
    <3>5. req[q].queued <=> subs[req[q].sub].isQueued
      BY <2>2, <2>4 DEF FlagHeld
    <3> QED
      BY <3>1, <3>4, <3>5
  <2> QED
    BY <2>1, <2>2, <2>3, <2>4 DEF FlagHeld
<1> QED
  BY <1>2, <1>3

\* What a write of one subscription leaves of the flags.
LEMMA FlagWrites ==
    ASSUME TypeOK, QueuedFlagAgrees, NEW s
    PROVE  /\ Files(s) => /\ QueuedFlagAgrees' /\ Unqueued \subseteq Unqueued'
                          /\ \A t \in Known : subs'[t].isQueued <=> subs[t].isQueued
           /\ \A status \in {"expired", "cancelled"} :
                Turns(s, status) /\ s \in Unqueued =>
                          /\ QueuedFlagAgrees' /\ Unqueued \subseteq Unqueued'
                          /\ \A t \in Known : subs'[t].isQueued <=> subs[t].isQueued
           /\ Promotes(s) => QueuedFlagAgrees' /\ Unqueued \subseteq Unqueued'
<1>k. Known \subseteq Sub /\ Unqueued \subseteq Known
  BY DEF Known, Unqueued
<1>1. ASSUME Files(s)
      PROVE  /\ QueuedFlagAgrees' /\ Unqueued \subseteq Unqueued'
             /\ \A t \in Known : subs'[t].isQueued <=> subs[t].isQueued
  <2>1. \A t \in Sub : subs'[t].status = subs[t].status /\ (subs'[t].isQueued <=> subs[t].isQueued)
    BY <1>1 DEF Files, Only
  <2> QED
    BY <1>k, <2>1 DEF QueuedFlagAgrees, Unqueued, Known
<1>2. ASSUME NEW status \in {"expired", "cancelled"}, Turns(s, status), s \in Unqueued
      PROVE  /\ QueuedFlagAgrees' /\ Unqueued \subseteq Unqueued'
             /\ \A t \in Known : subs'[t].isQueued <=> subs[t].isQueued
  <2>1. /\ \A t \in Sub \ {s} : subs'[t] = subs[t]
        /\ subs'[s].status = status
        /\ subs'[s].isQueued <=> subs[s].isQueued
    BY <1>2 DEF Turns, Only
  <2>2. status # "queued" /\ status # "none" /\ ~subs[s].isQueued
    BY <1>2 DEF Unqueued
  <2>3. \A t \in Sub : subs'[t].isQueued <=> subs[t].isQueued
    BY <2>1
  <2>4. QueuedFlagAgrees'
    BY <2>1, <2>2 DEF QueuedFlagAgrees
  <2>5. Unqueued \subseteq Unqueued'
    BY <2>1, <2>2, <2>3 DEF Unqueued, Known
  <2> QED
    BY <1>k, <2>3, <2>4, <2>5
<1>3. ASSUME Promotes(s)
      PROVE  QueuedFlagAgrees' /\ Unqueued \subseteq Unqueued'
  BY <1>3 DEF Promotes, Only, QueuedFlagAgrees, Unqueued, Known
<1> QED
  BY <1>1, <1>2, <1>3

LEMMA FlagProcess ==
    ASSUME TypeOK, LifeInv, FlagInv, Apart(Confirms, Promoting),
           NEW p \in Slot, ProcessStep(p)
    PROVE  FlagInv'
<1> DEFINE r == req[p]
           Falls == QueuedFlagAgrees' /\ Unqueued \subseteq Unqueued'
           Kept == \A t \in Known : subs'[t].isQueued <=> subs[t].isQueued
<1>a. QueuedFlagAgrees /\ FlagHeld(r)
  BY DEF FlagInv
<1>e. r.at \in Looping => r.expired \in Seq(Unqueued)
  BY <1>a DEF FlagHeld
<1>x. Expired \subseteq Seq(Unqueued)
  <2> DEFINE S == {s \in Sub : subs[s].status = "active" /\ ~subs[s].isQueued /\ subs[s].endDate < now}
  <2>1. S \subseteq Sub /\ S \subseteq Unqueued
    BY DEF Unqueued, Known
  <2>2. Expired = SetToSeqs(S)
    BY DEF Expired
  <2>3. SetToSeqs(S) \subseteq Seq(S)
    BY <2>1, EnumerationWithin
  <2> HIDE DEF S
  <2> QED
    BY <2>1, <2>2, <2>3, SeqMonotone
<1>1. ExpireNext(p) => Falls /\ Kept
  <2>1. SUFFICES ASSUME ExpireNext(p) PROVE Falls /\ Kept
    OBVIOUS
  <2>2. r.expired \in NonEmpty(Known) /\ Turns(Head(r.expired), "expired")
    BY <2>1, JobWrites
  <2>3. r.expired \in NonEmpty(Unqueued)
    BY <1>e, <2>1, <2>2 DEF ExpireNext, At, Looping, NonEmpty
  <2>4. Head(r.expired) \in Unqueued
    BY <2>3, HeadAndTail
  <2> QED
    BY <1>a, <2>2, <2>4, FlagWrites
<1>2. Promote(p) \/ ReadyActivate(p) => Falls /\ r.at \in Promoting
  BY <1>a, JobWrites, FlagWrites DEF Promote, ReadyActivate, At, Promoting
<1>3. Renumber(p) => Falls /\ Kept
  BY <1>a, JobWrites, FlagWrites
<1>4. ProcessStart(p) \/ PromoteFind(p) \/ ReadyFind(p) \/ ReadyCheck(p) => UNCHANGED subs
  BY DEF ProcessStart, PromoteFind, ReadyFind, ReadyCheck, dbVars
<1>5. UNCHANGED subs => Falls /\ Kept
  BY <1>a DEF Unqueued, Known, QueuedFlagAgrees
<1>6. Falls /\ (Kept \/ r.at \in Promoting)
  <2> HIDE DEF Falls, Kept
  <2> QED
    BY <1>1, <1>2, <1>3, <1>4, <1>5 DEF ProcessStep
<1>7. PICK x : /\ Goto(p, x)
               /\ x.at \in Looping \cup Calm \cup {"readyFind"}
               /\ x.at \in Looping => x.expired \in Seq(Unqueued)
  BY <1>e, <1>x, LoopCarries
<1>8. FlagHeld(x)'
  <2>1. Seq(Unqueued) \subseteq Seq(Unqueued')
    BY <1>6, SeqMonotone
  <2> QED
    BY <1>7, <2>1 DEF FlagHeld, Calm, Looping, Confirms, Confirming
<1> QED
  BY <1>6, <1>7, <1>8, FlagStep

LEMMA FlagCancel ==
    ASSUME TypeOK, LifeInv, FlagInv, Apart(Confirms, Promoting),
           NEW p \in Slot, CancelStep(p)
    PROVE  FlagInv'
<1> DEFINE r == req[p]
<1>a. QueuedFlagAgrees /\ FlagHeld(r)
  BY DEF FlagInv
<1>u. UNCHANGED subs => Unqueued' = Unqueued /\ QueuedFlagAgrees'
  BY <1>a DEF Unqueued, Known, QueuedFlagAgrees
<1>h. ASSUME NEW x, x.at \in {"cancelQueue", "cancelPromote"} \cup Calm
      PROVE  FlagHeld(x)'
  BY <1>h DEF FlagHeld, Calm, Looping, Confirms, Confirming
<1>i. Idle.at \in Calm
  BY DEF Idle, Calm
<1>1. CASE CancelStart(p)
  <2>1. PICK c \in Company : \E s \in ActiveByCompany(c) :
             Goto(p, [at |-> "cancelWrite", company |-> c, sub |-> s])
    BY <1>1 DEF CancelStart
  <2>0. PICK s \in ActiveByCompany(c) :
             Goto(p, [at |-> "cancelWrite", company |-> c, sub |-> s])
    BY <2>1
  <2>2. s \in Unqueued
    BY DEF ActiveByCompany, Unqueued, Known
  <2>3. PICK x : x = [at |-> "cancelWrite", company |-> c, sub |-> s]
    OBVIOUS
  <2>4. x.at = "cancelWrite" /\ x.sub = s
    BY <2>3
  <2>5. UNCHANGED subs
    BY <1>1 DEF CancelStart, dbVars
  <2>6. FlagHeld(x)'
    BY <1>u, <2>2, <2>4, <2>5 DEF FlagHeld, Looping, Confirms, Confirming
  <2> QED
    BY <1>u, <2>0, <2>3, <2>5, <2>6, FlagStep
<1>2. CASE CancelWrite(p)
  <2>1. r.sub \in Unqueued
    BY <1>2, <1>a DEF CancelWrite, At, FlagHeld
  <2>2. /\ QueuedFlagAgrees' /\ Unqueued \subseteq Unqueued'
        /\ \A t \in Known : subs'[t].isQueued <=> subs[t].isQueued
    BY <1>2, <1>a, <2>1, RequestWrites, FlagWrites
  <2>3. PICK x : Goto(p, x) /\ x.at = "cancelQueue"
    BY <1>2 DEF CancelWrite
  <2> QED
    BY <1>h, <2>2, <2>3, FlagStep
<1>3. CASE CancelQueue(p)
  <2>1. PICK x : Goto(p, x) /\ x.at \in {"cancelPromote"} \cup Calm
    BY <1>3, <1>i DEF CancelQueue
  <2>2. UNCHANGED subs
    BY <1>3 DEF CancelQueue, dbVars
  <2> QED
    BY <1>h, <1>u, <2>1, <2>2, FlagStep
<1>4. CASE CancelPromote(p)
  <2>1. QueuedFlagAgrees' /\ Unqueued \subseteq Unqueued' /\ r.at \in Promoting
    BY <1>4, <1>a, RequestWrites, FlagWrites DEF CancelPromote, At, Promoting
  <2>2. PICK x : Goto(p, x) /\ x.at \in Calm
    BY <1>4, <1>i DEF CancelPromote, Calm
  <2> QED
    BY <1>h, <2>1, <2>2, FlagStep
<1>5. CASE CancelReread(p)
  <2>1. PICK x : Goto(p, x) /\ x.at \in Calm
    BY <1>5, CalmSteps DEF CalmStep
  <2>2. UNCHANGED subs
    BY <1>5 DEF CancelReread, dbVars
  <2> QED
    BY <1>h, <1>u, <2>1, <2>2, FlagStep
<1>6. CASE CancelReorder(p)
  <2>1. /\ QueuedFlagAgrees' /\ Unqueued \subseteq Unqueued'
        /\ \A t \in Known : subs'[t].isQueued <=> subs[t].isQueued
    BY <1>6, <1>a, RequestWrites, FlagWrites
  <2>2. PICK x : Goto(p, x) /\ x.at \in Calm
    BY <1>6, <1>i DEF CancelReorder, Calm
  <2> QED
    BY <1>h, <2>1, <2>2, FlagStep
<1> QED
  BY <1>1, <1>2, <1>3, <1>4, <1>5, <1>6 DEF CancelStep

LEMMA FlagInvInductive ==
    ASSUME TypeOK, LifeInv, FlagInv, Apart(Confirms, Promoting), [Next]_vars
    PROVE  FlagInv'
<1>t. req \in [Slot -> Activity]
  BY DEF TypeOK
<1>a. QueuedFlagAgrees
  BY DEF FlagInv
<1>u. UNCHANGED subs => Unqueued' = Unqueued /\ QueuedFlagAgrees'
  BY <1>a DEF Unqueued, Known, QueuedFlagAgrees
<1> USE DEF Looping, Confirms, Confirming
<1>c. ASSUME NEW p \in Slot, CalmStep(p)
      PROVE  FlagInv'
  <2>1. PICK x : Goto(p, x) /\ x.at \in Calm
    BY <1>c DEF CalmStep
  <2>2. FlagHeld(x)'
    BY <2>1 DEF FlagHeld, Calm
  <2> QED
    BY <1>c, <1>u, <2>1, <2>2, FlagStep DEF CalmStep
<1>r. ASSUME NEW p \in Slot, NEW x, Goto(p, x), FlagHeld(x)', UNCHANGED subs
      PROVE  FlagInv'
  BY <1>r, <1>u, FlagStep
<1>1. CASE Tick \/ Charge \/ UNCHANGED vars
  <2>1. UNCHANGED <<subs, req>>
    BY <1>1 DEF Tick, Charge, vars, dbVars
  <2>2. ASSUME NEW q \in Slot PROVE FlagHeld(req[q])'
    <3>1. FlagHeld(req[q])
      BY DEF FlagInv
    <3> QED
      BY <1>u, <2>1, <3>1 DEF FlagHeld
  <2> QED
    BY <1>u, <2>1, <2>2 DEF FlagInv
<1>2. ASSUME NEW p \in Slot, CheckoutStep(p)
      PROVE  FlagInv'
  <2>1. CASE CreateStart(p) \/ CreatePayment(p) \/ CreateQueue(p)
    <3>1. PICK x : Goto(p, x) /\ x.at \in {"createPayment", "createQueue", "createSub"}
      BY <2>1, CreateLabels
    <3>2. FlagHeld(x)'
      BY <3>1 DEF FlagHeld
    <3> QED
      BY <1>r, <2>1, <3>1, <3>2 DEF CreateStart, CreatePayment, CreateQueue, dbVars
  <2>2. CASE CreateSub(p)
    <3>1. PICK s \in Sub : Inserts(s, req[p]) /\ \E x : Goto(p, x) /\ x.at = "createLink"
      BY <2>2, RequestWrites
    <3>2. PICK x : Goto(p, x) /\ x.at = "createLink"
      BY <3>1
    <3>3. FlagHeld(x)'
      BY <3>2 DEF FlagHeld
    <3>4. s \notin Known /\ \A t \in Sub \ {s} : subs'[t] = subs[t]
      BY <3>1 DEF Inserts
    <3>5. subs'[s].isQueued <=> subs'[s].status = "queued"
      BY <3>1 DEF Inserts
    <3>6. QueuedFlagAgrees'
      BY <1>a, <3>4, <3>5 DEF QueuedFlagAgrees
    <3>7. \A t \in Known : subs'[t] = subs[t]
      BY <3>4 DEF Known
    <3>8. Unqueued \subseteq Unqueued'
      BY <3>7 DEF Unqueued, Known
    <3> QED
      BY <3>2, <3>3, <3>6, <3>7, <3>8, FlagStep
  <2>3. CASE ConfirmStart(p)
    <3>1. PICK s, i : Goto(p, [at |-> "confirmFind", sub |-> s, intent |-> i,
                               queued |-> subs[s].isQueued])
      BY <2>3 DEF ConfirmStart
    <3>2. PICK b : b = subs[s].isQueued
      OBVIOUS
    <3>3. UNCHANGED subs
      BY <2>3 DEF ConfirmStart, dbVars
    <3>4. PICK x : x = [at |-> "confirmFind", sub |-> s, intent |-> i, queued |-> b]
      OBVIOUS
    <3>5. x.at = "confirmFind" /\ x.sub = s /\ (x.queued <=> b)
      BY <3>4
    <3>6. FlagHeld(x)'
      BY <3>2, <3>3, <3>5 DEF FlagHeld
    <3> QED
      BY <1>r, <3>1, <3>2, <3>3, <3>4, <3>6
  <2>4. CASE ConfirmFind(p) \/ ConfirmInvoice(p) \/ ConfirmComplete(p)
    <3>1. PICK x : /\ Goto(p, x)
                   /\ \/ x.at = "idle"
                      \/ /\ x.at \in Confirming
                         /\ x.sub = req[p].sub /\ x.queued = req[p].queued
      BY <2>4, ConfirmCarries
    <3>2. req[p].at \in Confirms /\ UNCHANGED subs
      BY <2>4, ConfirmCarries
    <3>3. req[p].queued <=> subs[req[p].sub].isQueued
      BY <3>2 DEF FlagInv, FlagHeld
    <3>4. FlagHeld(x)'
      BY <3>1, <3>2, <3>3 DEF FlagHeld
    <3> QED
      BY <1>r, <3>1, <3>2, <3>4
  <2>5. CASE ConfirmStatus(p)
    <3>1. Turns(req[p].sub, IF req[p].queued THEN "queued" ELSE "active")
      BY <2>5, RequestWrites
    <3>2. req[p].queued <=> subs[req[p].sub].isQueued
      BY <2>5 DEF ConfirmStatus, At, FlagInv, FlagHeld
    <3>3. PICK s \in Sub : s = req[p].sub
      BY <3>1 DEF Turns, Only
    <3>4. /\ \A t \in Sub \ {s} : subs'[t] = subs[t]
          /\ subs'[s].isQueued <=> subs[s].isQueued
          /\ subs'[s].status = IF req[p].queued THEN "queued" ELSE "active"
      BY <3>1, <3>3 DEF Turns, Only
    <3>5. subs'[s].status = "queued" <=> subs'[s].isQueued
      BY <3>2, <3>3, <3>4
    <3>6. QueuedFlagAgrees'
      BY <1>a, <3>4, <3>5 DEF QueuedFlagAgrees
    <3>7. \A t \in Sub : subs'[t].isQueued <=> subs[t].isQueued
      BY <3>4
    <3>8. Unqueued \subseteq Unqueued' /\ Known \subseteq Sub
      BY <3>4, <3>7 DEF Unqueued, Known
    <3>9. FlagHeld(Idle)'
      BY DEF FlagHeld, Idle
    <3>10. Goto(p, Idle)
      BY <2>5 DEF ConfirmStatus, Done
    <3> QED
      BY <3>6, <3>7, <3>8, <3>9, <3>10, FlagStep
  <2>6. CASE CreateLink(p) \/ RetryStart(p) \/ RetryFind(p) \/ RetryIssue(p)
    BY <1>c, <2>6, CalmSteps
  <2> QED
    BY <1>2, <2>1, <2>2, <2>3, <2>4, <2>5, <2>6 DEF CheckoutStep
<1>3. ASSUME NEW p \in Slot, ProcessStep(p)
      PROVE  FlagInv'
  BY <1>3, FlagProcess
<1>4. ASSUME NEW p \in Slot, CancelStep(p)
      PROVE  FlagInv'
  BY <1>4, FlagCancel
<1>5. ASSUME NEW p \in Slot, AddonStep(p) \/ HandlerFails(p)
      PROVE  FlagInv'
  BY <1>c, <1>5, CalmSteps
<1> QED
  BY <1>1, <1>2, <1>3, <1>4, <1>5 DEF Next, Step

\* The status and the flag that the queue's queries both test agree in every
\* behaviour in which no promotion runs beside a confirm request, however
\* the other handlers overlap and fail.
THEOREM FlagsAgree == Spec /\ []Apart(Confirms, Promoting) => []QueuedFlagAgrees
<1>1. Init => FlagInv
  <2>1. SUFFICES ASSUME Init PROVE FlagInv
    OBVIOUS
  <2>2. QueuedFlagAgrees
    BY <2>1 DEF Init, StoreInit, NoSubDoc, QueuedFlagAgrees
  <2>3. \A p \in Slot : FlagHeld(req[p])
    BY <2>1 DEF Init, StoreInit, Idle, FlagHeld, Looping, Confirms, Confirming
  <2> QED
    BY <2>2, <2>3 DEF FlagInv
<1>2. Init => MoneyInv
  BY InitMoney
<1>3. MoneyInv /\ [Next]_vars => MoneyInv'
  BY StepMoney
<1>4. MoneyInv /\ FlagInv /\ Apart(Confirms, Promoting) /\ [Next]_vars => FlagInv'
  BY FlagInvInductive DEF MoneyInv
<1>5. FlagInv => QueuedFlagAgrees
  BY DEF FlagInv
<1> QED
  BY <1>1, <1>2, <1>3, <1>4, <1>5, PTL DEF Spec

-----------------------------------------------------------------------------
(***************************************************************************)
(* Expiry.  The job decides what has expired in one read and writes it one *)
(* document at a time, with a whole promotion between two writes.  Nothing *)
(* moves an endDate but the promotion of a cancel request, which gives the *)
(* one it promotes a full duration from now: while none runs beside the    *)
(* job's loop, what the job still holds is still over.                     *)
(***************************************************************************)
Lapsed == {s \in Known : subs[s].endDate < now}

ExpiryHeld(r) == r.at \in Looping => r.expired \in Seq(Lapsed)

ExpiryInv == NoEarlyExpiry /\ \A p \in Slot : ExpiryHeld(req[p])

\* No step but the promotion of cancel takes a subscription back from the past.
Keeps == Lapsed \subseteq Lapsed'

LEMMA ExpiryStep ==
    ASSUME TypeOK, ExpiryInv, Apart(Looping, {"cancelPromote"}),
           NEW p \in Slot, NEW x, Goto(p, x), ExpiryHeld(x)', NoEarlyExpiry',
           Keeps \/ req[p].at = "cancelPromote"
    PROVE  ExpiryInv'
<1>t. req \in [Slot -> Activity]
  BY DEF TypeOK
<1>1. SUFFICES ASSUME NEW q \in Slot PROVE ExpiryHeld(req[q])'
  BY DEF ExpiryInv
<1>2. CASE q = p
  <2>1. req'[q] = x
    BY <1>t, <1>2 DEF Goto
  <2> QED
    BY <2>1 DEF ExpiryHeld
<1>3. CASE q # p
  <2>1. req'[q] = req[q]
    BY <1>t, <1>3 DEF Goto
  <2>2. ExpiryHeld(req[q])
    BY DEF ExpiryInv
  <2>3. req[q].at \in Looping => Seq(Lapsed) \subseteq Seq(Lapsed')
    BY <1>3, SeqMonotone DEF Apart, Keeps
  <2> QED
    BY <2>1, <2>2, <2>3 DEF ExpiryHeld
<1> QED
  BY <1>2, <1>3

\* What a write of one subscription leaves of the dates.
LEMMA ExpiryWrites ==
    ASSUME TypeOK, NoEarlyExpiry, now' = now, NEW s
    PROVE  /\ Files(s) => NoEarlyExpiry' /\ Keeps
           /\ Promotes(s) => NoEarlyExpiry'
           /\ Promotes(s) /\ subs'[s].endDate = subs[s].endDate => Keeps
           /\ \A status \in {"active", "queued", "cancelled"} :
                Turns(s, status) => NoEarlyExpiry' /\ Keeps
           /\ Turns(s, "expired") /\ s \in Lapsed => NoEarlyExpiry' /\ Keeps
           /\ UNCHANGED subs => NoEarlyExpiry' /\ Keeps
<1>1. Files(s) => NoEarlyExpiry' /\ Keeps
  <2>1. Files(s) => \A t \in Sub : /\ subs'[t].status = subs[t].status
                                   /\ subs'[t].endDate = subs[t].endDate
    BY DEF Files, Only
  <2> QED
    BY <2>1 DEF NoEarlyExpiry, Keeps, Lapsed, Known
<1>2. Promotes(s) => NoEarlyExpiry'
  BY DEF Promotes, Only, NoEarlyExpiry
<1>3. Promotes(s) /\ subs'[s].endDate = subs[s].endDate => Keeps
  BY DEF Promotes, Only, Keeps, Lapsed, Known
<1>4. ASSUME NEW status \in {"active", "queued", "cancelled"}, Turns(s, status)
      PROVE  NoEarlyExpiry' /\ Keeps
  <2>1. /\ \A t \in Sub \ {s} : subs'[t] = subs[t]
        /\ subs'[s].status = status /\ subs'[s].endDate = subs[s].endDate
    BY <1>4 DEF Turns, Only
  <2>2. NoEarlyExpiry'
    BY <2>1 DEF NoEarlyExpiry
  <2>3. Keeps
    BY <2>1 DEF Keeps, Lapsed, Known
  <2> QED
    BY <2>2, <2>3
<1>5. ASSUME Turns(s, "expired"), s \in Lapsed
      PROVE  NoEarlyExpiry' /\ Keeps
  <2>1. /\ \A t \in Sub \ {s} : subs'[t] = subs[t]
        /\ subs'[s].status = "expired" /\ subs'[s].endDate = subs[s].endDate
    BY <1>5 DEF Turns, Only
  <2>2. NoEarlyExpiry'
    BY <1>5, <2>1 DEF NoEarlyExpiry, Lapsed
  <2>3. Keeps
    BY <2>1 DEF Keeps, Lapsed, Known
  <2> QED
    BY <2>2, <2>3
<1>6. UNCHANGED subs => NoEarlyExpiry' /\ Keeps
  BY DEF NoEarlyExpiry, Keeps, Lapsed, Known
<1> QED
  BY <1>1, <1>2, <1>3, <1>4, <1>5, <1>6

LEMMA ExpiryProcess ==
    ASSUME TypeOK, LifeInv, ExpiryInv, Apart(Looping, {"cancelPromote"}),
           NEW p \in Slot, ProcessStep(p)
    PROVE  ExpiryInv'
<1> DEFINE r == req[p]
<1>a. NoEarlyExpiry /\ ExpiryHeld(r)
  BY DEF ExpiryInv
<1>e. r.at \in Looping => r.expired \in Seq(Lapsed)
  BY <1>a DEF ExpiryHeld
<1>n. now' = now
  BY DEF ProcessStep, ProcessStart, ExpireNext, PromoteFind, Promote, Renumber,
     ReadyFind, ReadyCheck, ReadyActivate
<1>x. Expired \subseteq Seq(Lapsed)
  <2> DEFINE S == {s \in Sub : subs[s].status = "active" /\ ~subs[s].isQueued /\ subs[s].endDate < now}
  <2>1. S \subseteq Sub /\ S \subseteq Lapsed
    BY DEF Lapsed, Known
  <2>2. Expired = SetToSeqs(S)
    BY DEF Expired
  <2>3. SetToSeqs(S) \subseteq Seq(S)
    BY <2>1, EnumerationWithin
  <2> HIDE DEF S
  <2> QED
    BY <2>1, <2>2, <2>3, SeqMonotone
<1>1. ExpireNext(p) => NoEarlyExpiry' /\ Keeps
  <2>1. SUFFICES ASSUME ExpireNext(p) PROVE NoEarlyExpiry' /\ Keeps
    OBVIOUS
  <2>2. r.expired \in NonEmpty(Known) /\ Turns(Head(r.expired), "expired")
    BY <2>1, JobWrites
  <2>3. r.expired \in NonEmpty(Lapsed)
    BY <1>e, <2>1, <2>2 DEF ExpireNext, At, Looping, NonEmpty
  <2>4. Head(r.expired) \in Lapsed
    BY <2>3, HeadAndTail
  <2> QED
    BY <1>a, <1>n, <2>2, <2>4, ExpiryWrites
<1>2. Promote(p) => NoEarlyExpiry' /\ Keeps
  BY <1>a, <1>n, JobWrites, ExpiryWrites
<1>3. ReadyActivate(p) => NoEarlyExpiry' /\ Keeps
  BY <1>a, <1>n, JobWrites, ExpiryWrites
<1>4. Renumber(p) => NoEarlyExpiry' /\ Keeps
  BY <1>a, <1>n, JobWrites, ExpiryWrites
<1>5. ProcessStart(p) \/ PromoteFind(p) \/ ReadyFind(p) \/ ReadyCheck(p) => NoEarlyExpiry' /\ Keeps
  <2>1. ProcessStart(p) \/ PromoteFind(p) \/ ReadyFind(p) \/ ReadyCheck(p) => UNCHANGED subs
    BY DEF ProcessStart, PromoteFind, ReadyFind, ReadyCheck, dbVars
  <2> QED
    BY <1>a, <1>n, <2>1, ExpiryWrites
<1>6. NoEarlyExpiry' /\ Keeps
  BY <1>1, <1>2, <1>3, <1>4, <1>5 DEF ProcessStep
<1>7. PICK x : /\ Goto(p, x)
               /\ x.at \in Looping \cup Calm \cup {"readyFind"}
               /\ x.at \in Looping => x.expired \in Seq(Lapsed)
  BY <1>e, <1>x, LoopCarries
<1>8. ExpiryHeld(x)'
  <2>1. Seq(Lapsed) \subseteq Seq(Lapsed')
    BY <1>6, SeqMonotone DEF Keeps
  <2> QED
    BY <1>7, <2>1 DEF ExpiryHeld
<1> QED
  BY <1>6, <1>7, <1>8, ExpiryStep

LEMMA ExpiryInvInductive ==
    ASSUME TypeOK, LifeInv, ExpiryInv, Apart(Looping, {"cancelPromote"}), [Next]_vars
    PROVE  ExpiryInv'
<1>t. now \in Nat /\ subs \in [Sub -> SubDoc]
  BY DEF TypeOK, StoreTypeOK
<1>a. NoEarlyExpiry
  BY DEF ExpiryInv
<1>1. CASE Tick \/ Charge \/ UNCHANGED vars
  <2>1. UNCHANGED <<subs, req>> /\ now' \in {now, now + 1}
    BY <1>1 DEF Tick, Charge, vars, dbVars
  <2>2. \A t \in Sub : subs[t].endDate < now => subs'[t].endDate < now'
    <3>1. \A t \in Sub : subs[t].endDate \in Nat
      BY <1>t DEF SubDoc
    <3> QED
      BY <1>t, <2>1, <3>1
  <2>3. NoEarlyExpiry' /\ Keeps
    BY <1>a, <2>1, <2>2 DEF NoEarlyExpiry, Keeps, Lapsed, Known
  <2>4. Seq(Lapsed) \subseteq Seq(Lapsed')
    BY <2>3, SeqMonotone DEF Keeps
  <2>5. ASSUME NEW q \in Slot PROVE ExpiryHeld(req[q])'
    <3>1. ExpiryHeld(req[q])
      BY DEF ExpiryInv
    <3> QED
      BY <2>1, <2>4, <3>1 DEF ExpiryHeld
  <2> QED
    BY <2>3, <2>5 DEF ExpiryInv
<1>2. ASSUME NEW p \in Slot, ProcessStep(p)
      PROVE  ExpiryInv'
  BY <1>2, ExpiryProcess
<1>3. ASSUME NEW p \in Slot, CheckoutStep(p) \/ CancelStep(p) \/ AddonStep(p) \/ HandlerFails(p)
      PROVE  ExpiryInv'
  <2> DEFINE Quiet == NoEarlyExpiry' /\ (Keeps \/ req[p].at = "cancelPromote")
  <2>1. PICK x : Goto(p, x) /\ x.at \notin Looping
    BY <1>3, OthersCarryNone
  <2>2. ExpiryHeld(x)'
    BY <2>1 DEF ExpiryHeld
  <2>n. now' = now
    BY <1>3 DEF CheckoutStep, CreateStart, CreatePayment, CreateQueue, CreateSub, CreateLink,
       ConfirmStart, ConfirmFind, ConfirmInvoice, ConfirmComplete, ConfirmStatus,
       RetryStart, RetryFind, RetryIssue, CancelStep, CancelStart, CancelWrite, CancelQueue,
       CancelPromote, CancelReread, CancelReorder, AddonStep, AddonStart, AddonPayment,
       AddonConfirm, AddonCredit, AddonComplete, HandlerFails
  <2>u. UNCHANGED subs => Quiet
    BY <1>a, <2>n, ExpiryWrites
  <2>3. ASSUME CreateStart(p) \/ CreatePayment(p) \/ CreateQueue(p) \/ CreateLink(p)
               \/ ConfirmStart(p) \/ ConfirmFind(p) \/ ConfirmInvoice(p) \/ ConfirmComplete(p)
               \/ RetryStart(p) \/ RetryFind(p) \/ RetryIssue(p)
               \/ CancelStart(p) \/ CancelQueue(p) \/ CancelReread(p)
               \/ AddonStep(p) \/ HandlerFails(p)
        PROVE  Quiet
    <3>1. UNCHANGED subs
      BY <2>3 DEF CreateStart, CreatePayment, CreateQueue, CreateLink, ConfirmStart, ConfirmFind,
         ConfirmInvoice, ConfirmComplete, RetryStart, RetryFind, RetryIssue, CancelStart,
         CancelQueue, CancelReread, AddonStep, AddonStart, AddonPayment, AddonConfirm,
         AddonCredit, AddonComplete, HandlerFails, dbVars
    <3> QED
      BY <2>u, <3>1
  <2>4. CreateSub(p) => Quiet
    <3>1. SUFFICES ASSUME CreateSub(p) PROVE Quiet
      OBVIOUS
    <3>2. PICK s \in Sub : Inserts(s, req[p])
      BY <3>1, RequestWrites
    <3>3. s \notin Known /\ \A t \in Sub \ {s} : subs'[t] = subs[t]
      BY <3>2 DEF Inserts
    <3>4. subs'[s].status # "expired"
      BY <3>2 DEF Inserts
    <3>5. NoEarlyExpiry'
      BY <1>a, <2>n, <3>3, <3>4 DEF NoEarlyExpiry
    <3>6. Keeps
      BY <2>n, <3>3 DEF Keeps, Lapsed, Known
    <3> QED
      BY <3>5, <3>6
  <2>5. ConfirmStatus(p) => Quiet
    <3>1. PICK status \in {"active", "queued", "cancelled"} :
             status = IF req[p].queued THEN "queued" ELSE "active"
      OBVIOUS
    <3>2. ConfirmStatus(p) => Turns(req[p].sub, status)
      BY <3>1, RequestWrites
    <3> QED
      BY <1>a, <2>n, <3>2, ExpiryWrites
  <2>6. CancelWrite(p) => Quiet
    BY <1>a, <2>n, RequestWrites, ExpiryWrites
  <2>7. CancelPromote(p) => Quiet
    BY <1>a, <2>n, RequestWrites, ExpiryWrites DEF CancelPromote, At
  <2>8. CancelReorder(p) => Quiet
    BY <1>a, <2>n, RequestWrites, ExpiryWrites
  <2>9. Quiet
    <3> HIDE DEF Quiet
    <3> QED
      BY <1>3, <2>3, <2>4, <2>5, <2>6, <2>7, <2>8 DEF CheckoutStep, CancelStep
  <2> QED
    BY <2>1, <2>2, <2>9, ExpiryStep
<1> QED
  BY <1>1, <1>2, <1>3 DEF Next, Step

\* No subscription expires before the last day it was sold for, in every
\* behaviour in which no cancel request promotes while the job is in the loop
\* over what it found expired.
THEOREM NobodyExpiresEarly == Spec /\ []Apart(Looping, {"cancelPromote"}) => []NoEarlyExpiry
<1>1. Init => ExpiryInv
  <2>1. SUFFICES ASSUME Init PROVE ExpiryInv
    OBVIOUS
  <2>2. NoEarlyExpiry
    BY <2>1 DEF Init, StoreInit, NoSubDoc, NoEarlyExpiry
  <2>3. \A p \in Slot : ExpiryHeld(req[p])
    BY <2>1 DEF Init, StoreInit, Idle, ExpiryHeld, Looping
  <2> QED
    BY <2>2, <2>3 DEF ExpiryInv
<1>2. Init => MoneyInv
  BY InitMoney
<1>3. MoneyInv /\ [Next]_vars => MoneyInv'
  BY StepMoney
<1>4. MoneyInv /\ ExpiryInv /\ Apart(Looping, {"cancelPromote"}) /\ [Next]_vars => ExpiryInv'
  BY ExpiryInvInductive DEF MoneyInv
<1>5. ExpiryInv => NoEarlyExpiry
  BY DEF ExpiryInv
<1> QED
  BY <1>1, <1>2, <1>3, <1>4, <1>5, PTL DEF Spec

-----------------------------------------------------------------------------
(***************************************************************************)
(* The head of the queue.  A purchase queues behind the active one it read *)
(* two awaits earlier, and cancelling or expiring that one leaves a queue  *)
(* nobody is ahead of until the same handler has promoted its successor.   *)
(* That gap is always somebody's: the handler that opened it still owes    *)
(* the company a promotion, and whatever the others do meanwhile it either *)
(* makes it or finds nobody waiting.  Only a purchase that overlaps the    *)
(* end of the one it relies on, or a confirm that takes a promotion back,  *)
(* leaves a queue that nobody owes anything.                               *)
(***************************************************************************)
Purchasing == {"createPayment", "createQueue", "createSub"}

Ending == {"cancelWrite", "expireNext"}

Leads(t, c) ==
    subs[t].company = c /\ ~subs[t].isQueued /\ subs[t].status \in {"active", "pending"}

Led(c) == \E t \in Sub : Leads(t, c)

HasQueue(c) == \E s \in Waiting : subs[s].company = c

\* r has still to promote for c.
Owes(r, c) ==
    \/ r.at \in {"promoteFind", "cancelQueue"} /\ r.company = c
    \/ r.at = "promote" /\ subs[Head(r.queue)].company = c
    \/ r.at = "cancelPromote" /\ subs[Head(r.queue).id].company = c

LedHeld(r) ==
    /\ r.at \in Purchasing /\ r.active # Null =>
          r.active \in Sub /\ Leads(r.active, r.company)
    /\ r.at = "cancelWrite" => subs[r.sub].company = r.company

LedInv ==
    fails = 0 =>
        /\ \A c \in Company \cup {Null} :
              HasQueue(c) => Led(c) \/ \E p \in Slot : Owes(req[p], c)
        /\ \A p \in Slot : LedHeld(req[p])

\* A step that writes no subscription.
LEMMA LedRead ==
    ASSUME TypeOK, LedInv, NEW p \in Slot, NEW x, Goto(p, x), UNCHANGED <<subs, fails>>,
           fails = 0 => LedHeld(x),
           \A c : Owes(req[p], c) /\ HasQueue(c) => Owes(x, c)
    PROVE  LedInv'
<1>t. req \in [Slot -> Activity]
  BY DEF TypeOK
<1>1. SUFFICES ASSUME fails = 0 PROVE LedInv'
  BY DEF LedInv
<1>2. req' = [req EXCEPT ![p] = x]
  BY DEF Goto
<1>3. req'[p] = x /\ \A q \in Slot \ {p} : req'[q] = req[q]
  BY <1>t, <1>2
<1>4. ASSUME NEW q \in Slot PROVE LedHeld(req[q])'
  <2>1. LedHeld(x) /\ LedHeld(req[q])
    BY <1>1 DEF LedInv
  <2>2. LedHeld(x)' /\ (q # p => req'[q] = req[q])
    BY <1>3, <2>1 DEF LedHeld, Leads
  <2> QED
    BY <1>3, <2>1, <2>2 DEF LedHeld, Leads
<1>5. ASSUME NEW c \in Company \cup {Null}, HasQueue(c)'
      PROVE  Led(c)' \/ (\E q \in Slot : Owes(req[q], c))'
  <2>1. HasQueue(c)
    BY <1>5 DEF HasQueue, Waiting
  <2>2. CASE Led(c)
    BY <2>2 DEF Led, Leads
  <2>3. CASE \E q \in Slot : Owes(req[q], c)
    <3>1. PICK q \in Slot : Owes(req[q], c)
      BY <2>3
    <3>2. Owes(req'[q], c)
      BY <1>3, <2>1, <3>1
    <3>3. Owes(req[q], c)'
      BY <3>2 DEF Owes
    <3> QED
      BY <3>3
  <2> QED
    BY <1>1, <2>1, <2>2, <2>3 DEF LedInv
<1> QED
  BY <1>4, <1>5 DEF LedInv

\* Another handler owes the company a promotion.
OthersOwe(p, c) == \E q \in Slot \ {p} : Owes(req[q], c)

LeadersStay == \A t \in Sub : \A c : Leads(t, c) => Leads(t, c)'

CompaniesStay == \A t \in Known : subs'[t].company = subs[t].company

\* Who an owing handler is to promote is known.
LEMMA OwedKnown ==
    ASSUME TypeOK, LifeInv, NEW q \in Slot
    PROVE  /\ req[q].at = "promote" => \E s \in Known : s = Head(req[q].queue)
           /\ req[q].at = "cancelPromote" => \E s \in Known : s = Head(req[q].queue).id
<1>t. req[q] \in Activity
  BY DEF TypeOK
<1>l. SlotLife(req[q])
  BY DEF LifeInv
<1>k. Queueable \subseteq Known
  BY DEF Queueable
<1>1. ASSUME req[q].at = "promote" PROVE \E s \in Known : s = Head(req[q].queue)
  <2>1. req[q].queue \in NonEmpty(Sub) /\ req[q].queue \in Seq(Queueable)
    BY <1>1, <1>t, <1>l, QueueLocals DEF SlotLife
  <2>2. req[q].queue \in NonEmpty(Queueable)
    BY <2>1 DEF NonEmpty
  <2> QED
    BY <1>k, <2>2, HeadAndTail
<1>2. ASSUME req[q].at = "cancelPromote" PROVE \E s \in Known : s = Head(req[q].queue).id
  <2>1. req[q].queue \in NonEmpty(Snapshot) /\ req[q].queue \in Seq([id: Queueable, endDate: Nat])
    BY <1>2, <1>t, <1>l, QueueLocals DEF SlotLife
  <2>2. req[q].queue \in NonEmpty([id: Queueable, endDate: Nat])
    BY <2>1 DEF NonEmpty
  <2>3. Head(req[q].queue) \in [id: Queueable, endDate: Nat]
    BY <2>2, HeadAndTail
  <2> QED
    BY <1>k, <2>3
<1> QED
  BY <1>1, <1>2

\* A step that does.  What the others owe they go on owing.
LEMMA LedWritten ==
    ASSUME TypeOK, LifeInv, LedInv, Apart(Purchasing, Ending), NEW p \in Slot, fails = 0,
           NEW x, Goto(p, x), LedHeld(x)', CompaniesStay,
           req[p].at \in Ending \/ LeadersStay,
           \A c \in Company \cup {Null} :
               HasQueue(c)' => Led(c)' \/ Owes(x, c)' \/ OthersOwe(p, c)
    PROVE  LedInv'
<1>t. req \in [Slot -> Activity]
  BY DEF TypeOK
<1>1. req' = [req EXCEPT ![p] = x]
  BY DEF Goto
<1>2. req'[p] = x /\ \A q \in Slot \ {p} : req'[q] = req[q]
  BY <1>t, <1>1
<1>3. ASSUME NEW q \in Slot \ {p} PROVE LedHeld(req[q])'
  <2>1. LedHeld(req[q]) /\ SlotLife(req[q]) /\ req'[q] = req[q]
    BY <1>2 DEF LedInv, LifeInv
  <2>2. req[q].at = "cancelWrite" => subs'[req[q].sub].company = req[q].company
    BY <2>1 DEF LedHeld, SlotLife, CompaniesStay
  <2>3. ASSUME req[q].at \in Purchasing, req[q].active # Null
        PROVE  req[q].active \in Sub /\ Leads(req[q].active, req[q].company)
                 /\ LeadersStay
    BY <2>1, <2>3 DEF LedHeld, Apart
  <2>4. ASSUME req[q].at \in Purchasing, req[q].active # Null
        PROVE  \E t \in Sub : \E c : /\ t = req[q].active /\ c = req[q].company
                                     /\ Leads(t, c)'
    BY <2>3, <2>4 DEF LeadersStay
  <2> QED
    BY <2>1, <2>2, <2>4 DEF LedHeld, Leads
<1>4. ASSUME NEW q \in Slot PROVE LedHeld(req[q])'
  BY <1>2, <1>3 DEF LedHeld, Leads
<1>5. ASSUME NEW c, NEW q \in Slot \ {p}, Owes(req[q], c)
      PROVE  Owes(req[q], c)'
  BY <1>2, <1>5, OwedKnown DEF Owes, CompaniesStay
<1>6. ASSUME NEW c \in Company \cup {Null}, HasQueue(c)'
      PROVE  Led(c)' \/ (\E q \in Slot : Owes(req[q], c))'
  <2>1. Owes(x, c)' => Owes(req[p], c)'
    BY <1>2 DEF Owes
  <2>2. OthersOwe(p, c) => (\E q \in Slot : Owes(req[q], c))'
    <3>1. SUFFICES ASSUME NEW q \in Slot \ {p}, Owes(req[q], c)
                   PROVE  (\E qq \in Slot : Owes(req[qq], c))'
      BY DEF OthersOwe
    <3>2. Owes(req[q], c)'
      BY <1>5, <3>1
    <3> QED
      BY <3>2
  <2> QED
    BY <1>6, <2>1, <2>2
<1> QED
  BY <1>4, <1>6 DEF LedInv

\* What a step finds.
LEMMA LedBefore ==
    ASSUME LedInv, fails = 0, NEW p \in Slot
    PROVE  /\ \A c \in Company \cup {Null} :
                 HasQueue(c) => Led(c) \/ Owes(req[p], c) \/ OthersOwe(p, c)
           /\ LedHeld(req[p])
  BY DEF LedInv, OthersOwe

\* What a write of one subscription leaves of the queues and their heads.
LEMMA LedWrites ==
    ASSUME TypeOK, NEW s
    PROVE  /\ Files(s) \/ Promotes(s) =>
                /\ \A c : (Led(c) => Led(c)') /\ (HasQueue(c)' => HasQueue(c))
                /\ LeadersStay
           /\ Promotes(s) =>
                /\ \A c : subs[s].company = c => Led(c)'
           /\ \A status \in {"expired", "cancelled"} : Turns(s, status) =>
                \A c : /\ HasQueue(c)' => HasQueue(c)
                       /\ subs[s].company # c /\ Led(c) => Led(c)'
           /\ Files(s) \/ Promotes(s) \/ (\E status : Turns(s, status)) => CompaniesStay
<1>1. ASSUME Files(s), NEW c
      PROVE  (Led(c) => Led(c)') /\ (HasQueue(c)' => HasQueue(c))
  <2>1. \A t \in Sub : /\ subs'[t].status = subs[t].status
                       /\ subs'[t].company = subs[t].company
                       /\ subs'[t].isQueued <=> subs[t].isQueued
    BY <1>1 DEF Files, Only
  <2> QED
    BY <2>1 DEF Led, Leads, HasQueue, Waiting
<1>2. ASSUME Promotes(s), NEW c
      PROVE  /\ (Led(c) => Led(c)') /\ (HasQueue(c)' => HasQueue(c))
             /\ subs[s].company = c => Led(c)'
  <2>1. /\ s \in Sub
        /\ \A t \in Sub \ {s} : subs'[t] = subs[t]
        /\ subs'[s].company = subs[s].company
        /\ subs'[s].status = "active" /\ ~subs'[s].isQueued
    BY <1>2 DEF Promotes, Only
  <2>2. ASSUME NEW t \in Sub, Leads(t, c) PROVE Leads(t, c)'
    BY <2>1, <2>2 DEF Leads
  <2>3. Led(c) => Led(c)'
    BY <2>2 DEF Led
  <2>4. HasQueue(c)' => HasQueue(c)
    BY <2>1 DEF HasQueue, Waiting
  <2>5. subs[s].company = c => Led(c)'
    BY <2>1 DEF Led, Leads
  <2> QED
    BY <2>3, <2>4, <2>5
<1>3. ASSUME NEW status \in {"expired", "cancelled"}, Turns(s, status), NEW c
      PROVE  /\ HasQueue(c)' => HasQueue(c)
             /\ subs[s].company # c /\ Led(c) => Led(c)'
  <2>1. /\ s \in Sub
        /\ \A t \in Sub \ {s} : subs'[t] = subs[t]
        /\ subs'[s].status = status
    BY <1>3 DEF Turns, Only
  <2>2. HasQueue(c)' => HasQueue(c)
    BY <2>1 DEF HasQueue, Waiting
  <2>3. subs[s].company # c /\ Led(c) => Led(c)'
    BY <2>1 DEF Led, Leads
  <2> QED
    BY <2>2, <2>3
<1>4. ASSUME Files(s) \/ Promotes(s) PROVE LeadersStay
  <2>1. CASE Files(s)
    <3>1. \A t \in Sub : /\ subs'[t].status = subs[t].status
                         /\ subs'[t].company = subs[t].company
                         /\ subs'[t].isQueued <=> subs[t].isQueued
      BY <2>1 DEF Files, Only
    <3> QED
      BY <3>1 DEF LeadersStay, Leads
  <2>2. CASE Promotes(s)
    BY <2>2 DEF Promotes, Only, LeadersStay, Leads
  <2> QED
    BY <1>4, <2>1, <2>2
<1>5. Files(s) \/ Promotes(s) \/ (\E status : Turns(s, status)) => CompaniesStay
  BY DEF Files, Promotes, Turns, Only, CompaniesStay, Known
<1> QED
  BY <1>1, <1>2, <1>3, <1>4, <1>5

\* A handler's write that only moves places, or that promotes.
LEMMA LedMoves ==
    ASSUME TypeOK, LifeInv, LedInv, Apart(Purchasing, Ending), NEW p \in Slot,
           UNCHANGED fails, NEW x, Goto(p, x), LedHeld(x)', NEW s,
           \/ Files(s) /\ \A c : ~Owes(req[p], c)
           \/ Promotes(s) /\ \A c : Owes(req[p], c) => subs[s].company = c
    PROVE  LedInv'
<1>1. SUFFICES ASSUME fails = 0 PROVE LedInv'
  BY DEF LedInv
<1>2. ASSUME NEW c \in Company \cup {Null}, HasQueue(c)'
      PROVE  Led(c)' \/ OthersOwe(p, c)
  <2>1. HasQueue(c)
    BY <1>2, LedWrites
  <2>2. Led(c) \/ Owes(req[p], c) \/ OthersOwe(p, c)
    BY <1>1, <2>1, LedBefore
  <2> QED
    BY <2>2, LedWrites
<1>3. LeadersStay /\ CompaniesStay
  BY LedWrites
<1> QED
  BY <1>1, <1>2, <1>3, LedWritten

\* What a read of a company's queue returns: nothing if nobody waits there,
\* else one that does comes first.
LEMMA QueueRead ==
    ASSUME TypeOK, NEW c, NEW q \in QueuedByCompany(c)
    PROVE  /\ q = <<>> => ~HasQueue(c)
           /\ q # <<>> => Head(q) \in Sub /\ subs[Head(q)].company = c
<1> DEFINE S == {s \in Waiting : subs[s].company = c}
<1>1. S \in SUBSET Sub
  BY DEF Waiting
<1>2. q \in SetToSeqs(S)
  BY DEF QueuedByCompany, ByPosition
<1>3. \A s \in S : subs[s].company = c
  OBVIOUS
<1>4. HasQueue(c) => S # {}
  BY DEF HasQueue
<1> HIDE DEF S
<1>5. q \in Seq(S)
  BY <1>1, <1>2, EnumerationWithin
<1>6. ASSUME q = <<>> PROVE S = {}
  <2>1. IsFiniteSet(S)
    BY <1>1, StoreAssumption, FS_Subset
  <2>2. Cardinality(S) \in Nat
    BY <2>1, FS_CardinalityType
  <2>3. q \in [1..Cardinality(S) -> S]
    BY <1>2 DEF SetToSeqs
  <2>4. 1..Cardinality(S) = {}
    <3>1. DOMAIN q = {}
      BY <1>6
    <3> QED
      BY <2>3, <3>1
  <2>5. Cardinality(S) = 0
    BY <2>2, <2>4
  <2> QED
    BY <2>1, <2>5, FS_EmptySet
<1>7. q # <<>> => q \in NonEmpty(S)
  BY <1>5 DEF NonEmpty
<1>8. q # <<>> => Head(q) \in S
  BY <1>7, HeadAndTail
<1> QED
  BY <1>1, <1>3, <1>4, <1>6, <1>8

\* At these awaits a handler owes nobody and holds no leader.
Owing == {"promoteFind", "promote", "cancelQueue", "cancelPromote"}

Holding == Purchasing \cup {"cancelWrite"}

LEMMA Owed ==
    ASSUME NEW r
    PROVE  /\ r.at \notin Owing => \A c : ~Owes(r, c)
           /\ r.at \notin Holding => LedHeld(r) /\ LedHeld(r)'
  BY DEF Owing, Holding, Purchasing, Purchasing, Owes, LedHeld

LEMMA LedProcess ==
    ASSUME TypeOK, LifeInv, LedInv, Apart(Purchasing, Ending), NEW p \in Slot, ProcessStep(p)
    PROVE  LedInv'
<1> DEFINE r == req[p]
<1>t. r \in Activity
  BY DEF TypeOK
<1>l. \A list : ExpireOrReady(list).at \notin Owing \cup Holding
  BY DEF ExpireOrReady, Owing, Holding, Purchasing
<1>c. \A list : CheckOrEnd(list).at \notin Owing \cup Holding
  BY DEF CheckOrEnd, Idle, Owing, Holding, Purchasing
<1>1. CASE ProcessStart(p)
  <2>1. PICK x : Goto(p, x) /\ x.at \notin Owing \cup Holding
    BY <1>1, <1>l DEF ProcessStart
  <2>2. r.at \notin Owing
    BY <1>1 DEF ProcessStart, Starting, At, Owing
  <2>3. UNCHANGED <<subs, fails>>
    BY <1>1 DEF ProcessStart, dbVars
  <2> QED
    BY <2>1, <2>2, <2>3, Owed, LedRead
<1>2. CASE ExpireNext(p)
  <2>1. r.expired \in NonEmpty(Known) /\ Turns(Head(r.expired), "expired")
    BY <1>2, JobWrites
  <2>2. PICK s \in Known : s = Head(r.expired)
    BY <2>1, HeadAndTail
  <2>3. PICK list, k : list = Tail(r.expired) /\ k = subs[s].company
    OBVIOUS
  <2>4. Goto(p, [at |-> "promoteFind", expired |-> list, company |-> k])
    BY <1>2, <2>2, <2>3 DEF ExpireNext
  <2>5. PICK x : x = [at |-> "promoteFind", expired |-> list, company |-> k]
    OBVIOUS
  <2>6. x.at = "promoteFind" /\ x.company = k
    BY <2>5
  <2>7. r.at = "expireNext" /\ fails' = fails
    BY <1>2 DEF ExpireNext, At
  <2>8. LedHeld(x)'
    BY <2>6, Owed DEF Holding, Purchasing
  <2>9. SUFFICES ASSUME fails = 0 PROVE LedInv'
    BY <2>7 DEF LedInv
  <2>10. ASSUME NEW c \in Company \cup {Null}, HasQueue(c)'
         PROVE  Led(c)' \/ Owes(x, c)' \/ OthersOwe(p, c)
    <3>1. HasQueue(c) /\ (k # c /\ Led(c) => Led(c)')
      BY <2>1, <2>2, <2>3, <2>10, LedWrites
    <3>2. Led(c) \/ OthersOwe(p, c)
      BY <2>7, <2>9, <3>1, LedBefore, Owed DEF Owing
    <3>3. k = c => Owes(x, c)'
      BY <2>6 DEF Owes
    <3> QED
      BY <3>1, <3>2, <3>3
  <2>11. CompaniesStay /\ r.at \in Ending
    BY <2>1, <2>7, LedWrites DEF Ending
  <2> QED
    BY <2>4, <2>5, <2>8, <2>9, <2>10, <2>11, LedWritten
<1>3. CASE PromoteFind(p)
  <2>1. PICK q \in QueuedByCompany(r.company) :
          Goto(p, IF q = <<>>
                  THEN ExpireOrReady(r.expired)
                  ELSE [at |-> "promote", expired |-> r.expired, queue |-> q])
    BY <1>3 DEF PromoteFind
  <2>2. r.at = "promoteFind" /\ UNCHANGED <<subs, fails>>
    BY <1>3 DEF PromoteFind, At, dbVars
  <2>3. \A c : Owes(r, c) => c = r.company
    BY <2>2 DEF Owes
  <2>4. CASE q = <<>>
    <3>1. PICK x : Goto(p, x) /\ x.at \notin Owing \cup Holding
      BY <1>l, <2>1, <2>4
    <3>2. ~HasQueue(r.company)
      BY <2>4, QueueRead
    <3> QED
      BY <2>2, <2>3, <3>1, <3>2, Owed, LedRead
  <2>5. CASE q # <<>>
    <3>1. PICK list : list = r.expired
      OBVIOUS
    <3>2. PICK x : x = [at |-> "promote", expired |-> list, queue |-> q]
      OBVIOUS
    <3>3. Goto(p, x) /\ x.at = "promote" /\ x.queue = q
      BY <2>1, <2>5, <3>1, <3>2
    <3>4. subs[Head(q)].company = r.company
      BY <2>5, QueueRead
    <3>5. \A c : Owes(r, c) => Owes(x, c)
      BY <2>3, <3>3, <3>4 DEF Owes
    <3>6. LedHeld(x)
      BY <3>3, Owed DEF Holding, Purchasing
    <3> QED
      BY <2>2, <3>3, <3>5, <3>6, LedRead
  <2> QED
    BY <2>4, <2>5
<1>4. CASE Promote(p)
  <2>1. PICK s : s = Head(r.queue) /\ Promotes(s)
    BY <1>4, JobWrites
  <2>2. PICK x : x = [at |-> "renumber", expired |-> r.expired,
                      queue |-> Tail(r.queue), position |-> 1]
    OBVIOUS
  <2>3. x.at \notin Owing \cup Holding
    BY <2>2 DEF Owing, Holding, Purchasing
  <2>4. Goto(p, x) \/ Goto(p, ExpireOrReady(r.expired))
    BY <1>4, <2>2 DEF Promote
  <2>5. PICK y : Goto(p, y) /\ y.at \notin Owing \cup Holding
    BY <1>l, <2>3, <2>4
  <2>6. r.at = "promote" /\ UNCHANGED fails
    BY <1>4 DEF Promote, At
  <2>7. \A c : Owes(r, c) => subs[s].company = c
    BY <2>1, <2>6 DEF Owes
  <2>8. LedHeld(y)'
    BY <2>5, Owed
  <2> QED
    BY <2>1, <2>5, <2>6, <2>7, <2>8, LedMoves
<1>5. CASE Renumber(p)
  <2>1. PICK s : Files(s)
    BY <1>5, JobWrites
  <2>2. r \in [at: {"renumber"}, expired: Seq(Sub), queue: NonEmpty(Sub), position: Nat]
    BY <1>5, <1>t, QueueLocals DEF Renumber, At
  <2>3. PICK x : x = [r EXCEPT !.queue = Tail(@), !.position = @ + 1]
    OBVIOUS
  <2>4. x.at \notin Owing \cup Holding
    BY <2>2, <2>3 DEF Owing, Holding, Purchasing
  <2>5. Goto(p, x) \/ Goto(p, ExpireOrReady(r.expired))
    BY <1>5, <2>3 DEF Renumber
  <2>6. PICK y : Goto(p, y) /\ y.at \notin Owing \cup Holding
    BY <1>l, <2>4, <2>5
  <2>7. r.at = "renumber" /\ UNCHANGED fails
    BY <1>5 DEF Renumber, At
  <2>8. LedHeld(y)' /\ \A c : ~Owes(r, c)
    BY <2>6, <2>7, Owed DEF Owing
  <2> QED
    BY <2>1, <2>6, <2>7, <2>8, LedMoves
<1>6. CASE ReadyFind(p) \/ ReadyCheck(p)
  <2>1. PICK x : Goto(p, x) /\ x.at \in Calm
    BY <1>6, CalmSteps DEF CalmStep
  <2>2. r.at \notin Owing /\ UNCHANGED <<subs, fails>>
    BY <1>6 DEF ReadyFind, ReadyCheck, At, Owing, dbVars
  <2>3. x.at \notin Owing \cup Holding
    BY <2>1 DEF Calm, Owing, Holding, Purchasing
  <2> QED
    BY <2>1, <2>2, <2>3, Owed, LedRead
<1>7. CASE ReadyActivate(p)
  <2>1. PICK s : Promotes(s)
    BY <1>7, JobWrites
  <2>2. PICK x : Goto(p, x) /\ x.at \notin Owing \cup Holding
    BY <1>7, <1>c DEF ReadyActivate
  <2>3. r.at = "readyActivate" /\ UNCHANGED fails
    BY <1>7 DEF ReadyActivate, At
  <2>4. LedHeld(x)' /\ \A c : ~Owes(r, c)
    BY <2>2, <2>3, Owed DEF Owing
  <2> QED
    BY <2>1, <2>2, <2>3, <2>4, LedMoves
<1> QED
  BY <1>1, <1>2, <1>3, <1>4, <1>5, <1>6, <1>7 DEF ProcessStep

LEMMA LedCancel ==
    ASSUME TypeOK, LifeInv, LedInv, Apart(Purchasing, Ending), NEW p \in Slot, CancelStep(p)
    PROVE  LedInv'
<1> DEFINE r == req[p]
<1>t. r \in Activity
  BY DEF TypeOK
<1>i. Idle.at \notin Owing \cup Holding
  BY DEF Idle, Owing, Holding, Purchasing
<1>1. CASE CancelStart(p)
  <2>1. PICK c \in Company : \E s \in ActiveByCompany(c) :
             Goto(p, [at |-> "cancelWrite", company |-> c, sub |-> s])
    BY <1>1 DEF CancelStart
  <2>2. PICK s \in ActiveByCompany(c) :
             Goto(p, [at |-> "cancelWrite", company |-> c, sub |-> s])
    BY <2>1
  <2>3. PICK x : x = [at |-> "cancelWrite", company |-> c, sub |-> s]
    OBVIOUS
  <2>4. x.at = "cancelWrite" /\ x.company = c /\ x.sub = s
    BY <2>3
  <2>5. subs[s].company = c
    BY DEF ActiveByCompany
  <2>6. LedHeld(x)
    BY <2>4, <2>5 DEF LedHeld, Purchasing
  <2>7. r.at \notin Owing /\ UNCHANGED <<subs, fails>>
    BY <1>1 DEF CancelStart, Starting, At, Owing, dbVars
  <2> QED
    BY <2>2, <2>3, <2>6, <2>7, Owed, LedRead
<1>2. CASE CancelWrite(p)
  <2>1. Turns(r.sub, "cancelled")
    BY <1>2, RequestWrites
  <2>2. PICK k : k = r.company
    OBVIOUS
  <2>3. PICK x : x = [at |-> "cancelQueue", company |-> k]
    OBVIOUS
  <2>4. Goto(p, x) /\ x.at = "cancelQueue" /\ x.company = k
    BY <1>2, <2>2, <2>3 DEF CancelWrite
  <2>5. r.at = "cancelWrite" /\ fails' = fails
    BY <1>2 DEF CancelWrite, At
  <2>6. LedHeld(x)'
    BY <2>4, Owed DEF Holding, Purchasing
  <2>7. SUFFICES ASSUME fails = 0 PROVE LedInv'
    BY <2>5 DEF LedInv
  <2>8. subs[r.sub].company = k
    BY <2>2, <2>5, <2>7, LedBefore DEF LedHeld, Purchasing
  <2>9. ASSUME NEW c \in Company \cup {Null}, HasQueue(c)'
        PROVE  Led(c)' \/ Owes(x, c)' \/ OthersOwe(p, c)
    <3>1. HasQueue(c) /\ (k # c /\ Led(c) => Led(c)')
      BY <2>1, <2>8, <2>9, LedWrites
    <3>2. Led(c) \/ OthersOwe(p, c)
      BY <2>5, <2>7, <3>1, LedBefore, Owed DEF Owing
    <3>3. k = c => Owes(x, c)'
      BY <2>4 DEF Owes
    <3> QED
      BY <3>1, <3>2, <3>3
  <2>10. CompaniesStay /\ r.at \in Ending
    BY <2>1, <2>5, LedWrites DEF Ending
  <2> QED
    BY <2>4, <2>6, <2>7, <2>9, <2>10, LedWritten
<1>3. CASE CancelQueue(p)
  <2>1. PICK q \in QueuedByCompany(r.company) :
          Goto(p, IF q = <<>>
                  THEN Idle
                  ELSE [at |-> "cancelPromote",
                        queue |-> [k \in 1..Len(q) |->
                            [id |-> q[k], endDate |-> subs[q[k]].endDate]]])
    BY <1>3 DEF CancelQueue
  <2>2. r.at = "cancelQueue" /\ UNCHANGED <<subs, fails>>
    BY <1>3 DEF CancelQueue, At, dbVars
  <2>3. \A c : Owes(r, c) => c = r.company
    BY <2>2 DEF Owes
  <2>4. CASE q = <<>>
    <3>1. Goto(p, Idle)
      BY <2>1, <2>4
    <3>2. ~HasQueue(r.company)
      BY <2>4, QueueRead
    <3> QED
      BY <1>i, <2>2, <2>3, <3>1, <3>2, Owed, LedRead
  <2>5. CASE q # <<>>
    <3>1. PICK w : w = [k \in 1..Len(q) |-> [id |-> q[k], endDate |-> subs[q[k]].endDate]]
      OBVIOUS
    <3>2. PICK x : x = [at |-> "cancelPromote", queue |-> w]
      OBVIOUS
    <3>3. Goto(p, x) /\ x.at = "cancelPromote" /\ x.queue = w
      BY <2>1, <2>5, <3>1, <3>2
    <3>4. subs[Head(q)].company = r.company
      BY <2>5, QueueRead
    <3>5. Head(w).id = Head(q)
      <4>1. q \in Seq(Queueable)
        BY QueryLives DEF LifeInv
      <4>2. 1 \in 1..Len(q) /\ Head(q) = q[1]
        BY <2>5, <4>1
      <4>3. w[1] = [id |-> q[1], endDate |-> subs[q[1]].endDate]
        BY <3>1, <4>2
      <4>4. Head(w) = w[1]
        OBVIOUS
      <4> QED
        BY <4>2, <4>3, <4>4
    <3>6. \A c : Owes(r, c) => Owes(x, c)
      BY <2>3, <3>3, <3>4, <3>5 DEF Owes
    <3>7. LedHeld(x)
      BY <3>3, Owed DEF Holding, Purchasing
    <3> QED
      BY <2>2, <3>3, <3>6, <3>7, LedRead
  <2> QED
    BY <2>4, <2>5
<1>4. CASE CancelPromote(p)
  <2>1. PICK s : s = Head(r.queue).id /\ Promotes(s)
    BY <1>4, RequestWrites
  <2>2. PICK x : Goto(p, x) /\ x.at \notin Owing \cup Holding
    BY <1>4, <1>i DEF CancelPromote, Owing, Holding, Purchasing
  <2>3. r.at = "cancelPromote" /\ UNCHANGED fails
    BY <1>4 DEF CancelPromote, At
  <2>4. \A c : Owes(r, c) => subs[s].company = c
    BY <2>1, <2>3 DEF Owes
  <2>5. LedHeld(x)'
    BY <2>2, Owed
  <2> QED
    BY <2>1, <2>2, <2>3, <2>4, <2>5, LedMoves
<1>5. CASE CancelReread(p)
  <2>1. PICK x : Goto(p, x) /\ x.at \in Calm
    BY <1>5, CalmSteps DEF CalmStep
  <2>2. r.at \notin Owing /\ UNCHANGED <<subs, fails>>
    BY <1>5 DEF CancelReread, At, Owing, dbVars
  <2>3. x.at \notin Owing \cup Holding
    BY <2>1 DEF Calm, Owing, Holding, Purchasing
  <2> QED
    BY <2>1, <2>2, <2>3, Owed, LedRead
<1>6. CASE CancelReorder(p)
  <2>1. PICK s : Files(s)
    BY <1>6, RequestWrites
  <2>2. PICK x : Goto(p, x) /\ x.at \notin Owing \cup Holding
    BY <1>6, <1>i DEF CancelReorder, Owing, Holding, Purchasing
  <2>3. r.at = "cancelReorder" /\ UNCHANGED fails
    BY <1>6 DEF CancelReorder, At
  <2>4. LedHeld(x)' /\ \A c : ~Owes(r, c)
    BY <2>2, <2>3, Owed DEF Owing
  <2> QED
    BY <2>1, <2>2, <2>3, <2>4, LedMoves
<1> QED
  BY <1>1, <1>2, <1>3, <1>4, <1>5, <1>6 DEF CancelStep

\* A purchase keeps the subscription it queues behind.
LEMMA LedCreate ==
    ASSUME TypeOK, LifeInv, LedInv, Apart(Purchasing, Ending), NEW p \in Slot,
           CreateStart(p) \/ CreatePayment(p) \/ CreateQueue(p) \/ CreateSub(p)
    PROVE  LedInv'
<1> DEFINE r == req[p]
<1>n. Null \notin Sub
  BY StoreAssumption
<1>h. LedInv /\ fails = 0 => LedHeld(r)
  BY DEF LedInv
<1>1. CASE CreateStart(p)
  <2>1. PICK c \in Company : \E a \in FindOne(ActiveByCompany(c)) : \E f :
             Goto(p, [at |-> "createPayment", company |-> c, active |-> a, from |-> f])
    BY <1>1 DEF CreateStart
  <2>2. PICK a \in FindOne(ActiveByCompany(c)) : \E f :
             Goto(p, [at |-> "createPayment", company |-> c, active |-> a, from |-> f])
    BY <2>1
  <2>3. PICK f : Goto(p, [at |-> "createPayment", company |-> c, active |-> a, from |-> f])
    BY <2>2
  <2>4. PICK x : x = [at |-> "createPayment", company |-> c, active |-> a, from |-> f]
    OBVIOUS
  <2>5. x.at = "createPayment" /\ x.company = c /\ x.active = a
    BY <2>4
  <2>6. a # Null => a \in Sub /\ Leads(a, c)
    BY DEF FindOne, ActiveByCompany, Leads
  <2>7. LedHeld(x)
    BY <2>5, <2>6 DEF LedHeld, Purchasing
  <2>8. r.at \notin Owing /\ UNCHANGED <<subs, fails>>
    BY <1>1 DEF CreateStart, Starting, At, Owing, dbVars
  <2> QED
    BY <2>3, <2>4, <2>7, <2>8, Owed, LedRead
<1>2. CASE CreatePayment(p) \/ CreateQueue(p)
  <2>1. r.at \in {"createPayment", "createQueue"} /\ UNCHANGED <<subs, fails>>
    BY <1>2 DEF CreatePayment, CreateQueue, At, dbVars
  <2>2. ASSUME NEW a, NEW f, NEW y, NEW i, NEW n
        PROVE  /\ [at |-> "createQueue", company |-> r.company, active |-> a, from |-> f,
                   pay |-> y, intent |-> i].at \in {"createQueue", "createSub"}
               /\ [at |-> "createQueue", company |-> r.company, active |-> a, from |-> f,
                   pay |-> y, intent |-> i].company = r.company
               /\ [at |-> "createQueue", company |-> r.company, active |-> a, from |-> f,
                   pay |-> y, intent |-> i].active = a
               /\ [at |-> "createSub", company |-> r.company, active |-> a, from |-> f,
                   pay |-> y, intent |-> i, position |-> n].at \in {"createQueue", "createSub"}
               /\ [at |-> "createSub", company |-> r.company, active |-> a, from |-> f,
                   pay |-> y, intent |-> i, position |-> n].company = r.company
               /\ [at |-> "createSub", company |-> r.company, active |-> a, from |-> f,
                   pay |-> y, intent |-> i, position |-> n].active = a
    OBVIOUS
  <2>3. \E x : /\ Goto(p, x) /\ x.at \in {"createQueue", "createSub"}
               /\ x.company = r.company /\ x.active = r.active
    <3>1. CASE CreatePayment(p)
      <4>1. PICK i, y :
              Goto(p, IF r.active = Null
                      THEN [at |-> "createSub", company |-> r.company, active |-> Null,
                            from |-> 0, pay |-> y, intent |-> i, position |-> 0]
                      ELSE [at |-> "createQueue", company |-> r.company, active |-> r.active,
                            from |-> r.from, pay |-> y, intent |-> i])
        BY <3>1 DEF CreatePayment
      <4>2. CASE r.active = Null
        BY <2>2, <4>1, <4>2
      <4>3. CASE r.active # Null
        BY <2>2, <4>1, <4>3
      <4> QED
        BY <4>2, <4>3
    <3>2. CASE CreateQueue(p)
      <4>1. PICK f, n : Goto(p, [at |-> "createSub", company |-> r.company, active |-> r.active,
                                from |-> f, pay |-> r.pay, intent |-> r.intent, position |-> n])
        BY <3>2 DEF CreateQueue
      <4> QED
        BY <2>2, <4>1
    <3> QED
      BY <1>2, <3>1, <3>2
  <2>4. PICK x : /\ Goto(p, x) /\ x.at \in {"createQueue", "createSub"}
                 /\ x.company = r.company /\ x.active = r.active
    BY <2>3
  <2>5. LedHeld(r) => LedHeld(x)
    BY <2>1, <2>4 DEF LedHeld, Purchasing
  <2>6. \A c : ~Owes(r, c)
    BY <2>1, Owed DEF Owing
  <2> QED
    BY <1>h, <2>1, <2>4, <2>5, <2>6, LedRead
<1>3. CASE CreateSub(p)
  <2>1. PICK s \in Sub : Inserts(s, r) /\ \E x : Goto(p, x) /\ x.at = "createLink"
    BY <1>3, RequestWrites
  <2>2. PICK x : Goto(p, x) /\ x.at = "createLink"
    BY <2>1
  <2>3. r.at = "createSub" /\ fails' = fails
    BY <1>3 DEF CreateSub, At
  <2>4. LedHeld(x)'
    BY <2>2, Owed DEF Holding, Purchasing
  <2>5. SUFFICES ASSUME fails = 0 PROVE LedInv'
    BY <2>3 DEF LedInv
  <2>6. /\ s \notin Known
        /\ \A t \in Sub \ {s} : subs'[t] = subs[t]
        /\ subs'[s].company = r.company
    BY <2>1 DEF Inserts
  <2>7. LeadersStay /\ CompaniesStay
    BY <2>6 DEF LeadersStay, CompaniesStay, Leads, Known
  <2>8. ASSUME NEW c \in Company \cup {Null}, HasQueue(c)'
        PROVE  Led(c)' \/ OthersOwe(p, c)
    <3>1. CASE HasQueue(c)
      <4>1. Led(c) \/ OthersOwe(p, c)
        BY <2>3, <2>5, <3>1, LedBefore, Owed DEF Owing
      <4> QED
        BY <2>7, <4>1 DEF Led, LeadersStay
    <3>2. CASE ~HasQueue(c)
      <4>1. PICK t \in Sub : /\ subs'[t].isQueued /\ subs'[t].status = "queued"
                             /\ subs'[t].company = c
        BY <2>8 DEF HasQueue, Waiting
      <4>2. t = s
        BY <2>6, <3>2, <4>1 DEF HasQueue, Waiting
      <4>3. c = r.company /\ r.active # Null
        BY <2>1, <2>6, <4>1, <4>2 DEF Inserts
      <4>4. r.active \in Sub /\ Leads(r.active, c)
        BY <2>3, <2>5, <4>3, LedBefore DEF LedHeld, Purchasing
      <4> QED
        BY <2>7, <4>4 DEF Led, LeadersStay
    <3> QED
      BY <3>1, <3>2
  <2> QED
    BY <2>2, <2>4, <2>5, <2>7, <2>8, LedWritten
<1> QED
  BY <1>1, <1>2, <1>3

LEMMA LedInvInductive ==
    ASSUME TypeOK, LifeInv, FlagInv, LedInv, Apart(Purchasing, Ending), [Next]_vars
    PROVE  LedInv'
<1>i. Idle.at \notin Owing \cup Holding
  BY DEF Idle, Owing, Holding, Purchasing
<1>1. CASE Tick \/ Charge \/ UNCHANGED vars
  <2>1. UNCHANGED <<subs, req, fails>>
    BY <1>1 DEF Tick, Charge, vars, dbVars
  <2> QED
    BY <2>1 DEF LedInv, HasQueue, Waiting, Led, Leads, Owes, LedHeld
<1>2. ASSUME NEW p \in Slot, ConfirmStart(p)
      PROVE  LedInv'
  <2>1. \A s, i, b : [at |-> "confirmFind", sub |-> s, intent |-> i, queued |-> b].at = "confirmFind"
    OBVIOUS
  <2>2. PICK x : Goto(p, x) /\ x.at = "confirmFind"
    BY <1>2, <2>1 DEF ConfirmStart
  <2>3. req[p].at \notin Owing /\ UNCHANGED <<subs, fails>>
    BY <1>2 DEF ConfirmStart, Starting, At, Owing, dbVars
  <2>4. LedHeld(x)
    BY <2>2, Owed DEF Holding, Purchasing
  <2> QED
    BY <2>2, <2>3, <2>4, Owed, LedRead
<1>3. ASSUME NEW p \in Slot, ConfirmFind(p) \/ ConfirmInvoice(p) \/ ConfirmComplete(p)
      PROVE  LedInv'
  <2>1. PICK x : Goto(p, x) /\ x.at \in {"idle"} \cup Confirming
    BY <1>3, ConfirmCarries
  <2>2. req[p].at \notin Owing /\ UNCHANGED <<subs, fails>>
    BY <1>3 DEF ConfirmFind, ConfirmInvoice, ConfirmComplete, At, Owing, dbVars
  <2>3. LedHeld(x)
    BY <2>1, Owed DEF Confirming, Holding, Purchasing
  <2> QED
    BY <2>1, <2>2, <2>3, Owed, LedRead
<1>4. ASSUME NEW p \in Slot, ConfirmStatus(p)
      PROVE  LedInv'
  <2>1. Turns(req[p].sub, IF req[p].queued THEN "queued" ELSE "active")
    BY <1>4, RequestWrites
  <2>2. QueuedFlagAgrees /\ (req[p].queued <=> subs[req[p].sub].isQueued)
    BY <1>4 DEF ConfirmStatus, At, FlagInv, FlagHeld, Confirms, Confirming
  <2>3. PICK s \in Sub : s = req[p].sub
    BY <2>1 DEF Turns, Only
  <2>4. /\ \A t \in Sub \ {s} : subs'[t] = subs[t]
        /\ subs'[s].company = subs[s].company
        /\ subs'[s].isQueued <=> subs[s].isQueued
        /\ subs'[s].status = IF req[p].queued THEN "queued" ELSE "active"
    BY <2>1, <2>3 DEF Turns, Only
  <2>5. /\ subs[s].isQueued => subs[s].status = "queued" /\ subs'[s].status = "queued"
        /\ ~subs[s].isQueued => subs'[s].status = "active"
    BY <2>2, <2>3, <2>4 DEF QueuedFlagAgrees
  <2>6. LeadersStay /\ CompaniesStay
    BY <2>4, <2>5 DEF LeadersStay, CompaniesStay, Leads, Known
  <2>7. \A c : HasQueue(c)' => HasQueue(c)
    BY <2>4, <2>5 DEF HasQueue, Waiting
  <2>8. Goto(p, Idle) /\ req[p].at = "confirmStatus" /\ fails' = fails
    BY <1>4 DEF ConfirmStatus, Done, At
  <2>9. SUFFICES ASSUME fails = 0 PROVE LedInv'
    BY <2>8 DEF LedInv
  <2>10. ASSUME NEW c \in Company \cup {Null}, HasQueue(c)'
         PROVE  Led(c)' \/ OthersOwe(p, c)
    <3>1. Led(c) \/ OthersOwe(p, c)
      BY <2>7, <2>8, <2>9, <2>10, LedBefore, Owed DEF Owing
    <3> QED
      BY <2>6, <3>1 DEF Led, LeadersStay
  <2>11. LedHeld(Idle)'
    BY <1>i, Owed
  <2> QED
    BY <2>6, <2>8, <2>9, <2>10, <2>11, LedWritten
<1>5. ASSUME NEW p \in Slot,
             \/ CreateLink(p) \/ RetryStart(p) \/ RetryFind(p) \/ RetryIssue(p)
             \/ AddonStep(p)
      PROVE  LedInv'
  <2>1. PICK x : Goto(p, x) /\ x.at \in Calm
    BY <1>5, CalmSteps DEF CalmStep
  <2>2. req[p].at \notin Owing /\ UNCHANGED <<subs, fails>>
    BY <1>5 DEF CreateLink, RetryStart, RetryFind, RetryIssue, AddonStep, AddonStart,
       AddonPayment, AddonConfirm, AddonCredit, AddonComplete, Starting, At, Owing, dbVars
  <2>3. LedHeld(x)
    BY <2>1, Owed DEF Calm, Holding, Purchasing
  <2> QED
    BY <2>1, <2>2, <2>3, Owed, LedRead
<1>6. ASSUME NEW p \in Slot, CheckoutStep(p)
      PROVE  LedInv'
  BY <1>2, <1>3, <1>4, <1>5, <1>6, LedCreate DEF CheckoutStep
<1>7. ASSUME NEW p \in Slot, HandlerFails(p)
      PROVE  LedInv'
  <2>1. fails' # 0
    BY <1>7 DEF HandlerFails, TypeOK, StoreTypeOK
  <2> QED
    BY <2>1 DEF LedInv
<1> QED
  BY <1>1, <1>5, <1>6, <1>7, LedProcess, LedCancel DEF Next, Step

\* A company's queue at rest, when nothing has failed, stands behind an active
\* or a pending subscription, however requests and jobs overlapped: but for a
\* purchase beside the end of a subscription, and a promotion beside a confirm.
THEOREM QueuesAreLed ==
    Spec /\ []Apart(Confirms, Promoting) /\ []Apart(Purchasing, Ending) => []QueueIsLed
<1>1. Init => FlagInv /\ LedInv
  <2>1. SUFFICES ASSUME Init PROVE FlagInv /\ LedInv
    OBVIOUS
  <2>2. /\ \A s \in Sub : subs[s].status = "none" /\ ~subs[s].isQueued
        /\ \A p \in Slot : req[p].at = "idle"
    BY <2>1 DEF Init, StoreInit, NoSubDoc, Idle
  <2>3. FlagInv
    BY <2>2 DEF FlagInv, QueuedFlagAgrees, FlagHeld, Looping, Confirms, Confirming
  <2>4. \A c : ~HasQueue(c)
    BY <2>2 DEF HasQueue, Waiting
  <2>5. \A p \in Slot : LedHeld(req[p])
    BY <2>2 DEF LedHeld, Purchasing
  <2> QED
    BY <2>3, <2>4, <2>5 DEF LedInv
<1>2. Init => MoneyInv
  BY InitMoney
<1>3. MoneyInv /\ [Next]_vars => MoneyInv'
  BY StepMoney
<1>4. MoneyInv /\ FlagInv /\ Apart(Confirms, Promoting) /\ [Next]_vars => FlagInv'
  BY FlagInvInductive DEF MoneyInv
<1>5. MoneyInv /\ FlagInv /\ LedInv /\ Apart(Purchasing, Ending) /\ [Next]_vars => LedInv'
  BY LedInvInductive DEF MoneyInv
<1>6. MoneyInv /\ LedInv => QueueIsLed
  <2>1. SUFFICES ASSUME MoneyInv, LedInv, fails = 0, \A p \in Slot : At(p, "idle"),
                        NEW s \in Waiting
                 PROVE  Led(subs[s].company)
    BY DEF QueueIsLed, Led, Leads
  <2>2. \A c, p : p \in Slot => ~Owes(req[p], c)
    BY <2>1, Owed DEF At, Owing
  <2>3. subs[s].company \in Company \cup {Null}
    BY <2>1 DEF MoneyInv, TypeOK, StoreTypeOK, SubDoc, Waiting
  <2>4. HasQueue(subs[s].company)
    BY DEF HasQueue
  <2> QED
    BY <2>1, <2>2, <2>3, <2>4 DEF LedInv
<1> QED
  BY <1>1, <1>2, <1>3, <1>4, <1>5, <1>6, PTL DEF Spec

\* What the runs of one slot check holds for any number of companies, plans,
\* subscriptions and failures: with a single slot no two handlers overlap.
THEOREM OneSlotIsSafe ==
    ASSUME \A p, q \in Slot : p = q
    PROVE  Spec => [](QueuedFlagAgrees /\ NoEarlyExpiry /\ QueueIsLed)
<1>1. Apart(Confirms, Promoting) /\ Apart(Looping, {"cancelPromote"})
       /\ Apart(Purchasing, Ending)
  BY DEF Apart
<1> QED
  BY <1>1, FlagsAgree, NobodyExpiresEarly, QueuesAreLed, PTL
=============================================================================

-------------------------- MODULE QueueManagement ---------------------------
(***************************************************************************)
(* What moves subscriptions through a company's queue: the BullMQ job      *)
(* processSubscriptionQueue, which expires, promotes and activates, and    *)
(* the cancel request, which promotes the next one at once.                *)
(***************************************************************************)
EXTENDS SubscriptionStore

\* What cancel keeps of a queued document it has read: its id and endDate.
Snapshot == [id: Sub, endDate: Nat]

NonEmpty(S) == Seq(S) \ {<<>>}

QueueRequest ==
    [at: {"expireNext"}, expired: NonEmpty(Sub)]
    \cup
    [at: {"promoteFind"}, expired: Seq(Sub), company: Company \cup {Null}]
    \cup
    [at: {"promote"}, expired: Seq(Sub), queue: NonEmpty(Sub)]
    \cup
    [at: {"renumber"}, expired: Seq(Sub), queue: NonEmpty(Sub), position: Nat]
    \cup
    [at: {"readyFind"}]
    \cup
    [at: {"readyCheck", "readyActivate"}, ready: NonEmpty(Sub)]
    \cup
    [at: {"cancelWrite"}, company: Company, sub: Sub]
    \cup
    [at: {"cancelQueue"}, company: Company]
    \cup
    [at: {"cancelPromote"}, queue: NonEmpty(Snapshot)]
    \cup
    [at: {"cancelReread"}, queue: NonEmpty(Snapshot), previous: Sub]
    \cup
    [at: {"cancelReorder"},
       queue: NonEmpty(Snapshot), previous: Sub, from: Nat, position: Nat]

\* Mutant: the flag is left set.
ActivateFlagKept(s) == [subs EXCEPT ![s].status = "active"]

\* The update that makes a queued subscription active; dates stay as they are.
Activate(s) == [subs EXCEPT ![s].status = "active", ![s].isQueued = FALSE]

ExpireOrReady(list) ==
    IF list = <<>> THEN [at |-> "readyFind"]
                   ELSE [at |-> "expireNext", expired |-> list]

CheckOrEnd(list) ==
    IF list = <<>> THEN Idle ELSE [at |-> "readyCheck", ready |-> list]

-----------------------------------------------------------------------------
(***************************************************************************)
(* processSubscriptionQueue.  The hourly job, its BullMQ retries and a job *)
(* that overlaps the one before it are all slots running this.             *)
(***************************************************************************)
ProcessStart(p) ==
    /\ Starting(p, "process")
    /\ \E list \in Expired : Goto(p, ExpireOrReady(list))
    /\ UNCHANGED <<now, fails, dbVars, intents, issued>>

ExpireNext(p) ==
    /\ At(p, "expireNext")
    /\ LET s == Head(req[p].expired)
       IN  /\ subs' = [subs EXCEPT ![s].status = "expired"]
           /\ Goto(p, [at |-> "promoteFind", expired |-> Tail(req[p].expired),
                       company |-> subs[s].company])
    /\ UNCHANGED <<now, fails, pays, invoices, credits, intents, issued>>

PromoteFind(p) ==
    /\ At(p, "promoteFind")
    /\ \E q \in QueuedByCompany(req[p].company) :
          Goto(p, IF q = <<>>
                  THEN ExpireOrReady(req[p].expired)
                  ELSE [at |-> "promote", expired |-> req[p].expired, queue |-> q])
    /\ UNCHANGED <<now, fails, dbVars, intents, issued>>

\* The head of the queue goes active; the rest is renumbered one by one.
Promote(p) ==
    /\ At(p, "promote")
    /\ subs' = Activate(Head(req[p].queue))
    /\ Goto(p, IF Len(req[p].queue) = 1
               THEN ExpireOrReady(req[p].expired)
               ELSE [at |-> "renumber", expired |-> req[p].expired,
                     queue |-> Tail(req[p].queue), position |-> 1])
    /\ UNCHANGED <<now, fails, pays, invoices, credits, intents, issued>>

Renumber(p) ==
    /\ At(p, "renumber")
    /\ subs' = [subs EXCEPT ![Head(req[p].queue)].queuePosition = req[p].position]
    /\ Goto(p, IF Len(req[p].queue) = 1
               THEN ExpireOrReady(req[p].expired)
               ELSE [req[p] EXCEPT !.queue = Tail(@), !.position = @ + 1])
    /\ UNCHANGED <<now, fails, pays, invoices, credits, intents, issued>>

\* Mutant: the second pass, over what is due, is gone.
ReadyFindNothing(p) ==
    /\ At(p, "readyFind")
    /\ Done(p)
    /\ UNCHANGED <<now, fails, dbVars, intents, issued>>

ReadyFind(p) ==
    /\ At(p, "readyFind")
    /\ \E list \in ReadyToActivate : Goto(p, CheckOrEnd(list))
    /\ UNCHANGED <<now, fails, dbVars, intents, issued>>

\* The double check, and in a later await the activation it allowed.
ReadyCheck(p) ==
    /\ At(p, "readyCheck")
    /\ Goto(p, IF ActiveByCompany(subs[Head(req[p].ready)].company) = {}
               THEN [req[p] EXCEPT !.at = "readyActivate"]
               ELSE CheckOrEnd(Tail(req[p].ready)))
    /\ UNCHANGED <<now, fails, dbVars, intents, issued>>

ReadyActivate(p) ==
    /\ At(p, "readyActivate")
    /\ subs' = Activate(Head(req[p].ready))
    /\ Goto(p, CheckOrEnd(Tail(req[p].ready)))
    /\ UNCHANGED <<now, fails, pays, invoices, credits, intents, issued>>

-----------------------------------------------------------------------------
(***************************************************************************)
(* cancelSubscriptionWithQueueManagement, with the default options its     *)
(* route uses (activateNextImmediately).                                   *)
(***************************************************************************)
CancelStart(p) ==
    /\ Starting(p, "cancel")
    /\ \E c \in Company : \E s \in ActiveByCompany(c) :
          Goto(p, [at |-> "cancelWrite", company |-> c, sub |-> s])
    /\ UNCHANGED <<now, fails, dbVars, intents, issued>>

CancelWrite(p) ==
    /\ At(p, "cancelWrite")
    /\ subs' = [subs EXCEPT ![req[p].sub].status = "cancelled",
                            ![req[p].sub].cancelledAt = TRUE]
    /\ Goto(p, [at |-> "cancelQueue", company |-> req[p].company])
    /\ UNCHANGED <<now, fails, pays, invoices, credits, intents, issued>>

\* Mutant: cancelling promotes nobody.
CancelQueueIgnored(p) ==
    /\ At(p, "cancelQueue")
    /\ Done(p)
    /\ UNCHANGED <<now, fails, dbVars, intents, issued>>

CancelQueue(p) ==
    /\ At(p, "cancelQueue")
    /\ \E q \in QueuedByCompany(req[p].company) :
          Goto(p, IF q = <<>>
                  THEN Idle
                  ELSE [at |-> "cancelPromote",
                        queue |-> [k \in 1..Len(q) |->
                            [id |-> q[k], endDate |-> subs[q[k]].endDate]]])
    /\ UNCHANGED <<now, fails, dbVars, intents, issued>>

\* The head starts now and runs its full duration from now.
CancelPromote(p) ==
    /\ At(p, "cancelPromote")
    /\ LET s == Head(req[p].queue).id
       IN  /\ subs' = [subs EXCEPT ![s] = [@ EXCEPT
                          !.status = "active", !.isQueued = FALSE,
                          !.queuePosition = 0, !.startDate = now,
                          !.endDate = now + subs[s].duration,
                          !.scheduledStart = now]]
           /\ Goto(p, IF Len(req[p].queue) = 1
                      THEN Idle
                      ELSE [at |-> "cancelReread", queue |-> Tail(req[p].queue),
                            previous |-> s])
    /\ UNCHANGED <<now, fails, pays, invoices, credits, intents, issued>>

\* The first of the rest is rescheduled after a fresh read of the promoted one.
CancelReread(p) ==
    /\ At(p, "cancelReread")
    /\ Goto(p, [at |-> "cancelReorder", queue |-> req[p].queue,
                previous |-> req[p].previous,
                from |-> subs[req[p].previous].endDate, position |-> 1])
    /\ UNCHANGED <<now, fails, dbVars, intents, issued>>

\* Each later one after the endDate its predecessor had when it was read.
CancelReorder(p) ==
    /\ At(p, "cancelReorder")
    /\ LET e == Head(req[p].queue)
       IN  /\ subs' = [subs EXCEPT ![e.id] = [@ EXCEPT
                          !.queuePosition = req[p].position,
                          !.scheduledStart = req[p].from + 1,
                          !.previous = req[p].previous]]
           /\ Goto(p, IF Len(req[p].queue) = 1
                      THEN Idle
                      ELSE [at |-> "cancelReorder", queue |-> Tail(req[p].queue),
                            previous |-> e.id, from |-> e.endDate,
                            position |-> req[p].position + 1])
    /\ UNCHANGED <<now, fails, pays, invoices, credits, intents, issued>>

-----------------------------------------------------------------------------
ProcessStep(p) ==
    \/ ProcessStart(p) \/ ExpireNext(p) \/ PromoteFind(p) \/ Promote(p)
    \/ Renumber(p) \/ ReadyFind(p) \/ ReadyCheck(p) \/ ReadyActivate(p)

CancelStep(p) ==
    \/ CancelStart(p) \/ CancelWrite(p) \/ CancelQueue(p)
    \/ CancelPromote(p) \/ CancelReread(p) \/ CancelReorder(p)
=============================================================================

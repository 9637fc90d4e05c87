-------------------------- MODULE JobApplications ---------------------------
(***************************************************************************)
(* Applications: a candidate applies and withdraws, the company moves the  *)
(* application on.                                                         *)
(***************************************************************************)
EXTENDS HiringStore

ApplicationRequest ==
    [at: {"applyInsert", "applyCount"}, subject: Candidate \X Job]
    \cup
    [at: {"withdraw"}, subject: App]

FindByUserAndJob(c, j) == {a \in Filed : apps[a].applicant = c /\ apps[a].job = j}

\* Mutant: nobody looks for an earlier application.
ApplyUnchecked(p) ==
    /\ RoomFor(App, Filed, {"applyInsert"})
    /\ \E c \in Candidate, j \in Posted :
          /\ Begins(p, "apply", <<c, j>>)
          /\ Goto(p, [at |-> "applyInsert", subject |-> <<c, j>>])
    /\ UNCHANGED <<jobs, apps, offers, fails, marks>>

\* The look-up; the user and the job read after it are never deleted, and
\* neither the job's status nor its verification is looked at.
ApplyCheck(p) ==
    /\ RoomFor(App, Filed, {"applyInsert"})
    /\ \E c \in Candidate, j \in Posted :
          /\ FindByUserAndJob(c, j) = {}
          /\ Begins(p, "apply", <<c, j>>)
          /\ Goto(p, [at |-> "applyInsert", subject |-> <<c, j>>])
    /\ UNCHANGED <<jobs, apps, offers, fails, marks>>

\* The body as it comes is what is inserted, with the status it names, if any.
ApplyInsert(p) ==
    /\ At(p, "applyInsert")
    /\ \E a \in App \ Filed, status \in FiledAs \cup {"pending"} :
          /\ apps' = [apps EXCEPT ![a] = [status |-> status,
                                         applicant |-> req[p].subject[1],
                                         job |-> req[p].subject[2]]]
          /\ asFiled' = asFiled \cup {a}
    /\ Goto(p, [req[p] EXCEPT !.at = "applyCount"])
    /\ UNCHANGED <<jobs, offers, fails, raced, down, skew>>

\* Mutant: the counter is read with the job and written back.
ApplyCountLost(p) ==
    /\ At(p, "applyCount")
    /\ jobs' = [jobs EXCEPT ![req[p].subject[2]].applicationsCount = 1]
    /\ Done(p)
    /\ UNCHANGED <<apps, offers, fails, raced, marks>>

\* incrementApplications is an atomic $inc.
ApplyCount(p) ==
    /\ At(p, "applyCount")
    /\ jobs' = [jobs EXCEPT ![req[p].subject[2]].applicationsCount = @ + 1]
    /\ Done(p)
    /\ UNCHANGED <<apps, offers, fails, raced, marks>>

\* Mutant: a candidate may withdraw at any stage.
WithdrawAnytime(p) ==
    /\ \E a \in Filed :
          /\ Begins(p, "withdraw", a)
          /\ Goto(p, [at |-> "withdraw", subject |-> a])
    /\ UNCHANGED <<jobs, apps, offers, fails, marks>>

\* The guard and the write that, two awaits later, relies on it.
WithdrawCheck(p) ==
    /\ \E a \in Filed :
          /\ apps[a].status \in {"pending", "reviewing"}
          /\ Begins(p, "withdraw", a)
          /\ Goto(p, [at |-> "withdraw", subject |-> a])
    /\ UNCHANGED <<jobs, apps, offers, fails, marks>>

Withdraw(p) ==
    /\ At(p, "withdraw")
    /\ WriteStatus(req[p].subject, "withdrawn")
    /\ Done(p)
    /\ UNCHANGED <<jobs, offers, fails, raced, down, skew>>

\* The company's update looks at nothing but the application's existence.
UpdateApplicationStatus(p) ==
    \E a \in Filed, status \in Manual :
        /\ Begins(p, "review", a)
        /\ WriteStatus(a, status)
        /\ UNCHANGED <<jobs, offers, req, fails, down, skew>>

ApplyForJob(p) == ApplyCheck(p) \/ ApplyInsert(p) \/ ApplyCount(p)

WithdrawApplication(p) == WithdrawCheck(p) \/ Withdraw(p)

ApplicationStep(p) ==
    ApplyForJob(p) \/ WithdrawApplication(p) \/ UpdateApplicationStatus(p)
=============================================================================

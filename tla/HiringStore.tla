---------------------------- MODULE HiringStore -----------------------------
(***************************************************************************)
(* The collections jobs, job_applications and offer_letters, and the       *)
(* requests in flight over them.  As everywhere in this backend a request  *)
(* runs undisturbed only from one await to the next.                       *)
(***************************************************************************)
EXTENDS Integers, FiniteSets

CONSTANTS
    Job,        \* ids of jobs
    Candidate,  \* users who apply
    App,        \* ids of job_applications
    Offer,      \* ids of offer_letters
    Null,       \* an absent reference
    Request,    \* slots for requests in flight
    Ops,        \* the operations a run lets start
    Manual,     \* application statuses companies set by hand
    FiledAs,    \* application statuses the bodies of a run file with
    Counts,     \* applicationsCounts the bodies of a run write
    MaxFail     \* bound on requests that reject half way

Operations == {"post", "moderate", "apply", "withdraw", "review",
               "offer", "respond", "sign", "verify"}

AppStatus == {"none", "pending", "reviewing", "shortlisted", "interviewed",
              "offered", "rejected", "withdrawn", "hired"}

ASSUME HiringAssumption ==
    /\ IsFiniteSet(App) /\ IsFiniteSet(Request)
    /\ Null \notin Job \cup Candidate \cup App
    /\ Ops \subseteq Operations
    /\ Manual \subseteq AppStatus \ {"none"}
    /\ FiledAs \subseteq AppStatus \ {"none"}
    /\ Counts \subseteq Int
    /\ MaxFail \in Nat

VARIABLES
    jobs,    \* jobs
    apps,    \* job_applications
    offers,  \* offer_letters
    req,     \* what each slot is doing: the await it is at, its locals
    fails,   \* requests that rejected half way so far
    raced,   \* history: the subjects two requests were in flight about at once
    down,    \* history: jobs an admin blocked, and neither an admin nor a body
             \* of their company verified since
    skew,    \* history: by how much bodies have moved each job's counter
    asFiled  \* history: applications still in the status their body gave

hiringVars == <<jobs, apps, offers, req, fails, raced, down, skew, asFiled>>

marks == <<down, skew, asFiled>>

JobStatus == {"none", "draft", "active", "paused", "closed", "expired"}

JobDoc == [status: JobStatus, isVerified: BOOLEAN, applicationsCount: Int]

\* isVerified is true by default: a job is moderated after it is published.
NoJob == [status |-> "none", isVerified |-> TRUE, applicationsCount |-> 0]

AppDoc == [status: AppStatus, job: Job \cup {Null}, applicant: Candidate \cup {Null}]

NoApp == [status |-> "none", job |-> Null, applicant |-> Null]

\* lapsed stands for expiresAt being in the past.
OfferDoc == [status: {"none", "pending", "accepted", "rejected", "verified"},
             application: App \cup {Null}, signed: BOOLEAN, lapsed: BOOLEAN]

NoOffer == [status |-> "none", application |-> Null, signed |-> FALSE, lapsed |-> FALSE]

Visible(j) == jobs[j].status = "active" /\ jobs[j].isVerified

Posted == {j \in Job : jobs[j].status # "none"}

Filed == {a \in App : apps[a].status # "none"}

Drafted == {o \in Offer : offers[o].status # "none"}

\* Every write of an application's status after its insert.
WriteStatus(a, status) ==
    /\ apps' = [apps EXCEPT ![a].status = status]
    /\ asFiled' = asFiled \ {a}

(***************************************************************************)
(* Slots.  The subject of a request is the job, the application, or the    *)
(* candidate and job it is about.                                          *)
(***************************************************************************)
Idle == [at |-> "idle"]

At(p, label) == req[p].at = label

Goto(p, r) == req' = [req EXCEPT ![p] = r]

Done(p) == Goto(p, Idle)

InFlightAbout(x) == {p \in Request : ~At(p, "idle") /\ req[p].subject = x}

\* A request begins: it overlaps whatever is in flight about its subject.
Begins(p, op, x) ==
    /\ At(p, "idle")
    /\ op \in Ops
    /\ raced' = IF InFlightAbout(x) = {} THEN raced ELSE raced \cup {x}

\* Bound: a request that may insert a document starts only while an id is left
\* for it, beside the ids of those under way.
RoomFor(ids, used, labels) ==
    Cardinality(ids \ used) > Cardinality({p \in Request : req[p].at \in labels})

HiringInit ==
    /\ jobs = [j \in Job |-> NoJob]
    /\ apps = [a \in App |-> NoApp]
    /\ offers = [o \in Offer |-> NoOffer]
    /\ req = [p \in Request |-> Idle]
    /\ fails = 0
    /\ raced = {}
    /\ down = {}
    /\ skew = [j \in Job |-> 0]
    /\ asFiled = {}

HiringStoreTypeOK ==
    /\ jobs \in [Job -> JobDoc]
    /\ apps \in [App -> AppDoc]
    /\ offers \in [Offer -> OfferDoc]
    /\ fails \in Nat
    /\ raced \subseteq Job \cup App \cup (Candidate \X Job)
    /\ down \subseteq Job
    /\ skew \in [Job -> Int]
    /\ asFiled \subseteq App

(***************************************************************************)
(* Any await may reject: the request ends there, its writes stay.          *)
(***************************************************************************)
RequestFails(p) ==
    /\ ~At(p, "idle")
    /\ fails < MaxFail
    /\ fails' = fails + 1
    /\ Done(p)
    /\ UNCHANGED <<jobs, apps, offers, raced, marks>>
=============================================================================

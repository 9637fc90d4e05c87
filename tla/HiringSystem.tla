---------------------------- MODULE HiringSystem ----------------------------
(***************************************************************************)
(* Jobs, applications and offer letters over the collections they share,   *)
(* any number of requests in flight.                                       *)
(***************************************************************************)
EXTENDS JobPosting, JobApplications, OfferLetters

HiringActivity == {Idle} \cup PostingRequest \cup ApplicationRequest \cup OfferRequest

HiringNext ==
    \/ \E o \in Offer : Lapse(o)
    \/ \E p \in Request :
          PostingStep(p) \/ ApplicationStep(p) \/ OfferStep(p) \/ RequestFails(p)

HiringSpec == HiringInit /\ [][HiringNext]_hiringVars

HiringTypeOK == HiringStoreTypeOK /\ req \in [Request -> HiringActivity]

-----------------------------------------------------------------------------
(***************************************************************************)
(* Properties of every interleaving.                                       *)
(***************************************************************************)

\* A job an admin blocked stays out of every search until an admin, or an edit
\* whose body says isVerified, lets it in again, whatever its company does with
\* the rest of it before, during or after.
BlockedStaysHidden == \A j \in down : ~Visible(j)

\* The counter shown on a job, less what bodies wrote over it, is the number of
\* its applications less the ones whose request has not reached the increment
\* yet (and never will, once a request has failed).
CountAgrees ==
    \A j \in Job :
        LET counting == {p \in Request : At(p, "applyCount") /\ req[p].subject[2] = j}
            filed    == {a \in Filed : apps[a].job = j}
            counted  == jobs[j].applicationsCount - skew[j]
        IN  /\ counted + Cardinality(counting) <= Cardinality(filed)
            /\ fails = 0 => counted + Cardinality(counting) = Cardinality(filed)

\* "You have already applied for this job": a candidate has two applications
\* to one job only if two apply requests for it overlapped.
OneApplicationUnlessRaced ==
    \A a, b \in Filed :
        (a # b /\ apps[a].applicant = apps[b].applicant /\ apps[a].job = apps[b].job)
        => <<apps[a].applicant, apps[a].job>> \in raced

\* "Can only withdraw if status is pending or reviewing": an application that
\* was filed and further on becomes withdrawn only when requests about it
\* overlapped.
WithdrawnInTimeUnlessRaced ==
    [][\A a \in Filed \ raced :
         (apps'[a].status = "withdrawn" /\ apps[a].status # "withdrawn")
         => apps[a].status \in {"pending", "reviewing"}]_hiringVars

\* "An active offer already exists for this application": there are two only
\* if requests about the application overlapped.
OneActiveOfferUnlessRaced ==
    \A o, q \in Offer :
        (o # q /\ Active(o) /\ Active(q) /\ offers[o].application = offers[q].application)
        => offers[o].application \in raced

\* However answers, uploads and verifications race, an offer that ends up
\* verified has its signed document, and one about to be verified does too.
VerifiedMeansSigned ==
    /\ \A o \in Offer : offers[o].status = "verified" => offers[o].signed
    /\ \A p \in Request : At(p, "verify") => offers[req[p].offer].signed

\* An application neither its company marked as hired by hand nor its candidate
\* filed so is hired only through an offer that was signed; it is the verified
\* one unless requests overlapped.
HiredMeansVerified ==
    \A a \in App \ asFiled :
        (apps[a].status = "hired" /\ "hired" \notin Manual) =>
            \E o \in Offer :
                /\ offers[o].application = a
                /\ offers[o].signed
                /\ offers[o].status = "verified" \/ a \in raced

\* Every offer follows the protocol both sides rely on, unless requests about
\* its application overlapped.
PhaseOf(o) ==
    LET f == offers[o]
    IN  IF f.status = "none" THEN "absent"
        ELSE IF f.application \in raced THEN "contested"
        ELSE IF f.status = "pending" THEN (IF f.lapsed THEN "lapsed" ELSE "open")
        ELSE IF f.status = "accepted" /\ f.signed THEN "signed"
        ELSE f.status

P == INSTANCE OfferProtocol WITH phase <- [o \in Offer |-> PhaseOf(o)]

ImplementsProtocol == P!Protocol
=============================================================================

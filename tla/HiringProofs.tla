---------------------------- MODULE HiringProofs ----------------------------
(***************************************************************************)
(* Type correctness of HiringSystem, its safety properties and its         *)
(* refinement of OfferProtocol, for any number of jobs, candidates,        *)
(* applications, offers and requests.                                      *)
(***************************************************************************)
EXTENDS HiringSystem, FiniteSetTheorems, TLAPS

Subject == Job \cup App \cup (Candidate \X Job)

\* An offer that exists names its application.
Offered ==
    \A o \in Offer : offers[o].status # "none" => offers[o].application \in App

-----------------------------------------------------------------------------
(***************************************************************************)
(* Types.                                                                  *)
(***************************************************************************)

\* The locals a slot holds at each await.
LEMMA HiringLocals ==
    ASSUME NEW r \in HiringActivity
    PROVE  /\ r.at \in {"verifyJob", "blockJob", "unblockJob"} => r.subject \in Job
           /\ r.at \in {"applyInsert", "applyCount"} =>
                 /\ r.subject \in Candidate \X Job
                 /\ r \in [at: {"applyInsert", "applyCount"}, subject: Candidate \X Job]
           /\ r.at = "withdraw" => r.subject \in App
           /\ r.at \in {"offerCheckActive", "offerInsert", "offerApplication"} =>
                 /\ r.subject \in App
                 /\ r \in [at: {"offerCheckActive", "offerInsert", "offerApplication"},
                           subject: App]
           /\ r.at = "respond" =>
                 r.subject \in App /\ r.offer \in Offer /\ r.answer \in {"accepted", "rejected"}
           /\ r.at \in {"sign", "verify"} => r.subject \in App /\ r.offer \in Offer
           /\ r.at \in {"respondApplication", "verifyApplication"} => r.subject \in App
  BY DEF HiringActivity, Idle, PostingRequest, ApplicationRequest, OfferRequest

\* What a request that starts puts into its slot.
LEMMA StartTypes ==
    /\ Idle \in HiringActivity
    /\ \A j \in Job, l \in {"verifyJob", "blockJob", "unblockJob"} :
          [at |-> l, subject |-> j] \in HiringActivity
    /\ \A c \in Candidate, j \in Job :
          [at |-> "applyInsert", subject |-> <<c, j>>] \in HiringActivity
    /\ \A a \in App, l \in {"withdraw", "offerCheckActive", "offerInsert",
                            "offerApplication", "respondApplication", "verifyApplication"} :
          [at |-> l, subject |-> a] \in HiringActivity
    /\ \A a \in App, o \in Offer, v \in {"accepted", "rejected"} :
          [at |-> "respond", subject |-> a, offer |-> o, answer |-> v] \in HiringActivity
    /\ \A a \in App, o \in Offer, l \in {"sign", "verify"} :
          [at |-> l, subject |-> a, offer |-> o] \in HiringActivity
  BY DEF HiringActivity, Idle, PostingRequest, ApplicationRequest, OfferRequest

\* A slot changes hands between well-typed activities only.
LEMMA GotoTypes ==
    ASSUME req \in [Request -> HiringActivity], NEW p \in Request,
           NEW x \in HiringActivity, Goto(p, x)
    PROVE  req' \in [Request -> HiringActivity]
  BY DEF Goto

\* A request that begins only records an overlap about its subject.
LEMMA BeginsTypes ==
    ASSUME raced \subseteq Subject, NEW p, NEW op, NEW x \in Subject, Begins(p, op, x)
    PROVE  raced' \subseteq Subject
  BY DEF Begins

\* A job made of a body is a job.
LEMMA BodyTypes ==
    ASSUME jobs \in [Job -> JobDoc], NEW j \in Job,
           NEW doc \in Body(j, {"draft"}) \cup Body(j, JobStatus \ {"none"})
    PROVE  doc \in JobDoc
<1>1. Counts \cup {jobs[j].applicationsCount} \subseteq Int
  BY HiringAssumption DEF HiringAssumption, JobDoc
<1>2. {"draft"} \subseteq JobStatus
  BY DEF JobStatus
<1> QED
  BY <1>1, <1>2 DEF Body, JobDoc

LEMMA PostingTypes ==
    ASSUME HiringTypeOK, NEW p \in Request, PostingStep(p)
    PROVE  HiringTypeOK'
<1>t. /\ HiringStoreTypeOK
      /\ req \in [Request -> HiringActivity]
      /\ req[p] \in HiringActivity
      /\ raced \subseteq Subject
  BY DEF HiringTypeOK, HiringStoreTypeOK, Subject
<1>s. Posted \subseteq Job /\ Job \subseteq Subject
  BY DEF Posted, Subject
<1>b. ASSUME NEW j \in Job, NEW op, Begins(p, op, j)
      PROVE  raced' \subseteq Subject
  BY <1>b, <1>t, <1>s, BeginsTypes
<1>d. Done(p) => req' \in [Request -> HiringActivity]
  BY <1>t, StartTypes, GotoTypes DEF Done
<1>j. ASSUME NEW j \in Job, NEW st \in JobStatus, SetJob(j, st)
      PROVE  jobs' \in [Job -> JobDoc]
  BY <1>j, <1>t DEF SetJob, HiringStoreTypeOK, JobDoc
<1>m. ASSUME NEW j \in Job, NEW l \in {"verifyJob", "blockJob", "unblockJob"}, Moderate(p, j, l)
      PROVE  HiringTypeOK'
  <2>1. req' \in [Request -> HiringActivity]
    BY <1>m, <1>t, StartTypes, GotoTypes DEF Moderate
  <2>2. raced' \subseteq Subject
    BY <1>m, <1>b DEF Moderate
  <2> QED
    BY <1>m, <1>t, <2>1, <2>2 DEF Moderate, HiringTypeOK, HiringStoreTypeOK, marks, Subject
<1>r. ASSUME NEW l \in {"verifyJob", "unblockJob"}, Reopen(p, l)
      PROVE  HiringTypeOK'
  <2>1. req[p].subject \in Job
    BY <1>r, <1>t, HiringLocals DEF Reopen, At
  <2>2. jobs' \in [Job -> JobDoc] /\ down' \subseteq Job
    BY <1>r, <1>t, <2>1 DEF Reopen, HiringStoreTypeOK, JobDoc, JobStatus
  <2> QED
    BY <1>r, <1>t, <1>d, <2>2 DEF Reopen, HiringTypeOK, HiringStoreTypeOK, marks
<1>1. CASE CreateJob(p) \/ UpdateJob(p)
  <2>1. PICK j \in Job : \E doc : /\ Begins(p, "post", j) /\ StoreBody(j, doc)
                                 /\ doc \in Body(j, {"draft"}) \cup Body(j, JobStatus \ {"none"})
    BY <1>1, <1>s DEF CreateJob, UpdateJob
  <2>2. PICK doc : /\ Begins(p, "post", j) /\ StoreBody(j, doc)
                   /\ doc \in Body(j, {"draft"}) \cup Body(j, JobStatus \ {"none"})
    BY <2>1
  <2>3. doc \in JobDoc
    BY <2>2, BodyTypes, <1>t DEF HiringStoreTypeOK
  <2>4. raced' \subseteq Subject /\ jobs' \in [Job -> JobDoc] /\ down' \subseteq Job
    BY <2>2, <2>3, <1>b, <1>t DEF StoreBody, HiringStoreTypeOK
  <2>5. skew' \in [Job -> Int]
    <3>1. doc.applicationsCount \in Int /\ jobs[j].applicationsCount \in Int
      BY <2>3, <1>t DEF HiringStoreTypeOK, JobDoc
    <3> QED
      BY <2>2, <3>1, <1>t DEF StoreBody, HiringStoreTypeOK
  <2> QED
    BY <1>1, <1>t, <2>4, <2>5 DEF CreateJob, UpdateJob, HiringTypeOK, HiringStoreTypeOK, marks, Subject
<1>2. CASE UpdateJobStatus(p)
  <2>1. PICK j \in Job, st \in JobStatus : Begins(p, "post", j) /\ SetJob(j, st)
    BY <1>2, <1>s DEF UpdateJobStatus, JobStatus
  <2>2. raced' \subseteq Subject /\ jobs' \in [Job -> JobDoc]
    BY <2>1, <1>b, <1>j
  <2> QED
    BY <1>2, <1>t, <2>2 DEF UpdateJobStatus, HiringTypeOK, HiringStoreTypeOK, marks, Subject
<1>3. CASE AdminDeleteJob(p)
  <2>1. PICK j \in Job : Begins(p, "moderate", j) /\ SetJob(j, "closed")
    BY <1>3, <1>s DEF AdminDeleteJob
  <2>2. raced' \subseteq Subject /\ jobs' \in [Job -> JobDoc]
    BY <2>1, <1>b, <1>j DEF JobStatus
  <2> QED
    BY <1>3, <1>t, <2>2 DEF AdminDeleteJob, HiringTypeOK, HiringStoreTypeOK, marks, Subject
<1>4. CASE VerifyJobCheck(p) \/ BlockJobCheck(p) \/ UnblockJobCheck(p)
  BY <1>4, <1>m, <1>s DEF VerifyJobCheck, BlockJobCheck, UnblockJobCheck
<1>5. CASE VerifyJob(p) \/ UnblockJob(p)
  BY <1>5, <1>r DEF VerifyJob, UnblockJob
<1>6. CASE BlockJob(p)
  <2>1. req[p].subject \in Job
    BY <1>6, <1>t, HiringLocals DEF BlockJob, At
  <2>2. jobs' \in [Job -> JobDoc] /\ down' \subseteq Job
    BY <1>6, <1>t, <2>1 DEF BlockJob, HiringStoreTypeOK, JobDoc, JobStatus
  <2> QED
    BY <1>6, <1>t, <1>d, <2>2 DEF BlockJob, HiringTypeOK, HiringStoreTypeOK, marks
<1> QED
  BY <1>1, <1>2, <1>3, <1>4, <1>5, <1>6 DEF PostingStep

LEMMA ApplicationTypes ==
    ASSUME HiringTypeOK, NEW p \in Request, ApplicationStep(p)
    PROVE  HiringTypeOK'
<1>t. /\ HiringStoreTypeOK
      /\ req \in [Request -> HiringActivity]
      /\ req[p] \in HiringActivity
      /\ raced \subseteq Subject
  BY DEF HiringTypeOK, HiringStoreTypeOK, Subject
<1>s. Posted \subseteq Job /\ Filed \subseteq App
  BY DEF Posted, Filed
<1>d. Done(p) => req' \in [Request -> HiringActivity]
  BY <1>t, StartTypes, GotoTypes DEF Done
<1>1. CASE ApplyCheck(p)
  <2>1. PICK c \in Candidate, j \in Job :
           /\ Begins(p, "apply", <<c, j>>)
           /\ Goto(p, [at |-> "applyInsert", subject |-> <<c, j>>])
    BY <1>1, <1>s DEF ApplyCheck
  <2>2. <<c, j>> \in Subject
    BY DEF Subject
  <2>3. raced' \subseteq Subject
    BY <2>1, <2>2, <1>t, BeginsTypes
  <2>4. req' \in [Request -> HiringActivity]
    BY <2>1, <1>t, StartTypes, GotoTypes
  <2> QED
    BY <1>1, <1>t, <2>3, <2>4 DEF ApplyCheck, HiringTypeOK, HiringStoreTypeOK, marks, Subject
<1>2. CASE ApplyInsert(p)
  <2>1. /\ req[p].subject \in Candidate \X Job
        /\ req[p] \in [at: {"applyInsert", "applyCount"}, subject: Candidate \X Job]
    BY <1>2, <1>t, HiringLocals DEF ApplyInsert, At
  <2>2. [req[p] EXCEPT !.at = "applyCount"] \in HiringActivity
    BY <2>1 DEF HiringActivity, ApplicationRequest
  <2>3. req' \in [Request -> HiringActivity]
    BY <1>2, <1>t, <2>2, GotoTypes DEF ApplyInsert
  <2>4. \A st \in FiledAs \cup {"pending"} :
           [status |-> st, applicant |-> req[p].subject[1], job |-> req[p].subject[2]]
              \in AppDoc
    BY <2>1, HiringAssumption DEF AppDoc, AppStatus, HiringAssumption
  <2>5. apps' \in [App -> AppDoc] /\ asFiled' \subseteq App
    BY <1>2, <1>t, <2>4 DEF ApplyInsert, HiringStoreTypeOK
  <2> QED
    BY <1>2, <1>t, <2>3, <2>5 DEF ApplyInsert, HiringTypeOK, HiringStoreTypeOK, marks
<1>3. CASE ApplyCount(p)
  <2>1. req[p].subject[2] \in Job
    BY <1>3, <1>t, HiringLocals DEF ApplyCount, At
  <2>2. jobs' \in [Job -> JobDoc]
    BY <1>3, <1>t, <2>1 DEF ApplyCount, HiringStoreTypeOK, JobDoc
  <2> QED
    BY <1>3, <1>t, <1>d, <2>2 DEF ApplyCount, HiringTypeOK, HiringStoreTypeOK, marks
<1>4. CASE WithdrawCheck(p)
  <2>1. PICK a \in App : Begins(p, "withdraw", a) /\ Goto(p, [at |-> "withdraw", subject |-> a])
    BY <1>4, <1>s DEF WithdrawCheck
  <2>2. raced' \subseteq Subject
    BY <2>1, <1>t, BeginsTypes DEF Subject
  <2>3. req' \in [Request -> HiringActivity]
    BY <2>1, <1>t, StartTypes, GotoTypes
  <2> QED
    BY <1>4, <1>t, <2>2, <2>3 DEF WithdrawCheck, HiringTypeOK, HiringStoreTypeOK, marks, Subject
<1>5. CASE Withdraw(p)
  <2>1. req[p].subject \in App
    BY <1>5, <1>t, HiringLocals DEF Withdraw, At
  <2>2. apps' \in [App -> AppDoc] /\ asFiled' \subseteq App
    BY <1>5, <1>t, <2>1 DEF Withdraw, WriteStatus, HiringStoreTypeOK, AppDoc, AppStatus
  <2> QED
    BY <1>5, <1>t, <1>d, <2>2 DEF Withdraw, HiringTypeOK, HiringStoreTypeOK, marks
<1>6. CASE UpdateApplicationStatus(p)
  <2>1. PICK a \in App, st \in Manual :
           Begins(p, "review", a) /\ WriteStatus(a, st)
    BY <1>6, <1>s DEF UpdateApplicationStatus
  <2>2. raced' \subseteq Subject
    BY <2>1, <1>t, BeginsTypes DEF Subject
  <2>3. st \in AppStatus
    BY HiringAssumption
  <2>4. apps' \in [App -> AppDoc] /\ asFiled' \subseteq App
    BY <2>1, <2>3, <1>t DEF WriteStatus, HiringStoreTypeOK, AppDoc
  <2> QED
    BY <1>6, <1>t, <2>2, <2>4 DEF UpdateApplicationStatus, HiringTypeOK, HiringStoreTypeOK, marks, Subject
<1> QED
  BY <1>1, <1>2, <1>3, <1>4, <1>5, <1>6 DEF ApplicationStep, ApplyForJob, WithdrawApplication

LEMMA OfferTypes ==
    ASSUME HiringTypeOK, Offered, NEW p \in Request, OfferStep(p)
    PROVE  HiringTypeOK'
<1>t. /\ HiringStoreTypeOK
      /\ req \in [Request -> HiringActivity]
      /\ req[p] \in HiringActivity
      /\ raced \subseteq Subject
  BY DEF HiringTypeOK, HiringStoreTypeOK, Subject
<1>s. Filed \subseteq App /\ App \subseteq Subject
  BY DEF Filed, Subject
<1>o. \A o \in Drafted : o \in Offer /\ offers[o].application \in App
  BY DEF Drafted, Offered
<1>b. ASSUME NEW a \in App, NEW op, Begins(p, op, a)
      PROVE  raced' \subseteq Subject
  BY <1>b, <1>t, <1>s, BeginsTypes
<1>d. Done(p) => req' \in [Request -> HiringActivity]
  BY <1>t, StartTypes, GotoTypes DEF Done
<1>a. ASSUME NEW st \in AppStatus, req[p].subject \in App, SetApplication(p, st)
      PROVE  HiringTypeOK'
  <2>1. apps' \in [App -> AppDoc] /\ asFiled' \subseteq App
    BY <1>a, <1>t DEF SetApplication, WriteStatus, HiringStoreTypeOK, AppDoc
  <2> QED
    BY <1>a, <1>t, <1>d, <2>1 DEF SetApplication, HiringTypeOK, HiringStoreTypeOK, marks
<1>k. ASSUME NEW a \in App, NEW op, NEW x \in HiringActivity, Begins(p, op, a), Goto(p, x),
             UNCHANGED <<jobs, apps, offers, fails, marks>>
      PROVE  HiringTypeOK'
  <2>1. req' \in [Request -> HiringActivity]
    BY <1>k, <1>t, GotoTypes
  <2>2. raced' \subseteq Subject
    BY <1>k, <1>b
  <2> QED
    BY <1>k, <1>t, <2>1, <2>2 DEF HiringTypeOK, HiringStoreTypeOK, marks, Subject
<1>w. ASSUME NEW x \in HiringActivity, Goto(p, x), offers' \in [Offer -> OfferDoc],
             UNCHANGED <<jobs, apps, fails, raced, marks>>
      PROVE  HiringTypeOK'
  <2>1. req' \in [Request -> HiringActivity]
    BY <1>w, <1>t, GotoTypes
  <2> QED
    BY <1>w, <1>t, <2>1 DEF HiringTypeOK, HiringStoreTypeOK, marks
<1>1. CASE OfferCheckStatus(p)
  BY <1>1, <1>s, <1>k, StartTypes DEF OfferCheckStatus
<1>2. CASE OfferCheckActive(p)
  <2>1. /\ req[p].subject \in App
        /\ req[p] \in [at: {"offerCheckActive", "offerInsert", "offerApplication"}, subject: App]
    BY <1>2, <1>t, HiringLocals DEF OfferCheckActive, At
  <2>2. [req[p] EXCEPT !.at = "offerInsert"] \in HiringActivity
    BY <2>1 DEF HiringActivity, OfferRequest
  <2>3. req' \in [Request -> HiringActivity]
    BY <1>2, <1>t, <2>2, StartTypes, GotoTypes DEF OfferCheckActive
  <2> QED
    BY <1>2, <1>t, <2>3 DEF OfferCheckActive, HiringTypeOK, HiringStoreTypeOK, marks
<1>3. CASE OfferInsert(p)
  <2>1. /\ req[p].subject \in App
        /\ req[p] \in [at: {"offerCheckActive", "offerInsert", "offerApplication"}, subject: App]
    BY <1>3, <1>t, HiringLocals DEF OfferInsert, At
  <2>2. [req[p] EXCEPT !.at = "offerApplication"] \in HiringActivity
    BY <2>1 DEF HiringActivity, OfferRequest
  <2>3. \A lapsed \in BOOLEAN :
           [status |-> "pending", application |-> req[p].subject,
            signed |-> FALSE, lapsed |-> lapsed] \in OfferDoc
    BY <2>1 DEF OfferDoc
  <2>4. offers' \in [Offer -> OfferDoc]
    BY <1>3, <1>t, <2>3 DEF OfferInsert, HiringStoreTypeOK
  <2> QED
    BY <1>3, <1>w, <2>2, <2>4 DEF OfferInsert
<1>4. CASE OfferApplication(p)
  BY <1>4, <1>t, <1>a, HiringLocals DEF OfferApplication, At, AppStatus
<1>5. CASE RespondCheck(p)
  BY <1>5, <1>o, <1>k, StartTypes DEF RespondCheck
<1>6. CASE Respond(p)
  <2>1. req[p].subject \in App /\ req[p].offer \in Offer /\ req[p].answer \in {"accepted", "rejected"}
    BY <1>6, <1>t, HiringLocals DEF Respond, At
  <2>2. offers' \in [Offer -> OfferDoc]
    BY <1>6, <1>t, <2>1 DEF Respond, HiringStoreTypeOK, OfferDoc
  <2>3. [at |-> "respondApplication", subject |-> req[p].subject] \in HiringActivity
    BY <2>1, StartTypes
  <2> QED
    BY <1>6, <1>w, <2>2, <2>3, StartTypes DEF Respond
<1>7. CASE RespondApplication(p)
  BY <1>7, <1>t, <1>a, HiringLocals DEF RespondApplication, At, AppStatus
<1>8. CASE SignCheck(p)
  BY <1>8, <1>o, <1>k, StartTypes DEF SignCheck
<1>9. CASE Sign(p)
  <2>1. req[p].offer \in Offer
    BY <1>9, <1>t, HiringLocals DEF Sign, At
  <2>2. offers' \in [Offer -> OfferDoc]
    BY <1>9, <1>t, <2>1, ZenonT(40) DEF Sign, HiringStoreTypeOK, OfferDoc
  <2> QED
    BY <1>9, <1>w, <2>2, StartTypes DEF Sign, Done
<1>10. CASE VerifyCheck(p)
  BY <1>10, <1>o, <1>k, StartTypes DEF VerifyCheck
<1>11. CASE Verify(p)
  <2>1. req[p].subject \in App /\ req[p].offer \in Offer
    BY <1>11, <1>t, HiringLocals DEF Verify, At
  <2>2. offers' \in [Offer -> OfferDoc]
    BY <1>11, <1>t, <2>1 DEF Verify, HiringStoreTypeOK, OfferDoc
  <2>3. [at |-> "verifyApplication", subject |-> req[p].subject] \in HiringActivity
    BY <2>1, StartTypes
  <2> QED
    BY <1>11, <1>w, <2>2, <2>3 DEF Verify
<1>12. CASE VerifyApplication(p)
  BY <1>12, <1>t, <1>a, HiringLocals DEF VerifyApplication, At, AppStatus
<1> QED
  BY <1>1, <1>2, <1>3, <1>4, <1>5, <1>6, <1>7, <1>8, <1>9, <1>10, <1>11, <1>12 DEF OfferStep, CreateOffer, RespondToOffer,
         UploadSignedDocument, VerifyOffer

-----------------------------------------------------------------------------
(***************************************************************************)
(* The inductive invariant.  A blocked job is hidden because it is not     *)
(* verified, and only the steps that lift a block verify a job.  A slot    *)
(* about to write an offer aims at one that exists, so that inserting one  *)
(* never takes the signature from under a verification.                    *)
(***************************************************************************)
BlockedUnverified == \A j \in down : ~jobs[j].isVerified

Writing == {"respond", "sign", "verify"}

Aimed ==
    \A p \in Request : req[p].at \in Writing => offers[req[p].offer].status # "none"

HiringInv ==
    /\ HiringTypeOK
    /\ Offered
    /\ BlockedUnverified
    /\ VerifiedMeansSigned
    /\ Aimed

LEMMA HiringInitInv == HiringInit => HiringInv
<1> SUFFICES ASSUME HiringInit PROVE HiringInv
  OBVIOUS
<1>1. NoJob \in JobDoc /\ NoApp \in AppDoc /\ NoOffer \in OfferDoc
  BY DEF NoJob, JobDoc, JobStatus, NoApp, AppDoc, AppStatus, NoOffer, OfferDoc
<1>2. HiringTypeOK
  BY <1>1, StartTypes DEF HiringInit, HiringTypeOK, HiringStoreTypeOK, marks
<1>3. \A o \in Offer : offers[o].status = "none"
  BY DEF HiringInit, NoOffer
<1>4. \A p \in Request : req[p].at = "idle"
  BY DEF HiringInit, Idle
<1>5. BlockedUnverified
  BY DEF HiringInit, BlockedUnverified
<1> QED
  BY <1>2, <1>3, <1>4, <1>5
     DEF HiringInv, Offered, VerifiedMeansSigned, Aimed, Writing, At

\* A step that leaves the offers alone and aims no slot at one.
LEMMA OffersFrame ==
    ASSUME HiringInv, UNCHANGED offers,
           \A q \in Request : req'[q] = req[q] \/ req'[q].at \notin Writing
    PROVE  Offered' /\ VerifiedMeansSigned' /\ Aimed'
<1>1. Offered'
  BY DEF HiringInv, Offered
<1>2. Aimed'
  BY DEF HiringInv, Aimed
<1>3. VerifiedMeansSigned'
  BY DEF HiringInv, VerifiedMeansSigned, At, Writing
<1> QED
  BY <1>1, <1>2, <1>3

\* Only slot p moves, to x.
LEMMA GotoFrame ==
    ASSUME HiringTypeOK, NEW p \in Request, NEW x, Goto(p, x)
    PROVE  /\ req'[p] = x
           /\ \A q \in Request \ {p} : req'[q] = req[q]
  BY DEF HiringTypeOK, Goto

LEMMA PostingInv ==
    ASSUME HiringInv, NEW p \in Request, PostingStep(p)
    PROVE  HiringInv'
<1>t. HiringTypeOK /\ HiringStoreTypeOK
  BY DEF HiringInv, HiringTypeOK
<1>1. HiringTypeOK'
  BY <1>t, PostingTypes
<1>2. UNCHANGED offers
  BY DEF PostingStep, CreateJob, UpdateJob, StoreBody, UpdateJobStatus, AdminDeleteJob, VerifyJobCheck,
         BlockJobCheck, UnblockJobCheck, Moderate, VerifyJob, UnblockJob, Reopen, BlockJob
<1>3. \A q \in Request : req'[q] = req[q] \/ req'[q].at \notin Writing
  <2>1. CASE UNCHANGED req
    BY <2>1
  <2>2. ASSUME NEW j, NEW l \in {"verifyJob", "blockJob", "unblockJob"}, Moderate(p, j, l)
        PROVE  \A q \in Request : req'[q] = req[q] \/ req'[q].at \notin Writing
    <3>1. Goto(p, [at |-> l, subject |-> j])
      BY <2>2 DEF Moderate
    <3> QED
      BY <3>1, <1>t, GotoFrame DEF Writing
  <2>3. CASE Done(p)
    BY <2>3, <1>t, GotoFrame DEF Done, Idle, Writing
  <2> QED
    BY <2>1, <2>2, <2>3
       DEF PostingStep, CreateJob, UpdateJob, StoreBody, UpdateJobStatus, AdminDeleteJob, VerifyJobCheck,
           BlockJobCheck, UnblockJobCheck, VerifyJob, UnblockJob, Reopen, BlockJob
<1>4. BlockedUnverified'
  <2>s. ASSUME NEW j, NEW st, SetJob(j, st), UNCHANGED down
        PROVE  BlockedUnverified'
    BY <2>s, <1>t DEF SetJob, HiringInv, BlockedUnverified, HiringStoreTypeOK, JobDoc
  <2>r. ASSUME NEW l, Reopen(p, l)
        PROVE  BlockedUnverified'
    BY <2>r, <1>t DEF Reopen, HiringInv, BlockedUnverified, HiringStoreTypeOK
  <2>m. ASSUME NEW j, NEW l, Moderate(p, j, l)
        PROVE  BlockedUnverified'
    BY <2>m DEF Moderate, HiringInv, BlockedUnverified, marks
  <2>b. ASSUME NEW j \in Job, NEW doc, StoreBody(j, doc)
        PROVE  BlockedUnverified'
    <3>1. /\ jobs'[j] = doc
          /\ \A i \in Job \ {j} : jobs'[i] = jobs[i]
          /\ down' \subseteq down /\ down \subseteq Job
          /\ j \in down' => ~doc.isVerified
      BY <2>b, <1>t DEF StoreBody, HiringStoreTypeOK
    <3> QED
      BY <3>1 DEF HiringInv, BlockedUnverified
  <2>1. CASE UpdateJobStatus(p) \/ AdminDeleteJob(p)
    BY <2>1, <2>s DEF UpdateJobStatus, AdminDeleteJob, marks
  <2>5. CASE CreateJob(p) \/ UpdateJob(p)
    BY <2>5, <2>b DEF CreateJob, UpdateJob, Posted
  <2>2. CASE VerifyJob(p) \/ UnblockJob(p)
    BY <2>2, <2>r DEF VerifyJob, UnblockJob
  <2>3. CASE BlockJob(p)
    <3>1. /\ req[p].subject \in Job /\ req[p] \in HiringActivity
          /\ jobs \in [Job -> JobDoc] /\ down \subseteq Job
      BY <2>3, <1>t, HiringLocals DEF BlockJob, At, HiringTypeOK, HiringStoreTypeOK, marks
    <3>2. /\ jobs'[req[p].subject].isVerified = FALSE
          /\ \A j \in Job \ {req[p].subject} : jobs'[j] = jobs[j]
          /\ down' = down \cup {req[p].subject}
      BY <2>3, <3>1 DEF BlockJob, JobDoc
    <3> QED
      BY <3>1, <3>2 DEF HiringInv, BlockedUnverified
  <2>4. CASE VerifyJobCheck(p) \/ BlockJobCheck(p) \/ UnblockJobCheck(p)
    BY <2>4, <2>m DEF VerifyJobCheck, BlockJobCheck, UnblockJobCheck
  <2> QED
    BY <2>1, <2>2, <2>3, <2>4, <2>5 DEF PostingStep
<1> QED
  BY <1>1, <1>2, <1>3, <1>4, OffersFrame DEF HiringInv

LEMMA ApplicationInv ==
    ASSUME HiringInv, NEW p \in Request, ApplicationStep(p)
    PROVE  HiringInv'
<1>t. HiringTypeOK /\ HiringStoreTypeOK /\ req[p] \in HiringActivity
  BY DEF HiringInv, HiringTypeOK
<1>1. HiringTypeOK'
  BY <1>t, ApplicationTypes
<1>2. UNCHANGED offers
  BY DEF ApplicationStep, ApplyForJob, WithdrawApplication, ApplyCheck, ApplyInsert, ApplyCount, WithdrawCheck, Withdraw,
         UpdateApplicationStatus
<1>3. \A q \in Request : req'[q] = req[q] \/ req'[q].at \notin Writing
  <2>1. CASE UNCHANGED req
    BY <2>1
  <2>2. CASE Done(p)
    BY <2>2, <1>t, GotoFrame DEF Done, Idle, Writing
  <2>3. CASE ApplyCheck(p) \/ WithdrawCheck(p)
    <3>1. PICK l \in {"applyInsert", "withdraw"}, x \in (Candidate \X Job) \cup App :
             Goto(p, [at |-> l, subject |-> x])
      <4>1. ASSUME ApplyCheck(p)
            PROVE  \E c \in Candidate, j \in Job :
                      Goto(p, [at |-> "applyInsert", subject |-> <<c, j>>])
        BY <4>1 DEF ApplyCheck, Posted
      <4>2. ASSUME WithdrawCheck(p)
            PROVE  \E a \in App : Goto(p, [at |-> "withdraw", subject |-> a])
        BY <4>2 DEF WithdrawCheck, Filed
      <4> QED
        BY <2>3, <4>1, <4>2
    <3>2. [at |-> l, subject |-> x].at \notin Writing
      BY DEF Writing
    <3> QED
      BY <3>1, <3>2, <1>t, GotoFrame
  <2>4. CASE ApplyInsert(p)
    <3>1. [req[p] EXCEPT !.at = "applyCount"].at = "applyCount"
      BY <2>4, <1>t, HiringLocals DEF ApplyInsert, At
    <3> QED
      BY <2>4, <3>1, <1>t, GotoFrame DEF ApplyInsert, Writing
  <2> QED
    BY <2>1, <2>2, <2>3, <2>4 DEF ApplicationStep, ApplyForJob, WithdrawApplication, ApplyCount, Withdraw, UpdateApplicationStatus
<1>4. BlockedUnverified'
  <2>1. CASE UNCHANGED jobs /\ UNCHANGED down
    BY <2>1 DEF HiringInv, BlockedUnverified
  <2>2. CASE ApplyCount(p)
    <3>1. /\ req[p].subject[2] \in Job
          /\ jobs \in [Job -> JobDoc] /\ down \subseteq Job
      BY <2>2, <1>t, HiringLocals DEF ApplyCount, At, HiringStoreTypeOK
    <3>2. \A j \in Job : jobs'[j].isVerified = jobs[j].isVerified
      BY <2>2, <3>1 DEF ApplyCount, JobDoc
    <3> QED
      BY <2>2, <3>1, <3>2 DEF ApplyCount, HiringInv, BlockedUnverified, marks
  <2> QED
    BY <2>1, <2>2
       DEF ApplicationStep, ApplyForJob, WithdrawApplication, ApplyCheck, ApplyInsert, WithdrawCheck, Withdraw,
           UpdateApplicationStatus, marks
<1> QED
  BY <1>1, <1>2, <1>3, <1>4, OffersFrame DEF HiringInv

LEMMA OfferInv ==
    ASSUME HiringInv, NEW p \in Request, OfferStep(p)
    PROVE  HiringInv'
<1>t. /\ HiringTypeOK /\ HiringStoreTypeOK /\ req[p] \in HiringActivity
      /\ offers \in [Offer -> OfferDoc]
  BY DEF HiringInv, HiringTypeOK, HiringStoreTypeOK
<1>i. Offered /\ VerifiedMeansSigned /\ Aimed
  BY DEF HiringInv
<1>1. HiringTypeOK'
  BY <1>t, <1>i, OfferTypes
<1>2. BlockedUnverified'
  <2>1. UNCHANGED jobs /\ UNCHANGED down
    BY DEF OfferStep, CreateOffer, RespondToOffer,
         UploadSignedDocument, VerifyOffer, OfferCheckStatus, OfferCheckActive, OfferInsert, OfferApplication,
           RespondCheck, Respond, RespondApplication, SignCheck, Sign,
           VerifyCheck, Verify, VerifyApplication, SetApplication, marks
  <2> QED
    BY <2>1 DEF HiringInv, BlockedUnverified
\* p starts a write of an offer that exists, signed if it is to be verified.
<1>s. ASSUME NEW o \in Drafted, NEW x, Goto(p, x), UNCHANGED offers, x.offer = o,
             x.at = "verify" => offers[o].signed
      PROVE  Offered' /\ VerifiedMeansSigned' /\ Aimed'
  <2>1. req'[p] = x /\ \A q \in Request \ {p} : req'[q] = req[q]
    BY <1>s, <1>t, GotoFrame
  <2>2. Offered'
    BY <1>s, <1>i DEF Offered
  <2>3. Aimed'
    BY <1>s, <1>i, <2>1 DEF Aimed, Drafted
  <2>4. VerifiedMeansSigned'
    BY <1>s, <1>i, <2>1 DEF VerifiedMeansSigned, At
  <2> QED
    BY <2>2, <2>3, <2>4
\* p writes an offer that exists, and stops aiming at it.
<1>w. ASSUME NEW o \in Offer, NEW f, NEW x, Goto(p, x), x.at \notin Writing,
             offers[o].status # "none", offers' = [offers EXCEPT ![o] = f],
             f.status # "none", f.application = offers[o].application,
             offers[o].signed => f.signed, f.status = "verified" => f.signed
      PROVE  Offered' /\ VerifiedMeansSigned' /\ Aimed'
  <2>1. req'[p] = x /\ \A q \in Request \ {p} : req'[q] = req[q]
    BY <1>w, <1>t, GotoFrame
  <2>2. offers'[o] = f /\ \A u \in Offer \ {o} : offers'[u] = offers[u]
    BY <1>w, <1>t
  <2>3. Offered'
    BY <1>w, <1>i, <2>2 DEF Offered
  <2>4. \A q \in Request : req'[q].at \in Writing =>
           req'[q] = req[q] /\ req[q].offer \in Offer
    BY <1>w, <1>t, <2>1, HiringLocals DEF HiringTypeOK, Writing
  <2>5. Aimed'
    BY <1>w, <1>i, <2>2, <2>4 DEF Aimed
  <2>6. VerifiedMeansSigned'
    BY <1>w, <1>i, <2>2, <2>4 DEF VerifiedMeansSigned, At, Writing
  <2> QED
    BY <2>3, <2>5, <2>6
<1> SUFFICES Offered' /\ VerifiedMeansSigned' /\ Aimed'
  BY <1>1, <1>2 DEF HiringInv
<1>u. CASE UNCHANGED offers /\ \A q \in Request : req'[q] = req[q] \/ req'[q].at \notin Writing
  BY <1>u, OffersFrame
<1>d. CASE UNCHANGED offers /\ Done(p)
  BY <1>d, <1>u, <1>t, GotoFrame DEF Done, Idle, Writing
<1>3. CASE OfferCheckStatus(p)
  <2>1. PICK a : Goto(p, [at |-> "offerCheckActive", subject |-> a])
    BY <1>3 DEF OfferCheckStatus
  <2>2. [at |-> "offerCheckActive", subject |-> a].at \notin Writing
    BY DEF Writing
  <2> QED
    BY <1>3, <1>u, <1>t, <2>1, <2>2, GotoFrame DEF OfferCheckStatus
<1>4. CASE OfferCheckActive(p)
  <2>1. [req[p] EXCEPT !.at = "offerInsert"].at \notin Writing
    BY <1>4, <1>t, HiringLocals DEF OfferCheckActive, At, Writing
  <2>2. Idle.at \notin Writing
    BY DEF Idle, Writing
  <2> QED
    BY <1>4, <1>u, <1>t, <2>1, <2>2, GotoFrame DEF OfferCheckActive
<1>5. CASE OfferInsert(p)
  <2>1. PICK o \in Offer \ Drafted, lapsed \in BOOLEAN :
          offers' = [offers EXCEPT ![o] = [status |-> "pending", application |-> req[p].subject,
                                           signed |-> FALSE, lapsed |-> lapsed]]
    BY <1>5 DEF OfferInsert
  <2>2. /\ req[p].subject \in App
        /\ [req[p] EXCEPT !.at = "offerApplication"].at \notin Writing
    BY <1>5, <1>t, HiringLocals DEF OfferInsert, At, Writing
  <2>3. /\ req'[p].at \notin Writing
        /\ \A q \in Request \ {p} : req'[q] = req[q]
    BY <1>5, <1>t, <2>2, GotoFrame DEF OfferInsert
  <2>4. /\ offers'[o].status = "pending" /\ offers'[o].application \in App
        /\ \A u \in Offer \ {o} : offers'[u] = offers[u]
        /\ offers[o].status = "none"
    BY <2>1, <2>2, <1>t DEF Drafted
  <2>5. \A q \in Request : req'[q].at \in Writing =>
           req'[q] = req[q] /\ req[q].offer \in Offer \ {o}
    BY <1>t, <1>i, <2>3, <2>4, HiringLocals DEF HiringTypeOK, Writing, Aimed
  <2>6. Offered'
    BY <1>i, <2>4 DEF Offered
  <2>7. Aimed'
    BY <1>i, <2>4, <2>5 DEF Aimed
  <2>8. VerifiedMeansSigned'
    BY <1>i, <2>4, <2>5 DEF VerifiedMeansSigned, At, Writing
  <2> QED
    BY <2>6, <2>7, <2>8
<1>6. CASE OfferApplication(p) \/ RespondApplication(p) \/ VerifyApplication(p)
  BY <1>6, <1>d DEF OfferApplication, RespondApplication, VerifyApplication, SetApplication
<1>7. CASE RespondCheck(p)
  <2>1. PICK o \in Drafted, v \in {"accepted", "rejected"} :
           Goto(p, [at |-> "respond", subject |-> offers[o].application, offer |-> o, answer |-> v])
    BY <1>7 DEF RespondCheck
  <2> QED
    BY <1>7, <1>s, <2>1 DEF RespondCheck
<1>8. CASE SignCheck(p)
  <2>1. PICK o \in Drafted : Goto(p, [at |-> "sign", subject |-> offers[o].application, offer |-> o])
    BY <1>8 DEF SignCheck
  <2> QED
    BY <1>8, <1>s, <2>1 DEF SignCheck
<1>9. CASE VerifyCheck(p)
  <2>1. PICK o \in Drafted :
          /\ offers[o].signed
          /\ Goto(p, [at |-> "verify", subject |-> offers[o].application, offer |-> o])
    BY <1>9 DEF VerifyCheck
  <2> QED
    BY <1>9, <1>s, <2>1 DEF VerifyCheck
<1>10. CASE Respond(p)
  <2> DEFINE o == req[p].offer
             f == [offers[o] EXCEPT !.status = req[p].answer]
             x == IF req[p].answer = "accepted" THEN Idle
                  ELSE [at |-> "respondApplication", subject |-> req[p].subject]
  <2>1. /\ o \in Offer /\ req[p].answer \in {"accepted", "rejected"}
        /\ offers[o].status # "none" /\ offers[o] \in OfferDoc
    BY <1>10, <1>t, <1>i, HiringLocals DEF Respond, At, Aimed, Writing
  <2>2. Goto(p, x) /\ offers' = [offers EXCEPT ![o] = f]
    BY <1>10 DEF Respond
  <2>3. x.at \notin Writing
    BY DEF Idle, Writing
  <2>4. /\ f.status = req[p].answer
        /\ f.application = offers[o].application
        /\ f.signed = offers[o].signed
    BY <2>1 DEF OfferDoc
  <2> HIDE DEF f, x
  <2> QED
    BY <1>w, <2>1, <2>2, <2>3, <2>4
<1>11. CASE Sign(p)
  <2> DEFINE o == req[p].offer
             f == [offers[o] EXCEPT !.signed = TRUE]
  <2>1. o \in Offer /\ offers[o].status # "none" /\ offers[o] \in OfferDoc
    BY <1>11, <1>t, <1>i, HiringLocals DEF Sign, At, Aimed, Writing
  <2>2. Goto(p, Idle) /\ offers' = [offers EXCEPT ![o] = f]
    BY <1>11 DEF Sign, Done
  <2>3. Idle.at \notin Writing
    BY DEF Idle, Writing
  <2>4. /\ f.status = offers[o].status
        /\ f.application = offers[o].application
        /\ f.signed
    BY <2>1 DEF OfferDoc
  <2> HIDE DEF f
  <2> QED
    BY <1>w, <2>1, <2>2, <2>3, <2>4
<1>12. CASE Verify(p)
  <2> DEFINE o == req[p].offer
             f == [offers[o] EXCEPT !.status = "verified"]
             x == [at |-> "verifyApplication", subject |-> req[p].subject]
  <2>1. o \in Offer /\ offers[o].status # "none" /\ offers[o] \in OfferDoc
    BY <1>12, <1>t, <1>i, HiringLocals DEF Verify, At, Aimed, Writing
  <2>2. Goto(p, x) /\ offers' = [offers EXCEPT ![o] = f]
    BY <1>12 DEF Verify
  <2>3. x.at \notin Writing
    BY DEF Writing
  <2>4. offers[o].signed
    BY <1>12, <1>i DEF Verify, VerifiedMeansSigned
  <2>5. /\ f.status = "verified"
        /\ f.application = offers[o].application
        /\ f.signed
    BY <2>1, <2>4 DEF OfferDoc
  <2> HIDE DEF f, x
  <2> QED
    BY <1>w, <2>1, <2>2, <2>3, <2>4, <2>5
<1> QED
  BY <1>3, <1>4, <1>5, <1>6, <1>7, <1>8, <1>9, <1>10, <1>11, <1>12 DEF OfferStep, CreateOffer, RespondToOffer,
         UploadSignedDocument, VerifyOffer

\* Time passing lapses an offer, which changes nothing else of it.
LEMMA LapseInv ==
    ASSUME HiringInv, NEW o \in Offer, Lapse(o)
    PROVE  HiringInv'
<1>t. /\ HiringTypeOK /\ HiringStoreTypeOK
      /\ offers \in [Offer -> OfferDoc]
  BY DEF HiringInv, HiringTypeOK, HiringStoreTypeOK
<1>i. Offered /\ VerifiedMeansSigned /\ Aimed
  BY DEF HiringInv
<1>1. /\ offers' \in [Offer -> OfferDoc]
      /\ \A u \in Offer : /\ offers'[u].status = offers[u].status
                          /\ offers'[u].signed = offers[u].signed
                          /\ offers'[u].application = offers[u].application
  BY <1>t DEF Lapse, OfferDoc
<1>2. offers[o].application \in App
  BY <1>i DEF Lapse, Offered
<1>3. HiringTypeOK'
  BY <1>1, <1>2, <1>t DEF Lapse, HiringTypeOK, HiringStoreTypeOK, marks
<1>4. Offered' /\ BlockedUnverified'
  BY <1>1, <1>i DEF Lapse, Offered, HiringInv, BlockedUnverified, marks
<1>5. \A q \in Request : req[q].at \in Writing => req[q].offer \in Offer
  BY <1>t, HiringLocals DEF HiringTypeOK, Writing
<1>6. Aimed'
  BY <1>1, <1>5, <1>i DEF Lapse, Aimed
<1>7. VerifiedMeansSigned'
  BY <1>1, <1>5, <1>i DEF Lapse, VerifiedMeansSigned, At, Writing
<1> QED
  BY <1>3, <1>4, <1>6, <1>7 DEF HiringInv

\* A failing request frees its slot.
LEMMA FailInv ==
    ASSUME HiringInv, NEW p \in Request, RequestFails(p)
    PROVE  HiringInv'
<1>t. HiringTypeOK /\ HiringStoreTypeOK /\ req \in [Request -> HiringActivity]
  BY DEF HiringInv, HiringTypeOK
<1>g. req' \in [Request -> HiringActivity]
  BY <1>t, StartTypes, GotoTypes DEF RequestFails, Done
<1>f. fails' \in Nat
  BY <1>t DEF RequestFails, HiringStoreTypeOK
<1>1. HiringTypeOK'
  BY <1>t, <1>g, <1>f DEF RequestFails, HiringTypeOK, HiringStoreTypeOK, marks
<1>2. \A q \in Request : req'[q] = req[q] \/ req'[q].at \notin Writing
  BY <1>t, GotoFrame DEF RequestFails, Done, Idle, Writing
<1>3. BlockedUnverified'
  BY DEF RequestFails, HiringInv, BlockedUnverified, marks
<1> QED
  BY <1>1, <1>2, <1>3, OffersFrame DEF RequestFails, HiringInv

LEMMA HiringStepInv ==
    ASSUME HiringInv, [HiringNext]_hiringVars
    PROVE  HiringInv'
<1>1. CASE \E o \in Offer : Lapse(o)
  BY <1>1, LapseInv
<1>2. ASSUME NEW p \in Request,
             PostingStep(p) \/ ApplicationStep(p) \/ OfferStep(p) \/ RequestFails(p)
      PROVE  HiringInv'
  BY <1>2, PostingInv, ApplicationInv, OfferInv, FailInv
<1>3. CASE UNCHANGED hiringVars
  BY <1>3 DEF hiringVars, HiringInv, HiringTypeOK, HiringStoreTypeOK, marks, Offered,
              BlockedUnverified, VerifiedMeansSigned, Aimed, At
<1> QED
  BY <1>1, <1>2, <1>3 DEF HiringNext

LEMMA HiringInvariant == HiringSpec => []HiringInv
<1>1. HiringInit => HiringInv
  BY HiringInitInv
<1>2. HiringInv /\ [HiringNext]_hiringVars => HiringInv'
  BY HiringStepInv
<1> QED
  BY <1>1, <1>2, PTL DEF HiringSpec

-----------------------------------------------------------------------------
(***************************************************************************)
(* What a step does to the slots: a request starts, goes on or ends, and   *)
(* only a start, a single-step request or time passing records an overlap. *)
(***************************************************************************)

Starting == {"verifyJob", "blockJob", "unblockJob", "applyInsert", "withdraw",
             "offerCheckActive", "respond", "sign", "verify"}

Following == {<<"applyInsert", "applyCount">>, <<"offerCheckActive", "offerInsert">>,
              <<"offerInsert", "offerApplication">>, <<"respond", "respondApplication">>,
              <<"verify", "verifyApplication">>}

Starts(p) ==
    /\ req[p].at = "idle" /\ req'[p].at \in Starting
    /\ raced' = IF InFlightAbout(req'[p].subject) = {} THEN raced
                ELSE raced \cup {req'[p].subject}

GoesOn(p) ==
    /\ <<req[p].at, req'[p].at>> \in Following
    /\ req'[p].subject = req[p].subject
    /\ UNCHANGED raced

Ends(p) == req'[p] = Idle /\ UNCHANGED raced

Moves(p) ==
    /\ \A q \in Request \ {p} : req'[q] = req[q]
    /\ Starts(p) \/ GoesOn(p) \/ Ends(p)

LEMMA BeginsGrows ==
    ASSUME NEW p, NEW op, NEW x, Begins(p, op, x)
    PROVE  raced \subseteq raced'
  BY DEF Begins

LEMMA StartMoves ==
    ASSUME HiringTypeOK, NEW p \in Request, NEW op, NEW x, NEW r, Begins(p, op, x), Goto(p, r),
           r.subject = x, r.at \in Starting
    PROVE  Moves(p)
<1>1. req'[p] = r /\ \A q \in Request \ {p} : req'[q] = req[q]
  BY GotoFrame
<1> QED
  BY <1>1 DEF Moves, Starts, Begins, At

LEMMA EndMoves ==
    ASSUME HiringTypeOK, NEW p \in Request, Done(p), UNCHANGED raced
    PROVE  Moves(p)
  BY GotoFrame DEF Done, Moves, Ends

LEMMA OnMoves ==
    ASSUME HiringTypeOK, NEW p \in Request, NEW r, Goto(p, r), UNCHANGED raced,
           r.subject = req[p].subject, <<req[p].at, r.at>> \in Following
    PROVE  Moves(p)
<1>1. req'[p] = r /\ \A q \in Request \ {p} : req'[q] = req[q]
  BY GotoFrame
<1> QED
  BY <1>1 DEF Moves, GoesOn

LEMMA PostingMoves ==
    ASSUME HiringTypeOK, NEW p \in Request, PostingStep(p)
    PROVE  Moves(p) \/ (UNCHANGED req /\ raced \subseteq raced')
<1>1. CASE CreateJob(p) \/ UpdateJob(p) \/ UpdateJobStatus(p) \/ AdminDeleteJob(p)
  BY <1>1, BeginsGrows DEF CreateJob, UpdateJob, UpdateJobStatus, AdminDeleteJob
<1>2. ASSUME NEW j, NEW l \in {"verifyJob", "blockJob", "unblockJob"}, Moderate(p, j, l)
      PROVE  Moves(p)
  <2> DEFINE r == [at |-> l, subject |-> j]
  <2>1. r.subject = j /\ r.at \in Starting
    BY DEF Starting
  <2>2. Begins(p, "moderate", j) /\ Goto(p, r)
    BY <1>2 DEF Moderate
  <2> HIDE DEF r
  <2> QED
    BY <2>1, <2>2, StartMoves
<1>3. CASE VerifyJobCheck(p) \/ BlockJobCheck(p) \/ UnblockJobCheck(p)
  BY <1>3, <1>2 DEF VerifyJobCheck, BlockJobCheck, UnblockJobCheck
<1>4. CASE VerifyJob(p) \/ BlockJob(p) \/ UnblockJob(p)
  BY <1>4, EndMoves DEF VerifyJob, UnblockJob, Reopen, BlockJob
<1> QED
  BY <1>1, <1>3, <1>4 DEF PostingStep

LEMMA ApplicationMoves ==
    ASSUME HiringTypeOK, NEW p \in Request, ApplicationStep(p)
    PROVE  Moves(p) \/ (UNCHANGED req /\ raced \subseteq raced')
<1>t. req[p] \in HiringActivity
  BY DEF HiringTypeOK
<1>1. CASE ApplyCheck(p)
  <2>1. PICK x : Begins(p, "apply", x) /\ Goto(p, [at |-> "applyInsert", subject |-> x])
    BY <1>1 DEF ApplyCheck
  <2>2. "applyInsert" \in Starting
    BY DEF Starting
  <2> QED
    BY <2>1, <2>2, StartMoves
<1>2. CASE WithdrawCheck(p)
  <2>1. PICK x : Begins(p, "withdraw", x) /\ Goto(p, [at |-> "withdraw", subject |-> x])
    BY <1>2 DEF WithdrawCheck
  <2>2. "withdraw" \in Starting
    BY DEF Starting
  <2> QED
    BY <2>1, <2>2, StartMoves
<1>3. CASE ApplyInsert(p)
  <2> DEFINE r == [req[p] EXCEPT !.at = "applyCount"]
  <2>1. r.at = "applyCount" /\ r.subject = req[p].subject /\ req[p].at = "applyInsert"
    BY <1>3, <1>t, HiringLocals DEF ApplyInsert, At
  <2>2. Goto(p, r) /\ UNCHANGED raced
    BY <1>3 DEF ApplyInsert
  <2> HIDE DEF r
  <2> QED
    BY <2>1, <2>2, OnMoves DEF Following
<1>4. CASE ApplyCount(p) \/ Withdraw(p)
  BY <1>4, EndMoves DEF ApplyCount, Withdraw
<1>5. CASE UpdateApplicationStatus(p)
  BY <1>5, BeginsGrows DEF UpdateApplicationStatus
<1> QED
  BY <1>1, <1>2, <1>3, <1>4, <1>5 DEF ApplicationStep, ApplyForJob, WithdrawApplication

LEMMA OfferMoves ==
    ASSUME HiringTypeOK, NEW p \in Request, OfferStep(p)
    PROVE  Moves(p)
<1>t. req[p] \in HiringActivity
  BY DEF HiringTypeOK
<1>s. {"offerCheckActive", "respond", "sign", "verify"} \subseteq Starting
  BY DEF Starting
<1>1. CASE OfferCheckStatus(p)
  <2>1. PICK x : Begins(p, "offer", x) /\ Goto(p, [at |-> "offerCheckActive", subject |-> x])
    BY <1>1 DEF OfferCheckStatus
  <2> QED
    BY <2>1, <1>s, StartMoves
<1>2. CASE OfferCheckActive(p)
  <2> DEFINE r == [req[p] EXCEPT !.at = "offerInsert"]
  <2>1. /\ r.at = "offerInsert" /\ r.subject = req[p].subject
        /\ req[p].at = "offerCheckActive"
    BY <1>2, <1>t, HiringLocals DEF OfferCheckActive, At
  <2>2. Done(p) \/ Goto(p, r)
    BY <1>2 DEF OfferCheckActive, Done
  <2>3. UNCHANGED raced
    BY <1>2 DEF OfferCheckActive
  <2> HIDE DEF r
  <2> QED
    BY <2>1, <2>2, <2>3, OnMoves, EndMoves DEF Following
<1>3. CASE OfferInsert(p)
  <2> DEFINE r == [req[p] EXCEPT !.at = "offerApplication"]
  <2>1. r.at = "offerApplication" /\ r.subject = req[p].subject /\ req[p].at = "offerInsert"
    BY <1>3, <1>t, HiringLocals DEF OfferInsert, At
  <2>2. Goto(p, r) /\ UNCHANGED raced
    BY <1>3 DEF OfferInsert
  <2> HIDE DEF r
  <2> QED
    BY <2>1, <2>2, OnMoves DEF Following
<1>4. CASE OfferApplication(p) \/ RespondApplication(p) \/ VerifyApplication(p) \/ Sign(p)
  BY <1>4, EndMoves DEF OfferApplication, RespondApplication, VerifyApplication, SetApplication, Sign
<1>5. CASE RespondCheck(p)
  <2>1. PICK o, v : /\ Begins(p, "respond", offers[o].application)
                    /\ Goto(p, [at |-> "respond", subject |-> offers[o].application,
                                offer |-> o, answer |-> v])
    BY <1>5 DEF RespondCheck
  <2> QED
    BY <2>1, <1>s, StartMoves
<1>6. CASE SignCheck(p)
  <2>1. PICK o : /\ Begins(p, "sign", offers[o].application)
                 /\ Goto(p, [at |-> "sign", subject |-> offers[o].application, offer |-> o])
    BY <1>6 DEF SignCheck
  <2> QED
    BY <2>1, <1>s, StartMoves
<1>7. CASE VerifyCheck(p)
  <2>1. PICK o : /\ Begins(p, "verify", offers[o].application)
                 /\ Goto(p, [at |-> "verify", subject |-> offers[o].application, offer |-> o])
    BY <1>7 DEF VerifyCheck
  <2> QED
    BY <2>1, <1>s, StartMoves
<1>8. CASE Respond(p)
  <2> DEFINE r == [at |-> "respondApplication", subject |-> req[p].subject]
  <2>1. r.at = "respondApplication" /\ r.subject = req[p].subject /\ req[p].at = "respond"
    BY <1>8 DEF Respond, At
  <2>2. (Done(p) \/ Goto(p, r)) /\ UNCHANGED raced
    BY <1>8 DEF Respond, Done
  <2> HIDE DEF r
  <2> QED
    BY <2>1, <2>2, OnMoves, EndMoves DEF Following
<1>9. CASE Verify(p)
  <2> DEFINE r == [at |-> "verifyApplication", subject |-> req[p].subject]
  <2>1. r.at = "verifyApplication" /\ r.subject = req[p].subject /\ req[p].at = "verify"
    BY <1>9 DEF Verify, At
  <2>2. Goto(p, r) /\ UNCHANGED raced
    BY <1>9 DEF Verify
  <2> HIDE DEF r
  <2> QED
    BY <2>1, <2>2, OnMoves DEF Following
<1> QED
  BY <1>1, <1>2, <1>3, <1>4, <1>5, <1>6, <1>7, <1>8, <1>9
     DEF OfferStep, CreateOffer, RespondToOffer, UploadSignedDocument, VerifyOffer

-----------------------------------------------------------------------------
(***************************************************************************)
(* Two requests in flight about one subject are on record.                 *)
(***************************************************************************)

MeetingsRecorded ==
    \A p, q \in Request :
        (/\ p # q
         /\ req[p].at # "idle" /\ req[q].at # "idle"
         /\ req[p].subject = req[q].subject) => req[p].subject \in raced

LEMMA MeetingsKept ==
    ASSUME MeetingsRecorded, NEW p \in Request, Moves(p)
    PROVE  MeetingsRecorded' /\ raced \subseteq raced'
<1>1. CASE Starts(p)
  <2>1. \A q \in Request \ {p} :
           (req[q].at # "idle" /\ req[q].subject = req'[p].subject) => req'[p].subject \in raced'
    BY <1>1 DEF Starts, InFlightAbout, At
  <2>2. raced \subseteq raced'
    BY <1>1 DEF Starts
  <2> QED
    BY <2>1, <2>2 DEF Moves, MeetingsRecorded
<1>2. CASE GoesOn(p)
  <2>1. req[p].at # "idle" /\ UNCHANGED raced /\ req'[p].subject = req[p].subject
    BY <1>2 DEF GoesOn, Following
  <2> QED
    BY <2>1 DEF Moves, MeetingsRecorded
<1>3. CASE Ends(p)
  BY <1>3 DEF Ends, Idle, Moves, MeetingsRecorded
<1> QED
  BY <1>1, <1>2, <1>3 DEF Moves

-----------------------------------------------------------------------------
(***************************************************************************)
(* Facts about the steps the histories are carried through.                *)
(***************************************************************************)

StepOf(p) == PostingStep(p) \/ ApplicationStep(p) \/ OfferStep(p) \/ RequestFails(p)

\* Awaits of requests about an application.
AboutApp == {"withdraw", "offerCheckActive", "offerInsert", "offerApplication", "respond",
             "sign", "verify", "respondApplication", "verifyApplication"}

\* The state of the offer that the write of request x relies on.
Ready(x) ==
    /\ x.at = "respond" => (offers[x.offer].status = "pending" /\ ~offers[x.offer].lapsed)
    /\ x.at \in {"sign", "verify"} => offers[x.offer].status = "accepted"

\* What a request has seen when it starts.
StartSaw(x) ==
    \/ x.at \in {"verifyJob", "blockJob", "unblockJob"}
    \/ x.at = "applyInsert" /\ FindByUserAndJob(x.subject[1], x.subject[2]) = {}
    \/ /\ x.at = "withdraw" /\ x.subject \in Filed
       /\ apps[x.subject].status \in {"pending", "reviewing"}
    \/ x.at = "offerCheckActive" /\ x.subject \in Filed
    \/ /\ x.at \in Writing /\ x.offer \in Drafted /\ x.subject = offers[x.offer].application
       /\ Ready(x)

LEMMA StepMoves ==
    ASSUME HiringTypeOK, NEW p \in Request, StepOf(p)
    PROVE  Moves(p) \/ (UNCHANGED req /\ raced \subseteq raced')
<1>1. CASE RequestFails(p)
  BY <1>1, EndMoves DEF RequestFails
<1> QED
  BY <1>1, PostingMoves, ApplicationMoves, OfferMoves DEF StepOf

LEMMA StartFacts ==
    ASSUME HiringTypeOK, NEW p \in Request, StepOf(p), Starts(p)
    PROVE  StartSaw(req'[p]) /\ UNCHANGED <<jobs, apps, offers, fails>>
<1>i. req[p].at = "idle" /\ req'[p] # req[p]
  BY DEF Starts, Starting
<1>g. \A x : Goto(p, x) => req'[p] = x
  BY GotoFrame
<1>1. CASE PostingStep(p)
  <2>1. PICK j \in Job, l \in {"verifyJob", "blockJob", "unblockJob"} : Moderate(p, j, l)
    BY <1>1, <1>i DEF Posted, PostingStep, CreateJob, UpdateJob, UpdateJobStatus, AdminDeleteJob, VerifyJobCheck,
       BlockJobCheck, UnblockJobCheck, VerifyJob, UnblockJob, Reopen, BlockJob, At
  <2>2. req'[p] = [at |-> l, subject |-> j]
    BY <2>1, <1>g DEF Moderate
  <2>3. UNCHANGED <<jobs, apps, offers, fails>>
    BY <2>1 DEF Moderate
  <2> QED
    BY <2>2, <2>3 DEF StartSaw
<1>2. CASE ApplicationStep(p)
  <2>1. CASE ApplyCheck(p)
    <3>1. PICK c, j : /\ FindByUserAndJob(c, j) = {}
                      /\ req'[p] = [at |-> "applyInsert", subject |-> <<c, j>>]
      BY <2>1, <1>g DEF ApplyCheck
    <3> QED
      BY <2>1, <3>1 DEF ApplyCheck, StartSaw
  <2>2. CASE WithdrawCheck(p)
    <3>1. PICK a \in Filed : /\ apps[a].status \in {"pending", "reviewing"}
                             /\ req'[p] = [at |-> "withdraw", subject |-> a]
      BY <2>2, <1>g DEF WithdrawCheck
    <3> QED
      BY <2>2, <3>1 DEF WithdrawCheck, StartSaw
  <2> QED
    BY <1>2, <1>i, <2>1, <2>2 DEF ApplicationStep, ApplyForJob, WithdrawApplication,
       ApplyInsert, ApplyCount, Withdraw, UpdateApplicationStatus, At
<1>3. CASE OfferStep(p)
  <2>1. CASE OfferCheckStatus(p)
    <3>1. PICK a \in Filed : req'[p] = [at |-> "offerCheckActive", subject |-> a]
      BY <2>1, <1>g DEF OfferCheckStatus
    <3> QED
      BY <2>1, <3>1 DEF OfferCheckStatus, StartSaw
  <2>2. CASE RespondCheck(p)
    <3>1. PICK o \in Drafted, v \in {"accepted", "rejected"} :
             /\ offers[o].status = "pending" /\ ~offers[o].lapsed
             /\ req'[p] = [at |-> "respond", subject |-> offers[o].application,
                           offer |-> o, answer |-> v]
      BY <2>2, <1>g DEF RespondCheck
    <3> QED
      BY <2>2, <3>1 DEF RespondCheck, StartSaw, Writing, Ready
  <2>3. CASE SignCheck(p) \/ VerifyCheck(p)
    <3>1. PICK o \in Drafted, l \in {"sign", "verify"} :
             /\ offers[o].status = "accepted"
             /\ req'[p] = [at |-> l, subject |-> offers[o].application, offer |-> o]
      BY <2>3, <1>g DEF SignCheck, VerifyCheck
    <3>2. UNCHANGED <<jobs, apps, offers, fails>>
      BY <2>3 DEF SignCheck, VerifyCheck
    <3> QED
      BY <3>1, <3>2 DEF StartSaw, Writing, Ready
  <2> QED
    BY <1>3, <1>i, <2>1, <2>2, <2>3 DEF OfferStep, CreateOffer, RespondToOffer,
       UploadSignedDocument, VerifyOffer, OfferCheckActive, OfferInsert, OfferApplication,
       Respond, RespondApplication, Sign, Verify, VerifyApplication, At
<1>4. CASE RequestFails(p)
  BY <1>4, <1>i DEF RequestFails, At
<1> QED
  BY <1>1, <1>2, <1>3, <1>4 DEF StepOf

\* A request's last step, which answers on its application.
Answers(p) ==
    /\ Done(p)
    /\ \/ At(p, "offerApplication") /\ WriteStatus(req[p].subject, "offered")
       \/ At(p, "respondApplication") /\ WriteStatus(req[p].subject, "rejected")
       \/ At(p, "verifyApplication") /\ WriteStatus(req[p].subject, "hired")

\* The ways a step can change an application.
LEMMA AppsFate ==
    ASSUME NEW p \in Request, StepOf(p)
    PROVE  \/ UNCHANGED <<apps, asFiled>>
           \/ ApplyInsert(p)
           \/ Withdraw(p)
           \/ UpdateApplicationStatus(p)
           \/ Answers(p) /\ UNCHANGED offers
<1>1. CASE PostingStep(p)
  BY <1>1 DEF PostingStep, CreateJob, UpdateJob, StoreBody, UpdateJobStatus, AdminDeleteJob, VerifyJobCheck, Moderate,
     BlockJobCheck, UnblockJobCheck, VerifyJob, UnblockJob, Reopen, BlockJob, marks
<1>2. CASE ApplicationStep(p)
  BY <1>2 DEF ApplicationStep, ApplyForJob, WithdrawApplication, ApplyCheck, ApplyCount, WithdrawCheck, marks
<1>3. CASE OfferStep(p)
  BY <1>3 DEF OfferStep, CreateOffer, RespondToOffer, UploadSignedDocument, VerifyOffer,
     OfferCheckStatus, OfferCheckActive, OfferInsert, OfferApplication, RespondCheck, Respond,
     RespondApplication, SignCheck, Sign, VerifyCheck, Verify, VerifyApplication, SetApplication,
     Answers, marks
<1>4. CASE RequestFails(p)
  BY <1>4 DEF RequestFails, marks
<1> QED
  BY <1>1, <1>2, <1>3, <1>4 DEF StepOf

\* The ways a step can change an offer.
LEMMA OffersFate ==
    ASSUME NEW p \in Request, StepOf(p)
    PROVE  UNCHANGED offers \/ OfferInsert(p) \/ Respond(p) \/ Sign(p) \/ Verify(p)
<1>1. CASE PostingStep(p)
  BY <1>1 DEF PostingStep, CreateJob, UpdateJob, StoreBody, UpdateJobStatus, AdminDeleteJob, VerifyJobCheck, Moderate,
     BlockJobCheck, UnblockJobCheck, VerifyJob, UnblockJob, Reopen, BlockJob
<1>2. CASE ApplicationStep(p)
  BY <1>2 DEF ApplicationStep, ApplyForJob, WithdrawApplication, ApplyCheck, ApplyInsert,
     ApplyCount, WithdrawCheck, Withdraw, UpdateApplicationStatus
<1>3. CASE OfferStep(p)
  BY <1>3 DEF OfferStep, CreateOffer, RespondToOffer, UploadSignedDocument, VerifyOffer,
     OfferCheckStatus, OfferCheckActive, OfferApplication, RespondCheck,
     RespondApplication, SignCheck, VerifyCheck, VerifyApplication, SetApplication
<1>4. CASE RequestFails(p)
  BY <1>4 DEF RequestFails
<1> QED
  BY <1>1, <1>2, <1>3, <1>4 DEF StepOf

\* A status written to an application that exists.
LEMMA StatusWrites ==
    ASSUME HiringStoreTypeOK, NEW a \in Filed, NEW st, st # "none", WriteStatus(a, st)
    PROVE  /\ Filed' = Filed /\ asFiled' = asFiled \ {a}
           /\ apps'[a].status = st
           /\ \A b \in App : /\ apps'[b].applicant = apps[b].applicant
                             /\ apps'[b].job = apps[b].job
                             /\ b # a => apps'[b] = apps[b]
<1>1. apps \in [App -> AppDoc] /\ a \in App
  BY DEF HiringStoreTypeOK, Filed
<1>2. /\ apps'[a].status = st
      /\ \A b \in App : /\ apps'[b].applicant = apps[b].applicant
                        /\ apps'[b].job = apps[b].job
                        /\ b # a => apps'[b] = apps[b]
  BY <1>1 DEF WriteStatus, AppDoc
<1>3. Filed' = Filed /\ asFiled' = asFiled \ {a}
  BY <1>1, <1>2 DEF Filed, WriteStatus
<1> QED
  BY <1>2, <1>3

-----------------------------------------------------------------------------
(***************************************************************************)
(* The applications offers and requests name stay filed.                   *)
(***************************************************************************)

Standing ==
    /\ \A o \in Drafted : offers[o].application \in Filed
    /\ \A p \in Request : req[p].at \in AboutApp => req[p].subject \in Filed

\* A step changes the applicant and the job of no application, and files one
\* only by an insert.
LEMMA FiledFate ==
    ASSUME HiringStoreTypeOK, HiringAssumption, Standing, NEW p \in Request, StepOf(p),
           ~ApplyInsert(p)
    PROVE  /\ Filed' = Filed
           /\ \A b \in App : /\ apps'[b].applicant = apps[b].applicant
                             /\ apps'[b].job = apps[b].job
<1>1. CASE UNCHANGED apps
  BY <1>1 DEF Filed
<1>2. CASE Withdraw(p)
  <2>1. req[p].subject \in Filed
    BY <1>2 DEF Withdraw, At, Standing, AboutApp
  <2>2. WriteStatus(req[p].subject, "withdrawn")
    BY <1>2 DEF Withdraw
  <2> QED
    BY <2>1, <2>2, StatusWrites
<1>3. CASE UpdateApplicationStatus(p)
  <2>1. PICK a \in Filed, st \in Manual : WriteStatus(a, st)
    BY <1>3 DEF UpdateApplicationStatus
  <2>2. st # "none"
    BY DEF HiringAssumption
  <2> QED
    BY <2>1, <2>2, StatusWrites
<1>4. CASE Answers(p)
  <2>1. req[p].subject \in Filed
    BY <1>4 DEF Answers, At, Standing, AboutApp
  <2>2. PICK st \in {"offered", "rejected", "hired"} : WriteStatus(req[p].subject, st)
    BY <1>4 DEF Answers
  <2> QED
    BY <2>1, <2>2, StatusWrites
<1> QED
  BY <1>1, <1>2, <1>3, <1>4, AppsFate

\* What an insert files.
LEMMA InsertFiles ==
    ASSUME HiringTypeOK, HiringAssumption, NEW p \in Request, ApplyInsert(p)
    PROVE  \E a \in App \ Filed :
              /\ Filed' = Filed \cup {a}
              /\ apps'[a].applicant = req[p].subject[1]
              /\ apps'[a].job = req[p].subject[2]
              /\ apps'[a].status # "none" /\ asFiled' = asFiled \cup {a}
              /\ \A b \in App \ {a} : apps'[b] = apps[b]
<1>1. apps \in [App -> AppDoc]
  BY DEF HiringTypeOK, HiringStoreTypeOK
<1>2. PICK a \in App \ Filed, st \in FiledAs \cup {"pending"} :
         /\ apps' = [apps EXCEPT ![a] = [status |-> st, applicant |-> req[p].subject[1],
                                        job |-> req[p].subject[2]]]
         /\ asFiled' = asFiled \cup {a}
  BY DEF ApplyInsert
<1>5. st # "none"
  BY DEF HiringAssumption
<1>3. /\ apps'[a] = [status |-> st, applicant |-> req[p].subject[1],
                     job |-> req[p].subject[2]]
      /\ \A b \in App \ {a} : apps'[b] = apps[b]
  BY <1>1, <1>2
<1>4. Filed' = Filed \cup {a}
  BY <1>3, <1>5 DEF Filed
<1> QED
  BY <1>2, <1>3, <1>4, <1>5

LEMMA FiledGrows ==
    ASSUME HiringTypeOK, HiringAssumption, Standing, NEW p \in Request, StepOf(p)
    PROVE  Filed \subseteq Filed'
<1>t. HiringStoreTypeOK
  BY DEF HiringTypeOK
<1>1. CASE ApplyInsert(p)
  BY <1>1, InsertFiles
<1>2. CASE ~ApplyInsert(p)
  BY <1>2, <1>t, FiledFate
<1> QED
  BY <1>1, <1>2

\* The offer a step drafts, and the ones it writes.
LEMMA InsertDrafts ==
    ASSUME HiringTypeOK, NEW p \in Request, OfferInsert(p)
    PROVE  \E o \in Offer \ Drafted :
              /\ Drafted' = Drafted \cup {o}
              /\ offers'[o].application = req[p].subject
              /\ offers'[o].status = "pending"
              /\ \A u \in Offer \ {o} : offers'[u] = offers[u]
<1>1. offers \in [Offer -> OfferDoc]
  BY DEF HiringTypeOK, HiringStoreTypeOK
<1>2. PICK o \in Offer \ Drafted, lapsed \in BOOLEAN :
         offers' = [offers EXCEPT ![o] = [status |-> "pending", application |-> req[p].subject,
                                          signed |-> FALSE, lapsed |-> lapsed]]
  BY DEF OfferInsert
<1>3. /\ offers'[o].application = req[p].subject
      /\ offers'[o].status = "pending"
      /\ \A u \in Offer \ {o} : offers'[u] = offers[u]
  BY <1>1, <1>2
<1>4. Drafted' = Drafted \cup {o}
  BY <1>3 DEF Drafted
<1> QED
  BY <1>3, <1>4

LEMMA OfferWrites ==
    ASSUME HiringTypeOK, Aimed, NEW p \in Request, Respond(p) \/ Sign(p) \/ Verify(p)
    PROVE  LET o == req[p].offer
           IN  /\ o \in Drafted
               /\ Drafted' = Drafted
               /\ \A u \in Offer : /\ offers'[u].application = offers[u].application
                                   /\ offers[u].signed => offers'[u].signed
                                   /\ u # o => offers'[u] = offers[u]
               /\ Respond(p) => offers'[o].status = req[p].answer
               /\ Sign(p) => offers'[o].status = offers[o].status
               /\ Verify(p) => offers'[o].status = "verified"
<1> DEFINE o == req[p].offer
<1>1. offers \in [Offer -> OfferDoc] /\ req[p] \in HiringActivity
  BY DEF HiringTypeOK, HiringStoreTypeOK
<1>2. /\ req[p].at \in Writing /\ o \in Offer
      /\ Respond(p) => req[p].answer \in {"accepted", "rejected"}
  BY <1>1, HiringLocals DEF Respond, Sign, Verify, At, Writing
<1>3. offers[o].status # "none"
  BY <1>2 DEF Aimed
<1>4. CASE Respond(p)
  <2>1. offers' = [offers EXCEPT ![o].status = req[p].answer]
    BY <1>4 DEF Respond
  <2>2. \A u \in Offer : /\ offers'[u].application = offers[u].application
                         /\ offers'[u].signed = offers[u].signed
                         /\ u # o => offers'[u] = offers[u]
    BY <2>1, <1>1, <1>2 DEF OfferDoc
  <2>3. offers'[o].status = req[p].answer
    BY <2>1, <1>1, <1>2 DEF OfferDoc
  <2>4. Drafted' = Drafted
    BY <2>2, <2>3, <1>2, <1>3, <1>4 DEF Drafted
  <2> QED
    BY <1>2, <1>3, <1>4, <2>2, <2>3, <2>4 DEF Drafted, Respond, Sign, Verify, At
<1>5. CASE Sign(p)
  <2>1. offers' = [offers EXCEPT ![o].signed = TRUE]
    BY <1>5 DEF Sign
  <2>2. \A u \in Offer : /\ offers'[u].application = offers[u].application
                         /\ offers'[u].status = offers[u].status
                         /\ offers[u].signed => offers'[u].signed
                         /\ u # o => offers'[u] = offers[u]
    BY <2>1, <1>1, <1>2 DEF OfferDoc
  <2>4. Drafted' = Drafted
    BY <2>2 DEF Drafted
  <2> QED
    BY <1>2, <1>3, <1>5, <2>2, <2>4 DEF Drafted, Respond, Sign, Verify, At
<1>6. CASE Verify(p)
  <2>1. offers' = [offers EXCEPT ![o].status = "verified"]
    BY <1>6 DEF Verify
  <2>2. \A u \in Offer : /\ offers'[u].application = offers[u].application
                         /\ offers'[u].signed = offers[u].signed
                         /\ u # o => offers'[u] = offers[u]
    BY <2>1, <1>1, <1>2 DEF OfferDoc
  <2>3. offers'[o].status = "verified"
    BY <2>1, <1>1, <1>2 DEF OfferDoc
  <2>4. Drafted' = Drafted
    BY <2>2, <2>3, <1>2, <1>3 DEF Drafted
  <2> QED
    BY <1>2, <1>3, <1>6, <2>2, <2>3, <2>4 DEF Drafted, Respond, Sign, Verify, At
<1> QED
  BY <1>4, <1>5, <1>6

LEMMA StandingKept ==
    ASSUME HiringInv, HiringAssumption, Standing, NEW p \in Request, StepOf(p)
    PROVE  Standing'
<1>t. HiringTypeOK /\ Aimed
  BY DEF HiringInv
<1>f. Filed \subseteq Filed'
  BY <1>t, FiledGrows
<1>1. \A o \in Drafted' : offers'[o].application \in Filed'
  <2>1. CASE UNCHANGED offers
    BY <2>1, <1>f DEF Standing, Drafted
  <2>2. CASE OfferInsert(p)
    <3>1. req[p].subject \in Filed
      BY <2>2 DEF OfferInsert, At, Standing, AboutApp
    <3> QED
      BY <2>2, <3>1, <1>f, <1>t, InsertDrafts DEF Standing, Drafted
  <2>3. CASE Respond(p) \/ Sign(p) \/ Verify(p)
    <3>1. /\ Drafted' = Drafted
          /\ \A u \in Offer : offers'[u].application = offers[u].application
      BY <2>3, <1>t, OfferWrites
    <3> QED
      BY <3>1, <1>f DEF Standing, Drafted
  <2> QED
    BY <2>1, <2>2, <2>3, OffersFate
<1>2. \A q \in Request : req'[q].at \in AboutApp => req'[q].subject \in Filed'
  <2>1. CASE UNCHANGED req
    BY <2>1, <1>f DEF Standing
  <2>2. CASE Moves(p)
    <3>1. ASSUME req'[p].at \in AboutApp PROVE req'[p].subject \in Filed'
      <4>1. CASE Starts(p)
        BY <4>1, <3>1, <1>t, <1>f, StartFacts DEF StartSaw, AboutApp, Standing
      <4>2. CASE GoesOn(p)
        BY <4>2, <3>1, <1>f DEF GoesOn, Following, AboutApp, Standing
      <4>3. CASE Ends(p)
        BY <4>3, <3>1 DEF Ends, Idle, AboutApp
      <4> QED
        BY <2>2, <4>1, <4>2, <4>3 DEF Moves
    <3> QED
      BY <2>2, <3>1, <1>f DEF Moves, Standing
  <2> QED
    BY <2>1, <2>2, <1>t, StepMoves
<1> QED
  BY <1>1, <1>2 DEF Standing

-----------------------------------------------------------------------------
(***************************************************************************)
(* One application of a candidate to a job, unless two requests for it     *)
(* overlapped.                                                             *)
(***************************************************************************)

Unapplied(x) == \A a \in Filed : ~(apps[a].applicant = x[1] /\ apps[a].job = x[2])

ApplyInv ==
    /\ OneApplicationUnlessRaced
    /\ \A p \in Request :
          (req[p].at = "applyInsert" /\ req[p].subject \notin raced) => Unapplied(req[p].subject)

LEMMA ApplyKept ==
    ASSUME HiringTypeOK, HiringAssumption, Standing, MeetingsRecorded, ApplyInv,
           NEW p \in Request, StepOf(p)
    PROVE  ApplyInv'
<1>t. HiringStoreTypeOK /\ req[p] \in HiringActivity /\ raced \subseteq raced'
  BY StepMoves, MeetingsKept DEF HiringTypeOK
<1>1. CASE ApplyInsert(p)
  <2> DEFINE x == req[p].subject
  <2>1. x = <<x[1], x[2]>> /\ req[p].at = "applyInsert"
    BY <1>1, <1>t, HiringLocals DEF ApplyInsert, At
  <2>2. /\ UNCHANGED raced
        /\ req'[p].at # "applyInsert"
        /\ \A q \in Request \ {p} : req'[q] = req[q]
    <3>1. Goto(p, [req[p] EXCEPT !.at = "applyCount"])
      BY <1>1 DEF ApplyInsert
    <3>2. [req[p] EXCEPT !.at = "applyCount"].at = "applyCount"
      BY <2>1, <1>t, HiringLocals
    <3> QED
      BY <1>1, <3>1, <3>2, GotoFrame DEF ApplyInsert
  <2>3. PICK a \in App \ Filed :
              /\ Filed' = Filed \cup {a}
              /\ apps'[a].applicant = x[1]
              /\ apps'[a].job = x[2]
              /\ \A b \in App \ {a} : apps'[b] = apps[b]
    BY <1>1, InsertFiles
  <2>4. Filed \subseteq App \ {a}
    BY DEF Filed
  <2>5. x \notin raced => Unapplied(x)
    BY <2>1 DEF ApplyInv
  <2>6. OneApplicationUnlessRaced'
    <3> SUFFICES ASSUME NEW b \in Filed', NEW d \in Filed', b # d,
                        apps'[b].applicant = apps'[d].applicant, apps'[b].job = apps'[d].job
                 PROVE  <<apps'[b].applicant, apps'[b].job>> \in raced
      BY <2>2 DEF OneApplicationUnlessRaced
    <3>1. CASE b = a \/ d = a
      <4>1. PICK e \in Filed : apps[e].applicant = x[1] /\ apps[e].job = x[2]
        BY <3>1, <2>3, <2>4
      <4>2. x \in raced
        BY <4>1, <2>5 DEF Unapplied
      <4>3. apps'[b].applicant = x[1] /\ apps'[b].job = x[2]
        BY <3>1, <2>3
      <4> QED
        BY <4>2, <4>3, <2>1
    <3>2. CASE b # a /\ d # a
      BY <3>2, <2>3, <2>4 DEF ApplyInv, OneApplicationUnlessRaced
    <3> QED
      BY <3>1, <3>2
  <2>7. ASSUME NEW q \in Request, req'[q].at = "applyInsert", req'[q].subject \notin raced'
        PROVE  Unapplied(req[q].subject)'
    <3>1. q # p /\ req'[q] = req[q]
      BY <2>2, <2>7
    <3>2. Unapplied(req[q].subject)
      BY <2>2, <2>7, <3>1 DEF ApplyInv
    <3>3. req[q].subject # x
      BY <2>1, <2>2, <2>7, <3>1 DEF MeetingsRecorded
    <3>4. req[q].subject = <<req[q].subject[1], req[q].subject[2]>>
      BY <2>7, <3>1, HiringLocals DEF HiringTypeOK
    <3>5. ~(req[q].subject[1] = x[1] /\ req[q].subject[2] = x[2])
      BY <3>3, <3>4, <2>1
    <3> HIDE DEF x
    <3> QED
      BY <3>1, <3>2, <3>5, <2>3, <2>4 DEF Unapplied
  <2> QED
    BY <2>6, <2>7 DEF ApplyInv
<1>2. CASE ~ApplyInsert(p)
  <2>1. /\ Filed' = Filed
        /\ \A b \in Filed : /\ apps'[b].applicant = apps[b].applicant
                            /\ apps'[b].job = apps[b].job
    BY <1>2, <1>t, FiledFate DEF Filed
  <2>2. OneApplicationUnlessRaced'
    BY <2>1, <1>t DEF ApplyInv, OneApplicationUnlessRaced
  <2>3. \A x : Unapplied(x) => Unapplied(x)'
    BY <2>1 DEF Unapplied
  <2>4. ASSUME NEW q \in Request, req'[q].at = "applyInsert", req'[q].subject \notin raced'
        PROVE  Unapplied(req'[q].subject)
    <3>1. CASE req'[q] = req[q]
      BY <3>1, <2>4, <1>t DEF ApplyInv
    <3>2. CASE req'[q] # req[q]
      <4>1. q = p /\ Starts(p)
        BY <3>2, <2>4, StepMoves DEF Moves, GoesOn, Following, Ends, Idle
      <4>2. StartSaw(req'[q])
        BY <4>1, StartFacts
      <4> QED
        BY <4>2, <2>4 DEF StartSaw, Writing, Unapplied, FindByUserAndJob
    <3> QED
      BY <3>1, <3>2
  <2> QED
    BY <2>2, <2>3, <2>4 DEF ApplyInv
<1> QED
  BY <1>1, <1>2

-----------------------------------------------------------------------------
(***************************************************************************)
(* An application is withdrawn in time, unless requests about it           *)
(* overlapped.                                                             *)
(***************************************************************************)

Early(a) == apps[a].status \in {"pending", "reviewing"}

WithdrawInv ==
    \A p \in Request :
        (req[p].at = "withdraw" /\ req[p].subject \notin raced) => Early(req[p].subject)

\* A step that writes an application which another request is about is on
\* record.
LEMMA OthersWrite ==
    ASSUME HiringInv, HiringAssumption, Standing, MeetingsRecorded,
           NEW p \in Request, NEW q \in Request, StepOf(p),
           req'[q] = req[q], req[q].at \in AboutApp, req[q].subject \notin raced'
    PROVE  apps'[req[q].subject] = apps[req[q].subject]
<1> DEFINE a == req[q].subject
<1>t. HiringTypeOK /\ HiringStoreTypeOK /\ raced \subseteq raced'
  BY StepMoves, MeetingsKept DEF HiringInv, HiringTypeOK
<1>a. a \in Filed /\ a \in App
  BY DEF Standing, Filed
<1>1. CASE ApplyInsert(p)
  BY <1>1, <1>t, <1>a, InsertFiles
<1>2. CASE Withdraw(p) \/ Answers(p)
  <2>1. /\ req[p].at \in AboutApp /\ req'[p] = Idle
        /\ \E st \in {"withdrawn", "offered", "rejected", "hired"} :
              WriteStatus(req[p].subject, st)
    <3>1. CASE Withdraw(p)
      BY <3>1, <1>t, GotoFrame DEF Withdraw, At, AboutApp, Done
    <3>2. CASE Answers(p)
      BY <3>2, <1>t, GotoFrame DEF Answers, At, AboutApp, Done
    <3> QED
      BY <1>2, <3>1, <3>2
  <2>2. q # p
    BY <2>1 DEF Idle, AboutApp
  <2>3. req[p].subject # a
    BY <2>1, <2>2, <1>t DEF MeetingsRecorded, AboutApp
  <2>4. req[p].subject \in Filed
    BY <2>1 DEF Standing
  <2> QED
    BY <2>1, <2>3, <2>4, <1>t, <1>a, StatusWrites
<1>3. CASE UpdateApplicationStatus(p)
  <2>1. PICK b \in Filed, st \in Manual : Begins(p, "review", b) /\ WriteStatus(b, st)
    BY <1>3 DEF UpdateApplicationStatus
  <2>2. st # "none"
    BY DEF HiringAssumption
  <2>3. b # a
    BY <2>1, <1>t DEF Begins, InFlightAbout, At, AboutApp
  <2> QED
    BY <2>1, <2>2, <2>3, <1>t, <1>a, StatusWrites
<1> QED
  BY <1>1, <1>2, <1>3, AppsFate

LEMMA WithdrawKept ==
    ASSUME HiringInv, HiringAssumption, Standing, MeetingsRecorded, WithdrawInv,
           NEW p \in Request, StepOf(p)
    PROVE  WithdrawInv'
<1>t. HiringTypeOK /\ raced \subseteq raced'
  BY StepMoves, MeetingsKept DEF HiringInv
<1> SUFFICES ASSUME NEW q \in Request, req'[q].at = "withdraw", req'[q].subject \notin raced'
             PROVE  apps'[req'[q].subject].status \in {"pending", "reviewing"}
  BY DEF WithdrawInv, Early
<1>1. CASE req'[q] = req[q]
  <2>1. req[q].at \in AboutApp /\ Early(req[q].subject)
    BY <1>1, <1>t DEF AboutApp, WithdrawInv
  <2> QED
    BY <1>1, <2>1, OthersWrite DEF Early
<1>2. CASE req'[q] # req[q]
  <2>1. q = p /\ Starts(p)
    BY <1>2, <1>t, StepMoves DEF Moves, GoesOn, Following, Ends, Idle
  <2> QED
    BY <2>1, <1>t, StartFacts DEF StartSaw, Writing
<1> QED
  BY <1>1, <1>2

\* The step the property is about: only a withdrawal withdraws.
LEMMA WithdrawStep ==
    ASSUME HiringInv, HiringAssumption, Standing, WithdrawInv, "withdrawn" \notin Manual,
           NEW p \in Request, StepOf(p), NEW a \in Filed \ raced,
           apps'[a].status = "withdrawn", apps[a].status # "withdrawn"
    PROVE  Early(a)
<1>t. HiringTypeOK /\ HiringStoreTypeOK /\ a \in App
  BY DEF HiringInv, HiringTypeOK, Filed
<1>1. CASE ApplyInsert(p)
  BY <1>1, <1>t, InsertFiles
<1>2. CASE Withdraw(p)
  <2>1. req[p].subject \in Filed /\ req[p].at = "withdraw"
    BY <1>2 DEF Withdraw, At, Standing, AboutApp
  <2>2. WriteStatus(req[p].subject, "withdrawn")
    BY <1>2 DEF Withdraw
  <2>3. req[p].subject = a
    BY <2>1, <2>2, <1>t, StatusWrites
  <2> QED
    BY <2>1, <2>3 DEF WithdrawInv
<1>3. CASE UpdateApplicationStatus(p)
  <2>1. PICK b \in Filed, st \in Manual : WriteStatus(b, st)
    BY <1>3 DEF UpdateApplicationStatus
  <2>2. st # "none" /\ st # "withdrawn"
    BY DEF HiringAssumption
  <2> QED
    BY <2>1, <2>2, <1>t, StatusWrites
<1>4. CASE Answers(p)
  <2>1. req[p].subject \in Filed
    BY <1>4 DEF Answers, At, Standing, AboutApp
  <2>2. PICK st \in {"offered", "rejected", "hired"} : WriteStatus(req[p].subject, st)
    BY <1>4 DEF Answers
  <2> QED
    BY <2>1, <2>2, <1>t, StatusWrites
<1> QED
  BY <1>1, <1>2, <1>3, <1>4, AppsFate

-----------------------------------------------------------------------------
(***************************************************************************)
(* One active offer per application, unless requests about it overlapped.  *)
(***************************************************************************)

AimsAt(p) ==
    req[p].at \in Writing =>
        /\ offers[req[p].offer].application = req[p].subject
        /\ req[p].subject \notin raced => Ready(req[p])

Unoffered(a) == \A o \in Offer : offers[o].application = a => ~Active(o)

Unsigned(o) ==
    (offers[o].status = "pending" /\ offers[o].application \notin raced) => ~offers[o].signed

ActiveInv ==
    /\ OneActiveOfferUnlessRaced
    /\ \A o \in Offer : Unsigned(o)
    /\ \A p \in Request : AimsAt(p)
    /\ \A p \in Request :
          (req[p].at = "offerInsert" /\ req[p].subject \notin raced) => Unoffered(req[p].subject)

\* Only an insert of an offer, and an overlap on record, make an offer active.
LEMMA ActiveFate ==
    ASSUME HiringInv, ActiveInv, NEW p \in Request, StepOf(p), ~OfferInsert(p), NEW o \in Offer
    PROVE  /\ offers'[o].application = offers[o].application
           /\ (Active(o)' /\ offers[o].application \notin raced') => Active(o)
<1>t. HiringTypeOK /\ Aimed
  BY DEF HiringInv
<1>1. CASE UNCHANGED offers
  BY <1>1 DEF Active
<1>2. CASE Respond(p) \/ Sign(p) \/ Verify(p)
  <2> DEFINE u == req[p].offer
  <2>1. /\ \A v \in Offer : /\ offers'[v].application = offers[v].application
                            /\ v # u => offers'[v] = offers[v]
        /\ Sign(p) => offers'[u].status = offers[u].status
        /\ Verify(p) => offers'[u].status = "verified"
    BY <1>2, <1>t, OfferWrites
  <2>2. CASE o # u
    BY <2>1, <2>2 DEF Active
  <2>3. CASE o = u /\ Respond(p)
    <3>1. UNCHANGED raced /\ req[p].at = "respond"
      BY <2>3 DEF Respond, At
    <3>2. AimsAt(p)
      BY DEF ActiveInv
    <3> QED
      BY <2>1, <2>3, <3>1, <3>2 DEF AimsAt, Writing, Active, Ready
  <2>4. CASE o = u /\ (Sign(p) \/ Verify(p))
    BY <2>1, <2>4 DEF Active
  <2> QED
    BY <1>2, <2>2, <2>3, <2>4
<1> QED
  BY <1>1, <1>2, OffersFate

\* Nobody but p writes an offer that another request aims at, unless the
\* overlap is on record.
LEMMA AimKept ==
    ASSUME HiringInv, ActiveInv, MeetingsRecorded, NEW p \in Request, StepOf(p),
           NEW q \in Request, req'[q] = req[q]
    PROVE  AimsAt(q)'
<1>t. HiringTypeOK /\ Aimed /\ raced \subseteq raced'
  BY StepMoves, MeetingsKept DEF HiringInv
<1> SUFFICES ASSUME req[q].at \in Writing
             PROVE  /\ offers'[req[q].offer].application = req[q].subject
                    /\ req[q].subject \notin raced' => Ready(req[q])'
  BY DEF AimsAt
<1>1. AimsAt(q)
  BY DEF ActiveInv
<1>2. req[q].offer \in Drafted
  BY <1>t, HiringLocals DEF HiringTypeOK, Aimed, Drafted, Writing
<1> SUFFICES ASSUME TRUE
             PROVE  /\ offers'[req[q].offer].application = req[q].subject
                    /\ req[q].subject \notin raced' =>
                          offers'[req[q].offer] = offers[req[q].offer]
  BY <1>1, <1>t DEF AimsAt, Ready
<1>3. CASE UNCHANGED offers
  BY <1>3, <1>1, <1>t DEF AimsAt
<1>4. CASE OfferInsert(p)
  BY <1>4, <1>1, <1>2, <1>t, InsertDrafts DEF AimsAt, Drafted
<1>5. CASE Respond(p) \/ Sign(p) \/ Verify(p)
  <2> DEFINE u == req[p].offer
  <2>1. /\ \A v \in Offer : /\ offers'[v].application = offers[v].application
                            /\ v # u => offers'[v] = offers[v]
        /\ req[p].at \in Writing
    BY <1>5, <1>t, OfferWrites DEF Respond, Sign, Verify, At, Writing
  <2>2. offers'[req[q].offer].application = req[q].subject
    BY <1>1, <1>2, <2>1 DEF AimsAt, Drafted
  <2>3. ASSUME req[q].subject \notin raced'
        PROVE  req[q].offer # u
    <3>1. q # p
      <4>1. req'[p].at \notin Writing
        BY <1>5, <1>t, GotoFrame DEF Respond, Sign, Verify, Done, Idle, Writing
      <4> QED
        BY <4>1
    <3>2. AimsAt(p)
      BY DEF ActiveInv
    <3>3. req[q].subject # req[p].subject
      BY <2>1, <2>3, <3>1, <1>t DEF MeetingsRecorded, Writing
    <3> QED
      BY <3>2, <3>3, <2>1, <1>1 DEF AimsAt
  <2> QED
    BY <1>2, <2>1, <2>2, <2>3 DEF Drafted
<1> QED
  BY <1>3, <1>4, <1>5, OffersFate

\* A pending offer is signed only if an upload for it overlapped its answer.
LEMMA UnsignedKept ==
    ASSUME HiringInv, ActiveInv, NEW p \in Request, StepOf(p), raced \subseteq raced'
    PROVE  \A o \in Offer : Unsigned(o)'
<1>t. HiringTypeOK /\ Aimed
  BY DEF HiringInv
<1> SUFFICES ASSUME NEW o \in Offer, offers'[o].status = "pending",
                    offers'[o].application \notin raced'
             PROVE  ~offers'[o].signed
  BY DEF Unsigned
<1>1. CASE offers'[o] = offers[o]
  BY <1>1 DEF ActiveInv, Unsigned
<1>2. CASE OfferInsert(p)
  <2>1. offers'[o] = offers[o] \/ offers'[o].signed = FALSE
    BY <1>2 DEF OfferInsert, HiringTypeOK, HiringInv, HiringStoreTypeOK
  <2> QED
    BY <1>1, <2>1
<1>3. CASE Respond(p) \/ Sign(p) \/ Verify(p)
  <2> DEFINE u == req[p].offer
  <2>1. /\ \A v \in Offer : /\ offers'[v].application = offers[v].application
                            /\ v # u => offers'[v] = offers[v]
        /\ Respond(p) => offers'[u].status = req[p].answer
        /\ Sign(p) => offers'[u].status = offers[u].status
        /\ Verify(p) => offers'[u].status = "verified"
    BY <1>3, <1>t, OfferWrites
  <2>2. /\ Respond(p) => req[p].answer \in {"accepted", "rejected"}
        /\ Sign(p) => req[p].at = "sign"
    BY <1>t, HiringLocals DEF HiringTypeOK, Respond, Sign, At
  <2>3. CASE o # u
    BY <2>1, <2>3, <1>1
  <2>4. CASE o = u /\ Sign(p)
    <3>1. AimsAt(p)
      BY DEF ActiveInv
    <3> QED
      BY <2>1, <2>2, <2>4, <3>1 DEF AimsAt, Writing, Ready
  <2>5. CASE o = u /\ (Respond(p) \/ Verify(p))
    BY <2>1, <2>2, <2>5
  <2> QED
    BY <1>3, <2>3, <2>4, <2>5
<1> QED
  BY <1>1, <1>2, <1>3, OffersFate

\* Only its own look-up takes a request on from offerCheckActive.
LEMMA CheckedActive ==
    ASSUME HiringTypeOK, NEW p \in Request, StepOf(p),
           req[p].at = "offerCheckActive", req'[p].at = "offerInsert"
    PROVE  OfferCheckActive(p)
<1>1. ~PostingStep(p)
  BY DEF PostingStep, CreateJob, UpdateJob, StoreBody, UpdateJobStatus, AdminDeleteJob, VerifyJobCheck, Moderate,
     BlockJobCheck, UnblockJobCheck, VerifyJob, UnblockJob, Reopen, BlockJob, Begins, At
<1>2. ~ApplicationStep(p)
  BY DEF ApplicationStep, ApplyForJob, WithdrawApplication, ApplyCheck, ApplyInsert, ApplyCount,
     WithdrawCheck, Withdraw, UpdateApplicationStatus, Begins, At
<1>3. OfferStep(p) => OfferCheckActive(p)
  BY DEF OfferStep, CreateOffer, RespondToOffer, UploadSignedDocument, VerifyOffer,
     OfferCheckStatus, OfferInsert, OfferApplication, RespondCheck, Respond,
     RespondApplication, SignCheck, Sign, VerifyCheck, Verify, VerifyApplication, Begins, At
<1>4. RequestFails(p) => OfferCheckActive(p)
  BY GotoFrame DEF RequestFails, Done, Idle
<1> QED
  BY <1>1, <1>2, <1>3, <1>4 DEF StepOf

LEMMA ActiveKept ==
    ASSUME HiringInv, ActiveInv, MeetingsRecorded, NEW p \in Request, StepOf(p)
    PROVE  ActiveInv'
<1>t. HiringTypeOK /\ raced \subseteq raced' /\ req[p] \in HiringActivity
  BY StepMoves, MeetingsKept DEF HiringInv, HiringTypeOK
<1>1. ASSUME NEW q \in Request PROVE AimsAt(q)'
  <2>1. CASE req'[q] = req[q]
    BY <2>1, AimKept
  <2>2. CASE req'[q] # req[q] /\ req'[q].at \in Writing
    <3>1. q = p /\ Starts(p)
      BY <2>2, <1>t, StepMoves DEF Moves, GoesOn, Following, Ends, Idle, Writing
    <3>2. StartSaw(req'[p]) /\ UNCHANGED offers
      BY <3>1, <1>t, StartFacts
    <3> QED
      BY <3>1, <3>2, <2>2 DEF StartSaw, AimsAt, Writing, Ready
  <2>3. CASE req'[q].at \notin Writing
    BY <2>3 DEF AimsAt, Writing
  <2> QED
    BY <2>1, <2>2, <2>3
<1>u. \A o \in Offer : Unsigned(o)'
  BY <1>t, UnsignedKept
<1>2. CASE OfferInsert(p)
  <2> DEFINE x == req[p].subject
  <2>1. /\ UNCHANGED raced
        /\ req[p].at = "offerInsert"
        /\ req'[p].at # "offerInsert"
        /\ \A q \in Request \ {p} : req'[q] = req[q]
    <3>1. Goto(p, [req[p] EXCEPT !.at = "offerApplication"])
      BY <1>2 DEF OfferInsert
    <3>2. req[p].at = "offerInsert"
      BY <1>2 DEF OfferInsert, At
    <3>3. [req[p] EXCEPT !.at = "offerApplication"].at = "offerApplication"
      BY <3>2, <1>t, HiringLocals
    <3> QED
      BY <1>2, <3>1, <3>2, <3>3, <1>t, GotoFrame DEF OfferInsert
  <2>2. PICK o \in Offer \ Drafted :
              /\ offers'[o].application = x
              /\ \A u \in Offer \ {o} : offers'[u] = offers[u]
    BY <1>2, <1>t, InsertDrafts
  <2>3. x \notin raced => Unoffered(x)
    BY <2>1 DEF ActiveInv
  <2>4. OneActiveOfferUnlessRaced'
    <3> SUFFICES ASSUME NEW u \in Offer, NEW v \in Offer, u # v, Active(u)', Active(v)',
                        offers'[u].application = offers'[v].application
                 PROVE  offers'[u].application \in raced
      BY <2>1 DEF OneActiveOfferUnlessRaced
    <3>1. CASE u = o
      BY <3>1, <2>2, <2>3 DEF Unoffered, Active
    <3>2. CASE v = o
      BY <3>2, <2>2, <2>3 DEF Unoffered, Active
    <3>3. CASE u # o /\ v # o
      BY <3>3, <2>2 DEF ActiveInv, OneActiveOfferUnlessRaced, Active
    <3> QED
      BY <3>1, <3>2, <3>3
  <2>5. ASSUME NEW q \in Request, req'[q].at = "offerInsert", req'[q].subject \notin raced'
        PROVE  Unoffered(req[q].subject)' /\ req'[q] = req[q]
    <3>1. q # p /\ req'[q] = req[q]
      BY <2>1, <2>5
    <3>2. Unoffered(req[q].subject) /\ req[q].subject # x
      BY <3>1, <2>1, <2>5 DEF ActiveInv, MeetingsRecorded
    <3> HIDE DEF x
    <3> QED
      BY <3>1, <3>2, <2>2 DEF Unoffered, Active
  <2> QED
    BY <1>1, <1>u, <2>4, <2>5 DEF ActiveInv
<1>3. CASE ~OfferInsert(p)
  <2>1. OneActiveOfferUnlessRaced'
    <3> SUFFICES ASSUME NEW u \in Offer, NEW v \in Offer, u # v, Active(u)', Active(v)',
                        offers'[u].application = offers'[v].application,
                        offers'[u].application \notin raced'
                 PROVE  FALSE
      BY DEF OneActiveOfferUnlessRaced
    <3>1. Active(u) /\ Active(v) /\ offers[u].application = offers[v].application
      BY <1>3, ActiveFate
    <3>2. offers[u].application \notin raced
      BY <1>3, <1>t, ActiveFate
    <3> QED
      BY <3>1, <3>2 DEF ActiveInv, OneActiveOfferUnlessRaced
  <2>2. ASSUME NEW x, x \notin raced', Unoffered(x)
        PROVE  Unoffered(x)'
    BY <2>2, <1>3, ActiveFate DEF Unoffered
  <2>3. ASSUME NEW q \in Request, req'[q].at = "offerInsert", req'[q].subject \notin raced'
        PROVE  Unoffered(req'[q].subject)
    <3>1. CASE req'[q] = req[q]
      BY <3>1, <2>3, <1>t DEF ActiveInv
    <3>2. CASE req'[q] # req[q]
      <4>1. q = p /\ GoesOn(p) /\ req[p].at = "offerCheckActive"
        BY <3>2, <2>3, <1>t, StepMoves DEF Moves, Starts, Starting, GoesOn, Following, Ends, Idle
      <4>2. OfferCheckActive(p)
        BY <4>1, <2>3, <1>t, CheckedActive
      <4>3. req'[p] = Idle \/ ~HasActiveOffer(req[p].subject)
        BY <4>2, <1>t, GotoFrame DEF OfferCheckActive
      <4>4. ~HasActiveOffer(req[p].subject) /\ req'[p].subject = req[p].subject
        BY <4>1, <4>3, <2>3 DEF Idle, GoesOn
      <4> QED
        BY <4>1, <4>4 DEF HasActiveOffer, Unoffered
    <3> QED
      BY <3>1, <3>2
  <2> QED
    BY <1>1, <1>u, <2>1, <2>2, <2>3 DEF ActiveInv
<1> QED
  BY <1>2, <1>3

-----------------------------------------------------------------------------
(***************************************************************************)
(* A hired application rests on a signed offer.                            *)
(***************************************************************************)

Backed(a) ==
    \E o \in Offer :
        /\ offers[o].application = a
        /\ offers[o].signed
        /\ offers[o].status # "none"
        /\ offers[o].status = "verified" \/ a \in raced

HiredInv ==
    /\ \A a \in App \ asFiled :
          (apps[a].status = "hired" /\ "hired" \notin Manual) => Backed(a)
    /\ \A p \in Request : req[p].at = "verifyApplication" => Backed(req[p].subject)

LEMMA BackedKept ==
    ASSUME HiringInv, ActiveInv, NEW p \in Request, StepOf(p), NEW a, Backed(a),
           raced \subseteq raced'
    PROVE  Backed(a)'
<1>t. HiringTypeOK /\ Aimed
  BY DEF HiringInv
<1>1. PICK o \in Offer : /\ offers[o].application = a
                         /\ offers[o].signed
                         /\ offers[o].status # "none"
                         /\ offers[o].status = "verified" \/ a \in raced
  BY DEF Backed
<1>2. o \in Drafted
  BY <1>1 DEF Drafted
<1>3. CASE UNCHANGED offers
  BY <1>1, <1>3 DEF Backed
<1>4. CASE OfferInsert(p)
  BY <1>1, <1>2, <1>4, <1>t, InsertDrafts DEF Backed
<1>5. CASE Respond(p) \/ Sign(p) \/ Verify(p)
  <2> DEFINE u == req[p].offer
  <2>1. /\ Drafted' = Drafted
        /\ \A v \in Offer : /\ offers'[v].application = offers[v].application
                            /\ offers[v].signed => offers'[v].signed
                            /\ v # u => offers'[v] = offers[v]
        /\ Sign(p) => offers'[u].status = offers[u].status
        /\ Verify(p) => offers'[u].status = "verified"
    BY <1>5, <1>t, OfferWrites
  <2>2. offers'[o].application = a /\ offers'[o].signed /\ offers'[o].status # "none"
    BY <2>1, <1>1, <1>2 DEF Drafted
  <2>3. offers'[o].status = "verified" \/ a \in raced'
    <3>1. CASE o = u /\ Respond(p)
      <4>1. AimsAt(p) /\ req[p].at = "respond"
        BY <3>1 DEF ActiveInv, Respond, At
      <4> QED
        BY <4>1, <3>1, <1>1 DEF AimsAt, Writing, Ready
    <3>2. CASE o # u \/ Sign(p) \/ Verify(p)
      BY <3>2, <2>1, <1>1
    <3> QED
      BY <3>1, <3>2, <1>5
  <2> QED
    BY <2>2, <2>3 DEF Backed
<1> QED
  BY <1>3, <1>4, <1>5, OffersFate

LEMMA VerifyGoesOn ==
    ASSUME HiringTypeOK, NEW p \in Request, StepOf(p), req[p].at = "verify",
           req'[p].at = "verifyApplication"
    PROVE  Verify(p)
<1>1. ~PostingStep(p)
  BY DEF PostingStep, CreateJob, UpdateJob, StoreBody, UpdateJobStatus, AdminDeleteJob, VerifyJobCheck, Moderate,
     BlockJobCheck, UnblockJobCheck, VerifyJob, UnblockJob, Reopen, BlockJob, Begins, At
<1>2. ~ApplicationStep(p)
  BY DEF ApplicationStep, ApplyForJob, WithdrawApplication, ApplyCheck, ApplyInsert, ApplyCount,
     WithdrawCheck, Withdraw, UpdateApplicationStatus, Begins, At
<1>3. OfferStep(p) => Verify(p)
  BY DEF OfferStep, CreateOffer, RespondToOffer, UploadSignedDocument, VerifyOffer,
     OfferCheckStatus, OfferCheckActive, OfferInsert, OfferApplication, RespondCheck, Respond,
     RespondApplication, SignCheck, Sign, VerifyCheck, VerifyApplication, Begins, At
<1>4. ~RequestFails(p)
  BY GotoFrame DEF RequestFails, Done, Idle
<1> QED
  BY <1>1, <1>2, <1>3, <1>4 DEF StepOf

LEMMA HiredKept ==
    ASSUME HiringInv, HiringAssumption, Standing, MeetingsRecorded, ActiveInv, HiredInv,
           NEW p \in Request, StepOf(p)
    PROVE  HiredInv'
<1>t. HiringTypeOK /\ HiringStoreTypeOK /\ raced \subseteq raced' /\ VerifiedMeansSigned
  BY StepMoves, MeetingsKept DEF HiringInv, HiringTypeOK
<1>1. ASSUME NEW a \in App, a \notin asFiled', apps'[a].status = "hired", "hired" \notin Manual
      PROVE  Backed(a)
  <2>1. CASE apps'[a] = apps[a] /\ a \notin asFiled
    BY <2>1, <1>1 DEF HiredInv
  <2>6. CASE UNCHANGED <<apps, asFiled>>
    BY <2>1, <2>6, <1>1
  <2>2. CASE ApplyInsert(p)
    BY <2>1, <2>2, <1>1, <1>t, InsertFiles
  <2>3. CASE Withdraw(p)
    <3>1. req[p].subject \in Filed /\ WriteStatus(req[p].subject, "withdrawn")
      BY <2>3 DEF Withdraw, At, Standing, AboutApp
    <3> QED
      BY <2>1, <3>1, <1>1, <1>t, StatusWrites
  <2>4. CASE UpdateApplicationStatus(p)
    <3>1. PICK b \in Filed, st \in Manual : WriteStatus(b, st)
      BY <2>4 DEF UpdateApplicationStatus
    <3>2. st # "none" /\ st # "hired"
      BY <1>1 DEF HiringAssumption
    <3> QED
      BY <2>1, <3>1, <3>2, <1>1, <1>t, StatusWrites
  <2>5. CASE Answers(p)
    <3>1. req[p].subject \in Filed
      BY <2>5 DEF Answers, At, Standing, AboutApp
    <3>2. PICK st \in {"offered", "rejected", "hired"} :
             /\ WriteStatus(req[p].subject, st)
             /\ st = "hired" => req[p].at = "verifyApplication"
      BY <2>5 DEF Answers, At
    <3>3. CASE req[p].subject = a
      <4>1. st = "hired"
        BY <3>1, <3>2, <3>3, <1>1, <1>t, StatusWrites
      <4> QED
        BY <3>2, <3>3, <4>1 DEF HiredInv
    <3>4. CASE req[p].subject # a
      BY <2>1, <3>1, <3>2, <3>4, <1>1, <1>t, StatusWrites
    <3> QED
      BY <3>3, <3>4
  <2> QED
    BY <2>2, <2>3, <2>4, <2>5, <2>6, AppsFate
<1>2. ASSUME NEW q \in Request, req'[q].at = "verifyApplication"
      PROVE  \E o \in Offer :
                /\ offers'[o].application = req'[q].subject
                /\ offers'[o].signed
                /\ offers'[o].status # "none"
                /\ offers'[o].status = "verified" \/ req'[q].subject \in raced'
  <2>1. CASE req'[q] = req[q]
    <3>1. Backed(req[q].subject)'
      BY <2>1, <1>2, <1>t, BackedKept DEF HiredInv
    <3> QED
      BY <2>1, <3>1 DEF Backed
  <2>2. CASE req'[q] # req[q]
    <3>1. q = p /\ GoesOn(p) /\ req[p].at = "verify"
      BY <2>2, <1>2, <1>t, StepMoves DEF Moves, Starts, Starting, GoesOn, Following, Ends, Idle
    <3>2. Verify(p)
      BY <3>1, <1>2, <1>t, VerifyGoesOn
    <3>3. req[p].offer \in Drafted /\ offers[req[p].offer].signed
      BY <3>1, <3>2, <1>t, OfferWrites DEF VerifiedMeansSigned, At, HiringInv
    <3>4. /\ offers'[req[p].offer].application = req[p].subject
          /\ offers'[req[p].offer].signed
          /\ offers'[req[p].offer].status = "verified"
      BY <3>1, <3>2, <3>3, <1>t, OfferWrites
         DEF HiringInv, ActiveInv, AimsAt, Writing, Drafted
    <3> QED
      BY <3>1, <3>3, <3>4 DEF GoesOn, Drafted
  <2> QED
    BY <2>1, <2>2
<1>3. \A a : Backed(a) => Backed(a)'
  BY <1>t, BackedKept
<1> QED
  BY <1>1, <1>2, <1>3 DEF HiredInv, Backed

-----------------------------------------------------------------------------
(***************************************************************************)
(* The counter of a job and the applications filed for it.                 *)
(***************************************************************************)

Counting(j) == {p \in Request : At(p, "applyCount") /\ req[p].subject[2] = j}

Counted(j) == jobs[j].applicationsCount - skew[j]

FiledFor(j) == {a \in Filed : apps[a].job = j}

LEMMA FiniteCounts ==
    ASSUME HiringAssumption
    PROVE  \A j : /\ IsFiniteSet(Counting(j)) /\ Cardinality(Counting(j)) \in Nat
                  /\ IsFiniteSet(FiledFor(j)) /\ Cardinality(FiledFor(j)) \in Nat
<1> TAKE j
<1>1. IsFiniteSet(Request) /\ IsFiniteSet(App)
  BY DEF HiringAssumption
<1>2. Counting(j) \in SUBSET Request /\ FiledFor(j) \in SUBSET App
  BY DEF Counting, FiledFor, Filed
<1>3. IsFiniteSet(Counting(j)) /\ IsFiniteSet(FiledFor(j))
  BY <1>1, <1>2, FS_Subset
<1> QED
  BY <1>3, FS_CardinalityType

CountIs(j) ==
    /\ Counted(j) + Cardinality(Counting(j)) <= Cardinality(FiledFor(j))
    /\ fails = 0 => Counted(j) + Cardinality(Counting(j)) = Cardinality(FiledFor(j))

\* The counter only moves when a request counts its application.
LEMMA CounterFate ==
    ASSUME HiringStoreTypeOK, NEW p \in Request, StepOf(p), ~ApplyCount(p), NEW j \in Job
    PROVE  Counted(j)' = Counted(j)
<1>t. jobs \in [Job -> JobDoc] /\ skew \in [Job -> Int]
  BY DEF HiringStoreTypeOK
<1> SUFFICES jobs'[j].applicationsCount - skew'[j] = jobs[j].applicationsCount - skew[j]
  BY DEF Counted
<1>1. ASSUME NEW i, NEW st, SetJob(i, st)
      PROVE  jobs'[j].applicationsCount = jobs[j].applicationsCount
  BY <1>1, <1>t DEF SetJob, JobDoc
<1>5. ASSUME NEW i \in Job,
             NEW doc \in Body(i, {"draft"}) \cup Body(i, JobStatus \ {"none"}), StoreBody(i, doc)
      PROVE  jobs'[j].applicationsCount - skew'[j] = jobs[j].applicationsCount - skew[j]
  <2> DEFINE n == doc.applicationsCount
  <2>1. n \in Int /\ jobs[i].applicationsCount \in Int /\ skew[i] \in Int
    BY <1>t, BodyTypes DEF JobDoc
  <2>2. CASE i = j
    <3>1. jobs'[j].applicationsCount = n /\ skew'[j] = skew[j] + n - jobs[j].applicationsCount
      BY <2>2, <1>5, <1>t DEF StoreBody
    <3> HIDE DEF n
    <3> QED
      BY <3>1, <2>1, <2>2
  <2>3. CASE i # j
    BY <2>3, <1>5, <1>t DEF StoreBody
  <2> QED
    BY <2>2, <2>3
<1>2. CASE PostingStep(p)
  <2>1. CASE UpdateJobStatus(p) \/ AdminDeleteJob(p)
    BY <2>1, <1>1 DEF UpdateJobStatus, AdminDeleteJob, marks
  <2>5. CASE CreateJob(p) \/ UpdateJob(p)
    BY <2>5, <1>5 DEF CreateJob, UpdateJob, Posted
  <2>2. CASE VerifyJobCheck(p) \/ BlockJobCheck(p) \/ UnblockJobCheck(p)
    BY <2>2 DEF VerifyJobCheck, BlockJobCheck, UnblockJobCheck, Moderate, marks
  <2>3. CASE VerifyJob(p) \/ UnblockJob(p)
    BY <2>3, <1>t DEF VerifyJob, UnblockJob, Reopen, JobDoc
  <2>4. CASE BlockJob(p)
    BY <2>4, <1>t DEF BlockJob, JobDoc
  <2> QED
    BY <1>2, <2>1, <2>2, <2>3, <2>4, <2>5 DEF PostingStep
<1>3. CASE ApplicationStep(p)
  BY <1>3 DEF ApplicationStep, ApplyForJob, WithdrawApplication, ApplyCheck, ApplyInsert,
     WithdrawCheck, Withdraw, UpdateApplicationStatus, marks
<1>4. CASE OfferStep(p)
  BY <1>4 DEF OfferStep, CreateOffer, RespondToOffer, UploadSignedDocument, VerifyOffer,
     OfferCheckStatus, OfferCheckActive, OfferInsert, OfferApplication, RespondCheck, Respond,
     RespondApplication, SignCheck, Sign, VerifyCheck, Verify, VerifyApplication, SetApplication, marks
<1>6. CASE RequestFails(p)
  BY <1>6 DEF RequestFails, marks
<1> QED
  BY <1>2, <1>3, <1>4, <1>6 DEF StepOf

\* Nor do the requests about to count change but by an insert, a count or a
\* failure.
LEMMA CountingFate ==
    ASSUME HiringTypeOK, NEW p \in Request, StepOf(p),
           ~ApplyInsert(p), ~ApplyCount(p), ~RequestFails(p)
    PROVE  (\A j : Counting(j)' = Counting(j)) /\ UNCHANGED fails
<1>1. CASE req[p].at \in {"applyInsert", "applyCount"}
  <2>1. ~PostingStep(p)
    BY <1>1 DEF PostingStep, CreateJob, UpdateJob, StoreBody, UpdateJobStatus, AdminDeleteJob, VerifyJobCheck, Moderate,
       BlockJobCheck, UnblockJobCheck, VerifyJob, UnblockJob, Reopen, BlockJob, Begins, At
  <2>2. ~ApplicationStep(p)
    BY <1>1 DEF ApplicationStep, ApplyForJob, WithdrawApplication, ApplyCheck,
       WithdrawCheck, Withdraw, UpdateApplicationStatus, Begins, At
  <2>3. ~OfferStep(p)
    BY <1>1 DEF OfferStep, CreateOffer, RespondToOffer, UploadSignedDocument, VerifyOffer,
       OfferCheckStatus, OfferCheckActive, OfferInsert, OfferApplication, RespondCheck, Respond,
       RespondApplication, SignCheck, Sign, VerifyCheck, Verify, VerifyApplication, Begins, At
  <2> QED
    BY <2>1, <2>2, <2>3 DEF StepOf
<1>2. CASE req[p].at \notin {"applyInsert", "applyCount"}
  <2>1. (req[p].at # "applyCount" /\ req'[p].at # "applyCount") \/ UNCHANGED req
    BY <1>2, StepMoves DEF Moves, Starts, Starting, GoesOn, Following, Ends, Idle
  <2>2. \A j : Counting(j)' = Counting(j)
    BY <2>1, StepMoves DEF Moves, Counting, At
  <2>3. UNCHANGED fails
    <3>1. PostingStep(p) => UNCHANGED fails
      BY DEF PostingStep, CreateJob, UpdateJob, StoreBody, UpdateJobStatus, AdminDeleteJob, VerifyJobCheck, Moderate,
         BlockJobCheck, UnblockJobCheck, VerifyJob, UnblockJob, Reopen, BlockJob
    <3>2. ApplicationStep(p) => UNCHANGED fails
      BY DEF ApplicationStep, ApplyForJob, WithdrawApplication, ApplyCheck,
         WithdrawCheck, Withdraw, UpdateApplicationStatus
    <3>3. OfferStep(p) => UNCHANGED fails
      BY DEF OfferStep, CreateOffer, RespondToOffer, UploadSignedDocument, VerifyOffer,
         OfferCheckStatus, OfferCheckActive, OfferInsert, OfferApplication, RespondCheck, Respond,
         RespondApplication, SignCheck, Sign, VerifyCheck, Verify, VerifyApplication, SetApplication
    <3> QED
      BY <3>1, <3>2, <3>3 DEF StepOf
  <2> QED
    BY <2>2, <2>3
<1> QED
  BY <1>1, <1>2

LEMMA CountKept ==
    ASSUME HiringTypeOK, HiringAssumption, Standing, NEW p \in Request, StepOf(p),
           NEW j \in Job, CountIs(j)
    PROVE  CountIs(j)'
<1> DEFINE n == Counted(j)
           c == Cardinality(Counting(j))
           f == Cardinality(FiledFor(j))
<1>t. /\ HiringStoreTypeOK /\ req[p] \in HiringActivity /\ n \in Int /\ fails \in Nat
      /\ jobs \in [Job -> JobDoc] /\ skew \in [Job -> Int]
  BY DEF HiringTypeOK, HiringStoreTypeOK, JobDoc, Counted
<1>c. /\ c \in Nat /\ f \in Nat /\ IsFiniteSet(Counting(j)) /\ IsFiniteSet(FiledFor(j))
  BY FiniteCounts
<1>1. CASE ApplyInsert(p)
  <2> DEFINE k == req[p].subject[2]
  <2>1. /\ req[p].at = "applyInsert" /\ req'[p].at = "applyCount"
        /\ req'[p].subject = req[p].subject
        /\ \A q \in Request \ {p} : req'[q] = req[q]
    <3>1. Goto(p, [req[p] EXCEPT !.at = "applyCount"]) /\ req[p].at = "applyInsert"
      BY <1>1 DEF ApplyInsert, At
    <3>2. /\ [req[p] EXCEPT !.at = "applyCount"].at = "applyCount"
          /\ [req[p] EXCEPT !.at = "applyCount"].subject = req[p].subject
      BY <3>1, <1>t, HiringLocals
    <3> QED
      BY <3>1, <3>2, GotoFrame
  <2>2. PICK a \in App \ Filed :
              /\ Filed' = Filed \cup {a}
              /\ apps'[a].job = k
              /\ \A b \in App \ {a} : apps'[b] = apps[b]
    BY <1>1, InsertFiles
  <2>3. Counted(j)' = n /\ UNCHANGED fails
    BY <1>1 DEF ApplyInsert, Counted
  <2>4. CASE k = j
    <3>1. Counting(j)' = Counting(j) \cup {p} /\ p \notin Counting(j)
      BY <2>1, <2>4 DEF Counting, At
    <3>2. FiledFor(j)' = FiledFor(j) \cup {a} /\ a \notin FiledFor(j)
      BY <2>2, <2>4 DEF FiledFor, Filed
    <3>3. Cardinality(Counting(j)') = c + 1 /\ Cardinality(FiledFor(j)') = f + 1
      BY <3>1, <3>2, <1>c, FS_AddElement
    <3> QED
      BY <3>3, <2>3, <1>c, <1>t DEF CountIs
  <2>5. CASE k # j
    <3>1. Counting(j)' = Counting(j)
      BY <2>1, <2>5 DEF Counting, At
    <3>2. FiledFor(j)' = FiledFor(j)
      BY <2>2, <2>5 DEF FiledFor, Filed
    <3> QED
      BY <3>1, <3>2, <2>3 DEF CountIs
  <2> QED
    BY <2>4, <2>5
<1>f. ~ApplyInsert(p) => FiledFor(j)' = FiledFor(j)
  BY <1>t, FiledFate DEF FiledFor, Filed
<1>2. CASE ApplyCount(p)
  <2> DEFINE k == req[p].subject[2]
  <2>1. /\ req[p].at = "applyCount" /\ req'[p].at = "idle" /\ k \in Job
        /\ \A q \in Request \ {p} : req'[q] = req[q]
    BY <1>2, <1>t, HiringLocals, GotoFrame DEF ApplyCount, At, Done, Idle
  <2>2. UNCHANGED fails /\ FiledFor(j)' = FiledFor(j)
    BY <1>2 DEF ApplyCount, FiledFor, Filed
  <2>3. jobs' = [jobs EXCEPT ![k].applicationsCount = @ + 1] /\ UNCHANGED skew
    BY <1>2 DEF ApplyCount, marks
  <2>4. CASE k = j
    <3>1. Counting(j)' = Counting(j) \ {p} /\ p \in Counting(j)
      BY <2>1, <2>4 DEF Counting, At
    <3>2. Cardinality(Counting(j)') = c - 1
      BY <3>1, <1>c, FS_RemoveElement
    <3>3. Counted(j)' = n + 1
      BY <2>3, <2>4, <1>t DEF JobDoc, Counted
    <3> QED
      BY <3>2, <3>3, <2>2, <1>c, <1>t DEF CountIs
  <2>5. CASE k # j
    <3>1. Counting(j)' = Counting(j)
      BY <2>1, <2>5 DEF Counting, At
    <3>2. Counted(j)' = Counted(j)
      BY <2>3, <2>5, <1>t DEF Counted
    <3> QED
      BY <3>1, <3>2, <2>2 DEF CountIs
  <2> QED
    BY <2>4, <2>5
<1>3. CASE RequestFails(p)
  <2>1. \A q \in Request \ {p} : req'[q] = req[q]
    BY <1>3, GotoFrame DEF RequestFails, Done
  <2>2. req'[p].at = "idle"
    BY <1>3, GotoFrame DEF RequestFails, Done, Idle
  <2>3. Counting(j)' \in SUBSET Counting(j)
    BY <2>1, <2>2 DEF Counting, At
  <2>4. Cardinality(Counting(j)') <= c /\ Cardinality(Counting(j)') \in Nat
    BY <2>3, <1>c, FS_Subset, FS_CardinalityType
  <2>5. fails' # 0 /\ Counted(j)' = n /\ FiledFor(j)' = FiledFor(j)
    BY <1>3, <1>t DEF RequestFails, FiledFor, Filed, Counted, marks
  <2> QED
    BY <2>4, <2>5, <1>c, <1>t DEF CountIs
<1>4. CASE ~ApplyInsert(p) /\ ~ApplyCount(p) /\ ~RequestFails(p)
  <2>1. Counted(j)' = n
    BY <1>4, <1>t, CounterFate
  <2>2. Counting(j)' = Counting(j) /\ UNCHANGED fails
    BY <1>4, CountingFate
  <2> QED
    BY <2>1, <2>2, <1>4, <1>f DEF CountIs
<1> QED
  BY <1>1, <1>2, <1>3, <1>4

-----------------------------------------------------------------------------
(***************************************************************************)
(* The inductive invariant of the histories.                               *)
(***************************************************************************)

HistoryInv ==
    /\ HiringInv
    /\ Standing
    /\ MeetingsRecorded
    /\ ApplyInv
    /\ WithdrawInv
    /\ ActiveInv
    /\ HiredInv
    /\ \A j \in Job : CountIs(j)

LEMMA HistoryInit == HiringInit => HistoryInv
<1> SUFFICES ASSUME HiringInit PROVE HistoryInv
  OBVIOUS
<1>1. /\ HiringInv
      /\ \A p \in Request : req[p].at = "idle"
      /\ Filed = {} /\ Drafted = {} /\ fails = 0
      /\ \A j \in Job : jobs[j].applicationsCount = 0 /\ skew[j] = 0
      /\ \A o \in Offer : offers[o].status = "none"
      /\ \A a \in App : apps[a].status = "none"
  BY HiringInitInv DEF HiringInit, Idle, NoApp, NoOffer, NoJob, Filed, Drafted
<1>2. Standing /\ MeetingsRecorded /\ ApplyInv /\ WithdrawInv
  BY <1>1 DEF Standing, AboutApp, MeetingsRecorded, ApplyInv, OneApplicationUnlessRaced, WithdrawInv
<1>3. ActiveInv
  BY <1>1 DEF ActiveInv, OneActiveOfferUnlessRaced, Active, AimsAt, Writing, Unsigned
<1>4. HiredInv
  BY <1>1 DEF HiredInv
<1>5. ASSUME NEW j \in Job PROVE CountIs(j)
  <2>1. Counting(j) = {} /\ FiledFor(j) = {}
    BY <1>1 DEF Counting, FiledFor, At
  <2> QED
    BY <2>1, <1>1, FS_EmptySet DEF CountIs, Counted
<1> QED
  BY <1>1, <1>2, <1>3, <1>4, <1>5 DEF HistoryInv

\* Time passing changes nothing these invariants look at, but for an overlap.
LEMMA HistoryLapse ==
    ASSUME HistoryInv, NEW o \in Offer, Lapse(o)
    PROVE  HistoryInv'
<1>1. HiringInv'
  BY LapseInv DEF HistoryInv
<1>2. /\ UNCHANGED <<jobs, apps, req, fails>> /\ raced \subseteq raced'
      /\ Filed' = Filed /\ Drafted' = Drafted /\ UNCHANGED <<skew, asFiled>>
      /\ \A u \in Offer : /\ offers'[u].status = offers[u].status
                          /\ offers'[u].signed = offers[u].signed
                          /\ offers'[u].application = offers[u].application
  BY DEF HistoryInv, HiringInv, HiringTypeOK, HiringStoreTypeOK, marks, Lapse, OfferDoc, Filed, Drafted
<1>3. Standing'
  BY <1>2 DEF HistoryInv, Standing, Drafted
<1>4. MeetingsRecorded' /\ WithdrawInv'
  BY <1>2 DEF HistoryInv, MeetingsRecorded, WithdrawInv, Early
<1>5. ApplyInv'
  BY <1>2 DEF HistoryInv, ApplyInv, OneApplicationUnlessRaced, Unapplied
<1>6. ActiveInv'
  <2>1. \A u \in Offer : Active(u)' <=> Active(u)
    BY <1>2 DEF Active
  <2>2. OneActiveOfferUnlessRaced'
    BY <1>2, <2>1 DEF HistoryInv, ActiveInv, OneActiveOfferUnlessRaced
  <2>3. \A p \in Request : req[p].at \in Writing => req[p].offer \in Offer
    BY HiringLocals DEF HistoryInv, HiringInv, HiringTypeOK, Writing
  <2>4. ASSUME NEW p \in Request PROVE AimsAt(p)'
    <3>1. AimsAt(p)
      BY DEF HistoryInv, ActiveInv
    <3>2. ASSUME req[p].at \in Writing, req[p].subject \notin raced'
          PROVE  offers'[req[p].offer].lapsed = offers[req[p].offer].lapsed
      <4>1. offers[req[p].offer].application = req[p].subject
        BY <3>1, <3>2 DEF AimsAt
      <4>2. p \in InFlightAbout(req[p].subject)
        BY <3>2 DEF InFlightAbout, At, Writing
      <4>3. o # req[p].offer
        BY <3>2, <4>1, <4>2 DEF Lapse
      <4> QED
        BY <4>3, <2>3, <3>2 DEF Lapse, HistoryInv, HiringInv, HiringTypeOK, HiringStoreTypeOK, marks
    <3> QED
      BY <1>2, <2>3, <3>1, <3>2 DEF AimsAt, Ready
  <2>6. \A u \in Offer : Unsigned(u)'
    BY <1>2 DEF HistoryInv, ActiveInv, Unsigned
  <2>5. \A a : Unoffered(a) => Unoffered(a)'
    BY <1>2, <2>1 DEF Unoffered
  <2> QED
    BY <1>2, <2>2, <2>4, <2>5, <2>6 DEF HistoryInv, ActiveInv
<1>7. HiredInv'
  <2>1. \A a : Backed(a) => Backed(a)'
    BY <1>2 DEF Backed
  <2> QED
    BY <1>2, <2>1 DEF HistoryInv, HiredInv
<1>8. \A j \in Job : CountIs(j)'
  <2>1. \A j \in Job : Counting(j)' = Counting(j) /\ FiledFor(j)' = FiledFor(j)
    BY <1>2 DEF Counting, FiledFor, At
  <2> QED
    BY <1>2, <2>1 DEF HistoryInv, CountIs, Counted
<1> QED
  BY <1>1, <1>3, <1>4, <1>5, <1>6, <1>7, <1>8 DEF HistoryInv

LEMMA HistoryStep ==
    ASSUME HistoryInv, NEW p \in Request, StepOf(p)
    PROVE  HistoryInv'
<1>1. /\ HiringInv /\ HiringTypeOK /\ Standing /\ MeetingsRecorded
      /\ ApplyInv /\ WithdrawInv /\ ActiveInv /\ HiredInv
  BY DEF HistoryInv, HiringInv
<1>2. HiringInv'
  BY <1>1, PostingInv, ApplicationInv, OfferInv, FailInv DEF StepOf
<1>3. Standing'
  BY <1>1, HiringAssumption, StandingKept
<1>4. MeetingsRecorded'
  <2>1. CASE Moves(p)
    BY <2>1, <1>1, MeetingsKept
  <2>2. CASE UNCHANGED req /\ raced \subseteq raced'
    BY <2>2, <1>1 DEF MeetingsRecorded
  <2> QED
    BY <2>1, <2>2, <1>1, StepMoves
<1>5. ApplyInv'
  BY <1>1, HiringAssumption, ApplyKept
<1>6. WithdrawInv'
  BY <1>1, HiringAssumption, WithdrawKept
<1>7. ActiveInv'
  BY <1>1, ActiveKept
<1>8. HiredInv'
  BY <1>1, HiringAssumption, HiredKept
<1>9. \A j \in Job : CountIs(j)'
  BY <1>1, HiringAssumption, CountKept DEF HistoryInv
<1> QED
  BY <1>2, <1>3, <1>4, <1>5, <1>6, <1>7, <1>8, <1>9 DEF HistoryInv

LEMMA HistoryStutter ==
    ASSUME HistoryInv, UNCHANGED hiringVars
    PROVE  HistoryInv'
<1>1. HiringInv'
  BY HiringStepInv DEF HistoryInv
<1>2. UNCHANGED <<jobs, apps, offers, req, fails, raced, skew, asFiled>>
  BY DEF hiringVars
<1>3. Filed' = Filed /\ Drafted' = Drafted
  BY <1>2 DEF Filed, Drafted
<1>4. Standing' /\ MeetingsRecorded' /\ WithdrawInv'
  BY <1>2, <1>3 DEF HistoryInv, Standing, MeetingsRecorded, WithdrawInv, Early
<1>5. ApplyInv'
  BY <1>2, <1>3 DEF HistoryInv, ApplyInv, OneApplicationUnlessRaced, Unapplied
<1>6. ActiveInv'
  BY <1>2 DEF HistoryInv, ActiveInv, OneActiveOfferUnlessRaced, AimsAt, Unoffered, Active,
     Unsigned, Ready
<1>7. HiredInv'
  BY <1>2 DEF HistoryInv, HiredInv, Backed
<1>8. \A j \in Job : CountIs(j)'
  BY <1>2, <1>3 DEF HistoryInv, CountIs, Counted, Counting, FiledFor, At
<1> QED
  BY <1>1, <1>4, <1>5, <1>6, <1>7, <1>8 DEF HistoryInv

LEMMA HistoryNext ==
    ASSUME HistoryInv, [HiringNext]_hiringVars
    PROVE  HistoryInv'
<1>1. CASE HiringNext
  BY <1>1, HistoryLapse, HistoryStep DEF HiringNext, StepOf
<1>2. CASE UNCHANGED hiringVars
  BY <1>2, HistoryStutter
<1> QED
  BY <1>1, <1>2

LEMMA HistoryInvariant == HiringSpec => []HistoryInv
<1>1. HiringInit => HistoryInv
  BY HistoryInit
<1>2. HistoryInv /\ [HiringNext]_hiringVars => HistoryInv'
  BY HistoryNext
<1> QED
  BY <1>1, <1>2, PTL DEF HiringSpec

\* Every document and every request's locals keep their types.
THEOREM HiringTypesCorrect == HiringSpec => []HiringTypeOK
<1>1. HiringInv => HiringTypeOK
  BY DEF HiringInv
<1> QED
  BY <1>1, HiringInvariant, PTL

\* A job an admin blocked is in no search, unless an admin or a body of its
\* company's has verified it since.
THEOREM BlockedJobsStayHidden == HiringSpec => []BlockedStaysHidden
<1>1. HiringInv => BlockedStaysHidden
  BY DEF HiringInv, BlockedUnverified, BlockedStaysHidden, Visible
<1> QED
  BY <1>1, HiringInvariant, PTL

\* A verified offer has its signed document, however requests interleave.
THEOREM VerifiedOffersAreSigned == HiringSpec => []VerifiedMeansSigned
<1>1. HiringInv => VerifiedMeansSigned
  BY DEF HiringInv
<1> QED
  BY <1>1, HiringInvariant, PTL

\* A candidate has two applications to one job only if two requests to apply
\* for it overlapped.
THEOREM ApplicationsAreUnique == HiringSpec => []OneApplicationUnlessRaced
<1>1. HistoryInv => OneApplicationUnlessRaced
  BY DEF HistoryInv, ApplyInv
<1> QED
  BY <1>1, HistoryInvariant, PTL

\* An application has two active offers only if requests about it overlapped.
THEOREM ActiveOffersAreUnique == HiringSpec => []OneActiveOfferUnlessRaced
<1>1. HistoryInv => OneActiveOfferUnlessRaced
  BY DEF HistoryInv, ActiveInv
<1> QED
  BY <1>1, HistoryInvariant, PTL

\* Where companies do not mark anyone as hired by hand, a hired application
\* that was not filed so has a signed offer, verified unless requests about it
\* overlapped.
THEOREM HiredThroughAnOffer == HiringSpec => []HiredMeansVerified
<1>1. HistoryInv => HiredMeansVerified
  BY DEF HistoryInv, HiredInv, Backed, HiredMeansVerified
<1> QED
  BY <1>1, HistoryInvariant, PTL

\* The counter of a job, less what bodies moved it by, is the number of its
\* applications, less those whose request has not counted them yet or failed
\* before it did.
THEOREM CountsAgree == HiringSpec => []CountAgrees
<1>1. HistoryInv => CountAgrees
  <2> SUFFICES ASSUME HistoryInv, NEW j \in Job
               PROVE  CountIs(j)
    BY DEF CountAgrees, CountIs, Counted, Counting, FiledFor
  <2> QED
    BY DEF HistoryInv
<1> QED
  BY <1>1, HistoryInvariant, PTL

LEMMA WithdrawalsInTime ==
    ASSUME HistoryInv, HiringNext, "withdrawn" \notin Manual, NEW a \in Filed \ raced,
           apps'[a].status = "withdrawn", apps[a].status # "withdrawn"
    PROVE  apps[a].status \in {"pending", "reviewing"}
<1>1. CASE \E o \in Offer : Lapse(o)
  BY <1>1 DEF Lapse
<1>2. ASSUME NEW p \in Request, StepOf(p)
      PROVE  Early(a)
  BY <1>2, HiringAssumption, WithdrawStep DEF HistoryInv
<1> QED
  BY <1>1, <1>2 DEF HiringNext, StepOf, Early

\* Where companies do not withdraw applications by hand, an application that
\* was past "reviewing" is withdrawn only if requests about it overlapped.
THEOREM WithdrawnInTime ==
    ASSUME "withdrawn" \notin Manual
    PROVE  HiringSpec => WithdrawnInTimeUnlessRaced
<1>1. HistoryInv /\ [HiringNext]_hiringVars =>
        [\A a \in Filed \ raced :
           (apps'[a].status = "withdrawn" /\ apps[a].status # "withdrawn")
           => apps[a].status \in {"pending", "reviewing"}]_hiringVars
  BY WithdrawalsInTime
<1> QED
  BY <1>1, HistoryInvariant, PTL DEF HiringSpec, WithdrawnInTimeUnlessRaced

-----------------------------------------------------------------------------
(***************************************************************************)
(* Offers follow the protocol.                                             *)
(***************************************************************************)

\* Successive phases of an offer that is not contested.
MayFollow(f, g) == g \in P!Successors[f]

Phases == {"absent", "open", "lapsed", "accepted", "rejected", "signed", "verified", "contested"}

LEMMA PhaseTypes ==
    ASSUME HiringTypeOK
    PROVE  \A o \in Offer : PhaseOf(o) \in Phases
  BY DEF HiringTypeOK, HiringStoreTypeOK, OfferDoc, PhaseOf, Phases

\* A step under which offers only become contested.
LEMMA ContestStep ==
    ASSUME \A o \in Offer : PhaseOf(o)' = PhaseOf(o) \/ PhaseOf(o)' = "contested"
    PROVE  P!ProtocolNext
<1> DEFINE S == {o \in Offer : PhaseOf(o)' = "contested"}
<1>1. [o \in Offer |-> PhaseOf(o)]'
        = [o \in Offer |-> IF o \in S THEN "contested" ELSE [u \in Offer |-> PhaseOf(u)][o]]
  OBVIOUS
<1>2. S \in SUBSET Offer
  OBVIOUS
<1> QED
  BY <1>1, <1>2 DEF P!ProtocolNext, P!Contest

\* A step under which one offer goes on to the next phase.
LEMMA AdvanceStep ==
    ASSUME NEW o \in Offer, MayFollow(PhaseOf(o), PhaseOf(o)'),
           \A u \in Offer \ {o} : PhaseOf(u)' = PhaseOf(u)
    PROVE  P!ProtocolNext
<1>1. [u \in Offer |-> PhaseOf(u)]'
        = [[u \in Offer |-> PhaseOf(u)] EXCEPT ![o] = PhaseOf(o)']
  OBVIOUS
<1> QED
  BY <1>1 DEF P!ProtocolNext, P!Advance, MayFollow

\* Where no offer changes, those whose application gets contested do.
LEMMA KeptPhases ==
    ASSUME raced \subseteq raced', NEW o \in Offer, offers'[o] = offers[o]
    PROVE  PhaseOf(o)' = PhaseOf(o) \/ PhaseOf(o)' = "contested"
  BY DEF PhaseOf

LEMMA LapsePhases ==
    ASSUME HistoryInv, NEW o \in Offer, Lapse(o)
    PROVE  P!ProtocolNext
<1> DEFINE a == offers[o].application
<1>1. offers \in [Offer -> OfferDoc]
  BY DEF HistoryInv, HiringInv, HiringTypeOK, HiringStoreTypeOK, marks
<1>2. /\ offers'[o].status = offers[o].status /\ offers'[o].application = a
      /\ offers'[o].signed = offers[o].signed /\ offers'[o].lapsed
      /\ ~offers[o].lapsed /\ offers[o].status # "none"
      /\ \A u \in Offer \ {o} : offers'[u] = offers[u]
      /\ raced \subseteq raced'
  BY <1>1 DEF Lapse, OfferDoc
<1>3. \A u \in Offer \ {o} : PhaseOf(u)' = PhaseOf(u) \/ PhaseOf(u)' = "contested"
  BY <1>2, KeptPhases
<1>4. CASE a \in raced' \/ offers[o].status # "pending"
  <2>1. PhaseOf(o)' = PhaseOf(o) \/ PhaseOf(o)' = "contested"
    BY <1>2, <1>4 DEF PhaseOf
  <2> QED
    BY <1>3, <2>1, ContestStep
<1>5. CASE a \notin raced' /\ offers[o].status = "pending"
  <2>1. raced' = raced
    BY <1>5 DEF Lapse
  <2>2. PhaseOf(o) = "open" /\ PhaseOf(o)' = "lapsed"
    BY <1>2, <1>5, <2>1 DEF PhaseOf
  <2>3. \A u \in Offer \ {o} : PhaseOf(u)' = PhaseOf(u)
    BY <1>2, <2>1 DEF PhaseOf
  <2>4. MayFollow(PhaseOf(o), PhaseOf(o)')
    BY <2>2 DEF MayFollow, P!Successors
  <2> QED
    BY <2>3, <2>4, AdvanceStep
<1> QED
  BY <1>4, <1>5

LEMMA RequestPhases ==
    ASSUME HistoryInv, NEW p \in Request, StepOf(p)
    PROVE  P!ProtocolNext
<1>t. /\ HiringTypeOK /\ Aimed /\ VerifiedMeansSigned /\ raced \subseteq raced'
      /\ offers \in [Offer -> OfferDoc] /\ AimsAt(p) /\ \A o \in Offer : Unsigned(o)
  BY StepMoves, MeetingsKept
     DEF HistoryInv, HiringInv, HiringTypeOK, HiringStoreTypeOK, marks, ActiveInv
<1>1. CASE UNCHANGED offers
  BY <1>1, <1>t, KeptPhases, ContestStep
<1>2. CASE OfferInsert(p)
  <2>1. PICK o \in Offer \ Drafted :
              /\ offers'[o].status = "pending"
              /\ \A u \in Offer \ {o} : offers'[u] = offers[u]
    BY <1>2, <1>t, InsertDrafts
  <2>2. UNCHANGED raced
    BY <1>2 DEF OfferInsert
  <2>3. PhaseOf(o) = "absent"
    BY <2>1 DEF PhaseOf, Drafted
  <2>4. PhaseOf(o)' \in {"open", "lapsed", "contested"}
    BY <2>1 DEF PhaseOf
  <2>5. \A u \in Offer \ {o} : PhaseOf(u)' = PhaseOf(u)
    BY <2>1, <2>2 DEF PhaseOf
  <2>6. MayFollow(PhaseOf(o), PhaseOf(o)')
    BY <2>3, <2>4 DEF MayFollow, P!Successors
  <2> QED
    BY <2>5, <2>6, AdvanceStep
<1>3. CASE Respond(p) \/ Sign(p) \/ Verify(p)
  <2>0. PICK o \in Offer : o = req[p].offer
    BY <1>3, <1>t, OfferWrites DEF Drafted
  <2>1. /\ o \in Drafted /\ Drafted' = Drafted
        /\ \A u \in Offer : /\ offers'[u].application = offers[u].application
                            /\ u # o => offers'[u] = offers[u]
        /\ UNCHANGED raced
    BY <1>3, <2>0, <1>t, OfferWrites DEF Respond, Sign, Verify
  <2>2. \A u \in Offer \ {o} : PhaseOf(u)' = PhaseOf(u)
    BY <2>1 DEF PhaseOf
  <2>3. o \in Offer /\ offers[o].status # "none" /\ offers'[o].status # "none"
    BY <2>1 DEF Drafted
  <2>4. CASE offers[o].application \in raced
    <3>1. PhaseOf(o)' = "contested"
      BY <2>1, <2>3, <2>4 DEF PhaseOf
    <3> QED
      BY <2>2, <3>1, ContestStep
  <2>5. CASE offers[o].application \notin raced /\ Respond(p)
    <3>1. req[p].at = "respond" /\ req[p].answer \in {"accepted", "rejected"}
      BY <1>t, <2>5, HiringLocals DEF HiringTypeOK, Respond, At
    <3>2. offers[o].status = "pending" /\ ~offers[o].lapsed /\ ~offers[o].signed
      BY <2>0, <1>t, <2>3, <2>5, <3>1 DEF AimsAt, Writing, Ready, Unsigned
    <3>3. PhaseOf(o) = "open"
      BY <2>5, <3>2 DEF PhaseOf
    <3>4. /\ offers'[o].status = req[p].answer
          /\ offers'[o].signed = FALSE
      BY <2>0, <2>3, <2>5, <3>1, <3>2, <1>t DEF Respond, OfferDoc
    <3>5. PhaseOf(o)' \in {"accepted", "rejected"}
      BY <2>1, <2>3, <2>5, <3>1, <3>4 DEF PhaseOf
    <3>6. MayFollow(PhaseOf(o), PhaseOf(o)')
      BY <3>3, <3>5 DEF MayFollow, P!Successors
    <3> QED
      BY <2>2, <2>3, <3>6, AdvanceStep
  <2>6. CASE offers[o].application \notin raced /\ Sign(p)
    <3>1. offers[o].status = "accepted"
      BY <2>0, <1>t, <2>6 DEF AimsAt, Writing, Ready, Sign, At
    <3>2. offers'[o].status = "accepted" /\ offers'[o].signed
      BY <2>0, <2>3, <2>6, <3>1, <1>t DEF Sign, OfferDoc
    <3>3. PhaseOf(o) \in {"accepted", "signed"} /\ PhaseOf(o)' = "signed"
      BY <2>1, <2>3, <2>6, <3>1, <3>2 DEF PhaseOf
    <3>4. CASE PhaseOf(o) = "signed"
      BY <2>2, <3>3, <3>4, ContestStep
    <3>5. CASE PhaseOf(o) = "accepted"
      <4>1. MayFollow(PhaseOf(o), PhaseOf(o)')
        BY <3>3, <3>5 DEF MayFollow, P!Successors
      <4> QED
        BY <2>2, <2>3, <4>1, AdvanceStep
    <3> QED
      BY <3>3, <3>4, <3>5
  <2>7. CASE offers[o].application \notin raced /\ Verify(p)
    <3>1. offers[o].status = "accepted" /\ offers[o].signed
      BY <2>0, <1>t, <2>7 DEF AimsAt, Writing, Ready, Verify, At, VerifiedMeansSigned
    <3>2. offers'[o].status = "verified"
      BY <2>0, <2>7, <1>t, OfferWrites
    <3>3. PhaseOf(o) = "signed" /\ PhaseOf(o)' = "verified"
      BY <2>1, <2>3, <2>7, <3>1, <3>2 DEF PhaseOf
    <3>4. MayFollow(PhaseOf(o), PhaseOf(o)')
      BY <3>3 DEF MayFollow, P!Successors
    <3> QED
      BY <2>2, <2>3, <3>4, AdvanceStep
  <2> QED
    BY <1>3, <2>4, <2>5, <2>6, <2>7
<1> QED
  BY <1>1, <1>2, <1>3, OffersFate

\* Every offer goes through the phases of OfferProtocol, each step of the
\* system being a step of it or none, unless requests about its application
\* overlapped.
THEOREM OffersFollowProtocol == HiringSpec => ImplementsProtocol
<1>1. HiringInit => P!ProtocolInit
  BY DEF HiringInit, NoOffer, P!ProtocolInit, PhaseOf
<1>2. HistoryInv /\ [HiringNext]_hiringVars
        => [P!ProtocolNext]_([o \in Offer |-> PhaseOf(o)])
  <2>1. CASE HistoryInv /\ HiringNext
    BY <2>1, LapsePhases, RequestPhases DEF HiringNext, StepOf
  <2>2. CASE UNCHANGED hiringVars
    BY <2>2 DEF hiringVars, PhaseOf
  <2> QED
    BY <2>1, <2>2
<1> QED
  BY <1>1, <1>2, HistoryInvariant, PTL DEF HiringSpec, ImplementsProtocol, P!Protocol
=============================================================================

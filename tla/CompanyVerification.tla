------------------------ MODULE CompanyVerification -------------------------
(***************************************************************************)
(* A company fills in its profile and asks to be verified; the             *)
(* administrator verifies or rejects it.  Each decides on a document it    *)
(* read an await before it writes.                                         *)
(***************************************************************************)
EXTENDS ProfileFiles

Weight ==
    [website |-> 10, location |-> 10, industry |-> 10, description |-> 10, logo |-> 10,
     phone |-> 10, numberOfEmployees |-> 10, address |-> 15, documents |-> 15]

Rule == DOMAIN Weight

\* The rule for the phone looks at the logo.
Field(rule) == IF rule = "phone" THEN "logo" ELSE rule

\* Mutant: no document is asked for.
HoldsUndocumented(rule) == rule = "documents" \/ Field(rule) \in filled

Holds(rule) ==
    IF rule = "documents" THEN files[<<"company", "documents">>] # {} ELSE Field(rule) \in filled

missingFields == {rule \in Rule : ~Holds(rule)}

completionPercentage == MapThenSumSet(LAMBDA rule : Weight[rule], Rule \ missingFields)

Judges(p, label) ==
    /\ Goto(p, [at |-> label, on |-> <<"company", "verificationStatus">>])
    /\ raced' = IF \E q \in Request : req[q].at \in Judging THEN raced \cup {<<"company", "verificationStatus">>} ELSE raced
    /\ UNCHANGED <<fileVars, entryVars, verdictVars, stale, fails>>

verifyCompany(p) == Starts(p) /\ missingFields = {} /\ Judges(p, "verifySave")

rejectCompanyVerification(p) == Starts(p) /\ Judges(p, "rejectSave")

reapplyForVerification(p) ==
    /\ Starts(p)
    /\ verificationStatus \notin {"verified", "pending"}
    /\ completionPercentage >= 80
    /\ files[<<"company", "documents">>] # {}
    /\ Judges(p, "reapplySave")

Writes(p, label, verdict) ==
    /\ At(p, label)
    /\ verificationStatus' = verdict
    /\ UNCHANGED <<fileVars, entryVars, filled, started, fails, raced>>

VerifySave(p) == Writes(p, "verifySave", "verified") /\ Done(p)

\* The reason is pushed by the same save.
RejectSave(p) == Writes(p, "rejectSave", "rejected") /\ DoneMoving(p, "company")

ReapplySave(p) == Writes(p, "reapplySave", "pending") /\ Done(p)

Fills(fields) ==
    /\ filled' \in Form
    /\ \A f \in Rule \ fields : f \in filled' <=> f \in filled

\* One write, made before the company is found to be blocked, if it is.
updateAddress ==
    /\ Counted /\ Fills({"address"})
    /\ raced' = UnderJudgement
    /\ UNCHANGED <<fileVars, entryVars, verificationStatus, req, stale, fails>>

\* The body is stored as it comes, the status and the documents with it.
updateBasicProfile ==
    /\ Counted
    /\ \E fields \in CompanyBody :
          /\ WritesNames("company", fields) /\ Fills(fields)
          /\ IF "verificationStatus" \in fields
             THEN verificationStatus' \in Verdict ELSE UNCHANGED verificationStatus
    /\ raced' = Renamed \cup
          (IF verificationStatus' # verificationStatus /\ \E q \in Request : req[q].at \in Judging
           THEN raced \cup {<<"company", "verificationStatus">>} ELSE UnderJudgement)
    /\ UNCHANGED <<entryVars, req, stale, fails>>

VerificationStep(p) ==
    \/ verifyCompany(p) \/ VerifySave(p)
    \/ rejectCompanyVerification(p) \/ RejectSave(p)
    \/ reapplyForVerification(p) \/ ReapplySave(p)
=============================================================================

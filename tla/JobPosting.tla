----------------------------- MODULE JobPosting -----------------------------
(***************************************************************************)
(* Jobs: the company that posts one and edits it, the admin who verifies,  *)
(* blocks, unblocks or deletes it.  A company's handlers read the job only *)
(* to see whose it is, so read and write are one step; an admin's guard    *)
(* reads the status the write is decided by, so they are two.              *)
(***************************************************************************)
EXTENDS HiringStore

PostingRequest ==
    [at: {"verifyJob", "blockJob", "unblockJob"}, subject: Job]

SetJob(j, status) == jobs' = [jobs EXCEPT ![j].status = status]

\* A request's body as it comes is what is stored: doc is what it makes of the
\* job, and may say isVerified and applicationsCount too.
StoreBody(j, doc) ==
    /\ jobs' = [jobs EXCEPT ![j] = doc]
    /\ down' = IF doc.isVerified THEN down \ {j} ELSE down
    /\ skew' = [skew EXCEPT ![j] = @ + doc.applicationsCount - jobs[j].applicationsCount]

Body(j, statuses) ==
    [status: statuses, isVerified: BOOLEAN,
     applicationsCount: Counts \cup {jobs[j].applicationsCount}]

CreateJob(p) ==
    \E j \in Job \ Posted : \E doc \in Body(j, {"draft"}) :
        /\ Begins(p, "post", j)
        /\ StoreBody(j, doc)
        /\ UNCHANGED <<apps, offers, req, fails, asFiled>>

UpdateJob(p) ==
    \E j \in Posted : \E doc \in Body(j, JobStatus \ {"none"}) :
        /\ Begins(p, "post", j)
        /\ StoreBody(j, doc)
        /\ UNCHANGED <<apps, offers, req, fails, asFiled>>

\* Mutant: the update writes the company's whole copy of the job.
UpdateWholeJob(p) ==
    \E j \in Posted, status \in JobStatus \ {"none"} :
        /\ Begins(p, "post", j)
        /\ jobs' = [jobs EXCEPT ![j].status = status, ![j].isVerified = TRUE]
        /\ UNCHANGED <<apps, offers, req, fails, marks>>

\* updateJobStatus and, to "closed", deleteJob.
UpdateJobStatus(p) ==
    \E j \in Posted, status \in {"draft", "active", "paused", "closed"} :
        /\ Begins(p, "post", j)
        /\ SetJob(j, status)
        /\ UNCHANGED <<apps, offers, req, fails, marks>>

Moderate(p, j, label) ==
    /\ Begins(p, "moderate", j)
    /\ Goto(p, [at |-> label, subject |-> j])
    /\ UNCHANGED <<jobs, apps, offers, fails, marks>>

VerifyJobCheck(p) == \E j \in Posted : ~jobs[j].isVerified /\ Moderate(p, j, "verifyJob")

BlockJobCheck(p) == \E j \in Posted : jobs[j].status # "closed" /\ Moderate(p, j, "blockJob")

UnblockJobCheck(p) == \E j \in Posted : jobs[j].status = "closed" /\ Moderate(p, j, "unblockJob")

Reopen(p, label) ==
    /\ At(p, label)
    /\ LET j == req[p].subject
       IN  /\ jobs' = [jobs EXCEPT ![j].status = "active", ![j].isVerified = TRUE]
           /\ down' = down \ {j}
    /\ Done(p)
    /\ UNCHANGED <<apps, offers, fails, raced, skew, asFiled>>

VerifyJob(p) == Reopen(p, "verifyJob")

UnblockJob(p) == Reopen(p, "unblockJob")

BlockJob(p) ==
    /\ At(p, "blockJob")
    /\ LET j == req[p].subject
       IN  /\ jobs' = [jobs EXCEPT ![j].status = "closed", ![j].isVerified = FALSE]
           /\ down' = down \cup {j}
    /\ Done(p)
    /\ UNCHANGED <<apps, offers, fails, raced, skew, asFiled>>

\* The admin's delete closes the job and leaves its verification alone.
AdminDeleteJob(p) ==
    \E j \in Posted :
        /\ Begins(p, "moderate", j)
        /\ SetJob(j, "closed")
        /\ UNCHANGED <<apps, offers, req, fails, marks>>

PostingStep(p) ==
    \/ CreateJob(p) \/ UpdateJob(p) \/ UpdateJobStatus(p) \/ AdminDeleteJob(p)
    \/ VerifyJobCheck(p) \/ BlockJobCheck(p) \/ UnblockJobCheck(p)
    \/ VerifyJob(p) \/ BlockJob(p) \/ UnblockJob(p)
=============================================================================

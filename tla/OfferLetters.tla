---------------------------- MODULE OfferLetters ----------------------------
(***************************************************************************)
(* Offer letters: the company makes an offer, the candidate answers it and *)
(* uploads the signed copy, the company verifies it.  Every handler reads  *)
(* the offer in one await, decides, and writes it in another; some write   *)
(* the application in a third.                                             *)
(***************************************************************************)
EXTENDS HiringStore

OfferRequest ==
    [at: {"offerCheckActive", "offerInsert", "offerApplication"}, subject: App]
    \cup
    [at: {"respond"}, subject: App, offer: Offer, answer: {"accepted", "rejected"}]
    \cup
    [at: {"sign", "verify"}, subject: App, offer: Offer]
    \cup
    [at: {"respondApplication", "verifyApplication"}, subject: App]

EligibleStatuses == {"shortlisted", "interviewed", "hired"}

Active(o) == offers[o].status \in {"pending", "accepted"}

\* Mutant: an offer counts as active only until it is answered.
HasPendingOffer(a) == \E o \in Offer : offers[o].application = a /\ offers[o].status = "pending"

HasActiveOffer(a) == \E o \in Offer : offers[o].application = a /\ Active(o)

SetApplication(p, status) ==
    /\ WriteStatus(req[p].subject, status)
    /\ Done(p)
    /\ UNCHANGED <<jobs, offers, fails, raced, down, skew>>

-----------------------------------------------------------------------------
(* createOffer *)

OfferCheckStatus(p) ==
    /\ RoomFor(Offer, Drafted, {"offerCheckActive", "offerInsert"})
    /\ \E a \in Filed :
          /\ apps[a].status \in EligibleStatuses
          /\ Begins(p, "offer", a)
          /\ Goto(p, [at |-> "offerCheckActive", subject |-> a])
    /\ UNCHANGED <<jobs, apps, offers, fails, marks>>

OfferCheckActive(p) ==
    /\ At(p, "offerCheckActive")
    /\ Goto(p, IF HasActiveOffer(req[p].subject)
               THEN Idle
               ELSE [req[p] EXCEPT !.at = "offerInsert"])
    /\ UNCHANGED <<jobs, apps, offers, fails, raced, marks>>

\* expiresAt is the company's choice and is not compared with the clock.
OfferInsert(p) ==
    /\ At(p, "offerInsert")
    /\ \E o \in Offer \ Drafted, lapsed \in BOOLEAN :
          offers' = [offers EXCEPT ![o] =
                       [status |-> "pending", application |-> req[p].subject,
                        signed |-> FALSE, lapsed |-> lapsed]]
    /\ Goto(p, [req[p] EXCEPT !.at = "offerApplication"])
    /\ UNCHANGED <<jobs, apps, fails, raced, marks>>

\* Unlike the other writes of a status, this one leaves no history entry.
OfferApplication(p) == At(p, "offerApplication") /\ SetApplication(p, "offered")

-----------------------------------------------------------------------------
(* respondToOffer *)

\* Mutant: an expired offer can still be answered.
RespondLate(p) ==
    /\ \E o \in Drafted, answer \in {"accepted", "rejected"} :
          /\ offers[o].status = "pending"
          /\ Begins(p, "respond", offers[o].application)
          /\ Goto(p, [at |-> "respond", subject |-> offers[o].application,
                      offer |-> o, answer |-> answer])
    /\ UNCHANGED <<jobs, apps, offers, fails, marks>>

RespondCheck(p) ==
    /\ \E o \in Drafted, answer \in {"accepted", "rejected"} :
          /\ offers[o].status = "pending"
          /\ ~offers[o].lapsed
          /\ Begins(p, "respond", offers[o].application)
          /\ Goto(p, [at |-> "respond", subject |-> offers[o].application,
                      offer |-> o, answer |-> answer])
    /\ UNCHANGED <<jobs, apps, offers, fails, marks>>

Respond(p) ==
    /\ At(p, "respond")
    /\ offers' = [offers EXCEPT ![req[p].offer].status = req[p].answer]
    /\ Goto(p, IF req[p].answer = "accepted"
               THEN Idle
               ELSE [at |-> "respondApplication", subject |-> req[p].subject])
    /\ UNCHANGED <<jobs, apps, fails, raced, marks>>

RespondApplication(p) == At(p, "respondApplication") /\ SetApplication(p, "rejected")

-----------------------------------------------------------------------------
(* uploadSignedDocument: the upload to S3 lies between the two awaits. *)

SignCheck(p) ==
    /\ \E o \in Drafted :
          /\ offers[o].status = "accepted"
          /\ Begins(p, "sign", offers[o].application)
          /\ Goto(p, [at |-> "sign", subject |-> offers[o].application, offer |-> o])
    /\ UNCHANGED <<jobs, apps, offers, fails, marks>>

Sign(p) ==
    /\ At(p, "sign")
    /\ offers' = [offers EXCEPT ![req[p].offer].signed = TRUE]
    /\ Done(p)
    /\ UNCHANGED <<jobs, apps, fails, raced, marks>>

-----------------------------------------------------------------------------
(* verifyOffer *)

VerifyCheck(p) ==
    /\ \E o \in Drafted :
          /\ offers[o].status = "accepted"
          /\ offers[o].signed
          /\ Begins(p, "verify", offers[o].application)
          /\ Goto(p, [at |-> "verify", subject |-> offers[o].application, offer |-> o])
    /\ UNCHANGED <<jobs, apps, offers, fails, marks>>

\* Mutant: the application is written before the offer.
VerifyApplicationFirst(p) ==
    /\ At(p, "verify")
    /\ WriteStatus(req[p].subject, "hired")
    /\ Goto(p, [at |-> "verifyApplication", subject |-> req[p].subject])
    /\ UNCHANGED <<jobs, offers, fails, raced, down, skew>>

Verify(p) ==
    /\ At(p, "verify")
    /\ offers' = [offers EXCEPT ![req[p].offer].status = "verified"]
    /\ Goto(p, [at |-> "verifyApplication", subject |-> req[p].subject])
    /\ UNCHANGED <<jobs, apps, fails, raced, marks>>

VerifyApplication(p) == At(p, "verifyApplication") /\ SetApplication(p, "hired")

-----------------------------------------------------------------------------
\* Time passes: an offer that is not over goes past its expiresAt.  Nothing in
\* the code reacts; a request under way about it is overtaken.
Lapse(o) ==
    /\ offers[o].status # "none"
    /\ ~offers[o].lapsed
    /\ offers' = [offers EXCEPT ![o].lapsed = TRUE]
    /\ raced' = IF InFlightAbout(offers[o].application) = {} THEN raced
                ELSE raced \cup {offers[o].application}
    /\ UNCHANGED <<jobs, apps, req, fails, marks>>

CreateOffer(p) ==
    OfferCheckStatus(p) \/ OfferCheckActive(p) \/ OfferInsert(p) \/ OfferApplication(p)

RespondToOffer(p) == RespondCheck(p) \/ Respond(p) \/ RespondApplication(p)

UploadSignedDocument(p) == SignCheck(p) \/ Sign(p)

VerifyOffer(p) == VerifyCheck(p) \/ Verify(p) \/ VerifyApplication(p)

OfferStep(p) ==
    CreateOffer(p) \/ RespondToOffer(p) \/ UploadSignedDocument(p) \/ VerifyOffer(p)
=============================================================================

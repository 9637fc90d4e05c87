---------------------------- MODULE Registration ----------------------------
(***************************************************************************)
(* Signing up by one-time password, and resetting a password by link.      *)
(***************************************************************************)
EXTENDS AccountStore

(***************************************************************************)
(* The one-time password.                                                  *)
(***************************************************************************)
\* sendOtpCacheUser overwrites whatever is cached under the address.
RequestOTP ==
    /\ codes < MaxCode
    /\ codes' = codes + 1
    /\ \E f \in Form :
          cache' = [cache EXCEPT ![f.email] =
                       [kind |-> "signup", form |-> f, code |-> codes + 1, otpVerified |-> FALSE]]
    /\ UNCHANGED <<accounts, links, tokens, proven, used, over, raced, req, fails>>

\* resendOtp reads the entry; a reset link under the address does not parse.
ResendGet(p) ==
    /\ At(p, "idle") /\ codes < MaxCode
    /\ \E e \in Email :
          /\ cache[e].kind = "signup"
          /\ Goto(p, [at |-> "resendSet", entry |-> [cache[e] EXCEPT !.code = codes + 1]])
    /\ codes' = codes + 1
    /\ UNCHANGED <<accounts, cache, links, tokens, proven, used, over, raced, fails>>

ResendSet(p) ==
    /\ At(p, "resendSet")
    /\ cache' = [cache EXCEPT ![req[p].entry.form.email] = req[p].entry]
    /\ Done(p)
    /\ UNCHANGED <<accounts, codes, links, tokens, proven, used, over, raced, fails>>

\* Mutant: the entry read for the code is read again to be written.
VerifySetLatest(p) ==
    /\ At(p, "verifySet")
    /\ LET e == req[p].entry.form.email
       IN IF cache[e].kind = "signup"
          THEN cache' = [cache EXCEPT ![e].otpVerified = TRUE]
          ELSE UNCHANGED cache
    /\ Done(p)
    /\ UNCHANGED <<accounts, codes, links, tokens, proven, used, over, raced, fails>>

\* verifyOtp compares with the hash it read, and goes on only if they agree.
VerifyGet(p) ==
    /\ At(p, "idle")
    /\ \E e \in Email, code \in 1..codes :
          /\ cache[e].kind = "signup" /\ cache[e].code = code
          /\ Goto(p, [at |-> "verifySet", entry |-> [cache[e] EXCEPT !.otpVerified = TRUE]])
          /\ proven' = proven \cup {cache[e].form}
    /\ UNCHANGED <<accounts, cache, codes, links, tokens, used, over, raced, fails>>

\* The entry as it was read is written back, whatever is there now.
VerifySet(p) ==
    /\ At(p, "verifySet")
    /\ cache' = [cache EXCEPT ![req[p].entry.form.email] = req[p].entry]
    /\ Done(p)
    /\ UNCHANGED <<accounts, codes, links, tokens, proven, used, over, raced, fails>>

(***************************************************************************)
(* Sign-up.                                                                *)
(***************************************************************************)
SignupGet(p) ==
    /\ At(p, "idle")
    /\ \E e \in Email :
          /\ cache[e].kind = "signup" /\ cache[e].otpVerified
          /\ Goto(p, [at |-> "signupFind", form |-> cache[e].form])
    /\ UNCHANGED <<accounts, cache, codes, links, tokens, proven, used, over, raced, fails>>

\* signupUser and signupCompany both look in the users' collection.
SignupFind(p) ==
    /\ At(p, "signupFind")
    /\ IF "user" \in Role /\ Exists("user", req[p].form.email) THEN Done(p)
       ELSE Goto(p, [req[p] EXCEPT !.at = "signupCreate"])
    /\ UNCHANGED <<accounts, cache, codes, links, tokens, proven, used, over, raced, fails>>

\* The insert, which the unique index on the address rejects for the second.
SignupCreate(p) ==
    /\ At(p, "signupCreate")
    /\ LET f == req[p].form
       IN IF Exists(f.role, f.email)
          THEN UNCHANGED accounts /\ Done(p)
          ELSE /\ accounts' = [accounts EXCEPT ![<<f.role, f.email>>] =
                                  [signup |-> f, isBlocked |-> FALSE]]
               /\ Goto(p, [req[p] EXCEPT !.at = "signupDelete"])
    /\ UNCHANGED <<cache, codes, links, tokens, proven, used, over, raced, fails>>

SignupDelete(p) ==
    /\ At(p, "signupDelete")
    /\ cache' = [cache EXCEPT ![req[p].form.email] = Miss]
    /\ Done(p)
    /\ UNCHANGED <<accounts, codes, links, tokens, proven, used, over, raced, fails>>

(***************************************************************************)
(* Password reset.                                                         *)
(***************************************************************************)
\* sendResetPasswordLink finds the account; a link is bounded by MaxLink.
LinkStart(p) ==
    /\ At(p, "idle")
    /\ Len(links) + Cardinality({q \in Request : At(q, "linkSet")}) < MaxLink
    /\ \E r \in Role, e \in Email :
          /\ Exists(r, e)
          /\ Goto(p, [at |-> "linkSet", role |-> r, email |-> e])
    /\ UNCHANGED <<accounts, cache, codes, links, tokens, proven, used, over, raced, fails>>

\* The entry is set before the link is mailed.
LinkSet(p) ==
    /\ At(p, "linkSet")
    /\ links' = Append(links, <<req[p].role, req[p].email>>)
    /\ cache' = [cache EXCEPT ![req[p].email] = [kind |-> "reset", link |-> Len(links) + 1]]
    /\ Done(p)
    /\ UNCHANGED <<accounts, codes, tokens, proven, used, over, raced, fails>>

\* Mutant: the link is not compared with the one that is stored.
ResetGetAny(p) ==
    /\ At(p, "idle")
    /\ \E l \in 1..Len(links) :
          /\ cache[links[l][2]] # Miss
          /\ Goto(p, [at |-> "resetUpdate", subject |-> l,
                      role |-> links[l][1], email |-> links[l][2], matches |-> TRUE])
          /\ raced' = IF About(Resetting, l) = {} THEN raced ELSE raced \cup {<<"link", l>>}
    /\ UNCHANGED <<accounts, cache, codes, links, tokens, proven, used, over, fails>>

\* resetPassword reads what is stored under the link's address; the new
\* password is hashed, a long await, before the two are compared.
ResetGet(p) ==
    /\ At(p, "idle")
    /\ \E l \in 1..Len(links) :
          /\ cache[links[l][2]] # Miss
          /\ LET same == cache[links[l][2]] = [kind |-> "reset", link |-> l]
             IN Goto(p, [at |-> IF same THEN "resetUpdate" ELSE "resetDelete", subject |-> l,
                         role |-> links[l][1], email |-> links[l][2], matches |-> same])
          /\ raced' = IF About(Resetting, l) = {} THEN raced ELSE raced \cup {<<"link", l>>}
    /\ UNCHANGED <<accounts, cache, codes, links, tokens, proven, used, over, fails>>

\* updatePassword; sessions stay, deleteAllForUser is never called.
ResetUpdate(p) ==
    /\ At(p, "resetUpdate")
    /\ used' = [used EXCEPT ![req[p].subject] = @ + 1]
    /\ Goto(p, [req[p] EXCEPT !.at = "resetDelete"])
    /\ UNCHANGED <<accounts, cache, codes, links, tokens, proven, over, raced, fails>>

\* Whether or not it matched, whatever is stored under the address goes.
ResetDelete(p) ==
    /\ At(p, "resetDelete")
    /\ cache' = [cache EXCEPT ![req[p].email] = Miss]
    /\ Done(p)
    /\ UNCHANGED <<accounts, codes, links, tokens, proven, used, over, raced, fails>>

RegistrationStep(p) ==
    \/ ResendGet(p) \/ ResendSet(p) \/ VerifyGet(p) \/ VerifySet(p)
    \/ SignupGet(p) \/ SignupFind(p) \/ SignupCreate(p) \/ SignupDelete(p)
    \/ LinkStart(p) \/ LinkSet(p) \/ ResetGet(p) \/ ResetUpdate(p) \/ ResetDelete(p)
=============================================================================

------------------------------ MODULE Accounts ------------------------------
(***************************************************************************)
(* Registration and sessions over one set of accounts and one cache.       *)
(***************************************************************************)
EXTENDS Registration, Sessions

AccountStep(p) == RegistrationStep(p) \/ SessionStep(p) \/ RequestFails(p)

AccountNext ==
    \/ \E p \in Request : AccountStep(p)
    \/ RequestOTP \/ CacheExpires \/ TokenExpires \/ Block \/ Unblock

AccountSpec == AccountInit /\ [][AccountNext]_accountVars

(***************************************************************************)
(* Properties.                                                             *)
(***************************************************************************)
\* An account holds the very form whose one-time password came back, and an
\* entry that says otpVerified does too, though codes are sent again, forms
\* resubmitted and entries written back stale between the steps of a sign-up,
\* and the same cache entry serves password resets.
SignedUpMeansProven ==
    /\ \A r \in Role, e \in Email :
          Exists(r, e) /\ accounts[<<r, e>>].signup # Null => accounts[<<r, e>>].signup \in proven
    /\ \A e \in Email : cache[e].kind = "signup" /\ cache[e].otpVerified => cache[e].form \in proven

\* A login has one refresh token stored at a time, the newest of its line, and
\* none once a logout has deleted the newest, unless two of its requests were
\* in flight at once: the find and the delete of a refresh are two awaits, and
\* the new token is saved in a third.  Clients log out with older tokens too, or
\* twice, and any await may reject; a logout with an older token ends nothing.
OneSessionPerLogin ==
    \A t \in 1..Len(tokens) :
        Stored(t) /\ <<"login", tokens[t].login>> \notin raced =>
            /\ tokens[t].login \notin over
            /\ Newest(t)

\* A reset link changes a password once, unless two requests brought it at once
\* or the deletion of its entry rejected.
LinkOnceUnlessRaced ==
    \A l \in 1..MaxLink : used[l] <= 1 \/ <<"link", l>> \in raced
=============================================================================

------------------------------ MODULE Sessions ------------------------------
(***************************************************************************)
(* Logging in, refreshing and logging out, and the administrator's block.  *)
(* A session is a line of refresh tokens, each exchanged for the next.     *)
(***************************************************************************)
EXTENDS AccountStore

\* Bound: a handler that may issue a token starts only while one is left.
RoomForToken ==
    Len(tokens) + Cardinality({p \in Request :
        req[p].at \in {"loginSave", "googleCreate", "refreshDelete", "refreshSave"}}) < MaxToken

Issue(r, e, login) ==
    tokens' = Append(tokens, [role |-> r, email |-> e, login |-> login, stored |-> TRUE])

\* deleting a key that is not there is no error.
Revoke(t) == tokens' = [tokens EXCEPT ![t].stored = FALSE]

(***************************************************************************)
(* Login.                                                                  *)
(***************************************************************************)
\* isBlocked is read with the account, before the password is compared.
LoginFind(p) ==
    /\ At(p, "idle") /\ RoomForToken
    /\ \E r \in Role, e \in Email :
          /\ Exists(r, e) /\ accounts[<<r, e>>].isBlocked = FALSE
          /\ accounts[<<r, e>>].signup # Null
          /\ Goto(p, [at |-> "loginSave", role |-> r, email |-> e])
    /\ UNCHANGED <<accounts, cache, codes, links, tokens, proven, used, over, raced, fails>>

\* loginWithGoogle finds the account by its googleId, which only an account
\* it made itself has; isBlocked is not looked at.
GoogleFind(p) ==
    /\ At(p, "idle") /\ RoomForToken
    /\ \E r \in Role, e \in Email :
          Goto(p, [at |-> IF Exists(r, e) /\ accounts[<<r, e>>].signup = Null
                          THEN "loginSave" ELSE "googleCreate",
                   role |-> r, email |-> e])
    /\ UNCHANGED <<accounts, cache, codes, links, tokens, proven, used, over, raced, fails>>

\* The insert, rejected when the address is taken.
GoogleCreate(p) ==
    /\ At(p, "googleCreate")
    /\ LET r == req[p].role
           e == req[p].email
       IN IF Exists(r, e)
          THEN UNCHANGED accounts /\ Done(p)
          ELSE /\ accounts' = [accounts EXCEPT ![<<r, e>>] = [signup |-> Null, isBlocked |-> FALSE]]
               /\ Goto(p, [req[p] EXCEPT !.at = "loginSave"])
    /\ UNCHANGED <<cache, codes, links, tokens, proven, used, over, raced, fails>>

\* Every login begins a line of its own, numbered by its first token.
LoginSave(p) ==
    /\ At(p, "loginSave")
    /\ Issue(req[p].role, req[p].email, Len(tokens) + 1)
    /\ Done(p)
    /\ UNCHANGED <<accounts, cache, codes, links, proven, used, over, raced, fails>>

(***************************************************************************)
(* Refresh and logout.                                                     *)
(***************************************************************************)
Meets(l) == IF About(Refreshing, l) = {} THEN raced ELSE raced \cup {<<"login", l>>}

\* The find; the account found later is there, and its isBlocked ignored.
RefreshFind(p) ==
    /\ At(p, "idle") /\ RoomForToken
    /\ \E t \in 1..Len(tokens) :
          /\ Stored(t)
          /\ Goto(p, [at |-> "refreshDelete", subject |-> tokens[t].login, token |-> t])
          /\ raced' = Meets(tokens[t].login)
    /\ UNCHANGED <<accounts, cache, codes, links, tokens, proven, used, over, fails>>

\* Mutant: the old token is left to expire.
RefreshKeep(p) ==
    /\ At(p, "refreshDelete")
    /\ Goto(p, [req[p] EXCEPT !.at = "refreshSave"])
    /\ UNCHANGED <<accounts, cache, codes, links, tokens, proven, used, over, raced, fails>>

RefreshDelete(p) ==
    /\ At(p, "refreshDelete")
    /\ Revoke(req[p].token)
    /\ Goto(p, [req[p] EXCEPT !.at = "refreshSave"])
    /\ UNCHANGED <<accounts, cache, codes, links, proven, used, over, raced, fails>>

RefreshSave(p) ==
    /\ At(p, "refreshSave")
    /\ LET t == tokens[req[p].token] IN Issue(t.role, t.email, t.login)
    /\ Done(p)
    /\ UNCHANGED <<accounts, cache, codes, links, proven, used, over, raced, fails>>

\* The token is whichever the cookie holds: an exchanged one still when the
\* answer to the refresh was lost, a deleted one when the logout is sent again.
LogoutStart(p) ==
    /\ At(p, "idle")
    /\ \E t \in 1..Len(tokens) :
          /\ Goto(p, [at |-> "logoutDelete", subject |-> tokens[t].login, token |-> t])
          /\ raced' = Meets(tokens[t].login)
    /\ UNCHANGED <<accounts, cache, codes, links, tokens, proven, used, over, fails>>

Newest(t) == \A s \in 1..Len(tokens) : tokens[s].login = tokens[t].login => s <= t

\* A token that was exchanged is gone already, and the login goes on.
LogoutDelete(p) ==
    /\ At(p, "logoutDelete")
    /\ Revoke(req[p].token)
    /\ over' = IF Newest(req[p].token) THEN over \cup {req[p].subject} ELSE over
    /\ Done(p)
    /\ UNCHANGED <<accounts, cache, codes, links, proven, used, raced, fails>>

\* The refresh token's own seven days are over.
TokenExpires ==
    /\ \E t \in 1..Len(tokens) : Stored(t) /\ Revoke(t)
    /\ UNCHANGED <<accounts, cache, codes, links, proven, used, over, raced, req, fails>>

(***************************************************************************)
(* The administrator, one write each.                                      *)
(***************************************************************************)
SetBlocked(flag) ==
    /\ \E r \in Role, e \in Email :
          /\ Exists(r, e)
          /\ accounts' = [accounts EXCEPT ![<<r, e>>].isBlocked = flag]
    /\ UNCHANGED <<cache, codes, links, tokens, proven, used, over, raced, req, fails>>

Block == SetBlocked(TRUE)

Unblock == SetBlocked(FALSE)

SessionStep(p) ==
    \/ LoginFind(p) \/ GoogleFind(p) \/ GoogleCreate(p) \/ LoginSave(p)
    \/ RefreshFind(p) \/ RefreshDelete(p) \/ RefreshSave(p)
    \/ LogoutStart(p) \/ LogoutDelete(p)
=============================================================================

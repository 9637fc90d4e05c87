---------------------------- MODULE AccountStore ----------------------------
(***************************************************************************)
(* The collections users and companies, the cache (Redis) that keeps       *)
(* sign-ups, reset links and refresh tokens, and the requests in flight    *)
(* over them.  One cache entry per e-mail address serves the sign-up and   *)
(* the password reset, of either role.                                     *)
(***************************************************************************)
EXTENDS Naturals, Sequences, FiniteSets

CONSTANTS
    Role,      \* "user" and "company", or one of them
    Email,     \* e-mail addresses
    Draft,     \* what a sign-up form says besides the address and the role
    Null,      \* nothing
    Request,   \* slots for requests in flight
    MaxCode,   \* bound on the one-time passwords mailed
    MaxLink,   \* bound on the reset links mailed
    MaxToken,  \* bound on the refresh tokens issued
    MaxFail    \* bound on requests that reject half way

ASSUME AccountAssumption ==
    /\ Role \subseteq {"user", "company"}
    /\ Null \notin Draft
    /\ IsFiniteSet(Request)
    /\ {MaxCode, MaxLink, MaxToken, MaxFail} \subseteq Nat

Form == [role: Role, email: Email, draft: Draft]

VARIABLES
    accounts,  \* users and companies, by role and email, unique in each
    cache,     \* the entry under each email
    codes,     \* one-time passwords mailed so far
    links,     \* reset links mailed, as <<role, email>>
    tokens,    \* refresh tokens issued: whose, from which login, still stored?
    proven,    \* history: the forms whose code came back
    used,      \* history: how often each link changed a password
    over,      \* history: logins whose newest token a logout deleted
    raced,     \* history: logins and links two requests were in flight about
    req,       \* what each slot is doing: the await it is at, its locals
    fails      \* requests that rejected half way so far

accountVars == <<accounts, cache, codes, links, tokens, proven, used, over, raced, req, fails>>

(***************************************************************************)
(* Documents and entries.                                                  *)
(***************************************************************************)
\* signup is the form the account was made of, Null for one made by Google.
Account == [signup: Form \cup {Null}, isBlocked: BOOLEAN]

NoAccount == [signup |-> Null, isBlocked |-> Null]

Exists(r, e) == accounts[<<r, e>>] # NoAccount

Miss == [kind |-> "none"]

Pending == [kind: {"signup"}, form: Form, code: Nat, otpVerified: BOOLEAN]

ResetEntry == [kind: {"reset"}, link: Nat]

Token == [role: Role, email: Email, login: Nat, stored: BOOLEAN]

Stored(t) == t \in 1..Len(tokens) /\ tokens[t].stored

(***************************************************************************)
(* Slots.                                                                  *)
(***************************************************************************)
Idle == [at |-> "idle"]

At(p, label) == req[p].at = label

Goto(p, r) == req' = [req EXCEPT ![p] = r]

Done(p) == Goto(p, Idle)

\* The slots in flight about a login or a link.
About(kind, k) == {p \in Request : req[p].at \in kind /\ req[p].subject = k}

Refreshing == {"refreshDelete", "refreshSave", "logoutDelete"}

Resetting == {"resetUpdate", "resetDelete"}

AccountRequest ==
    {Idle}
    \cup [at: {"resendSet", "verifySet"}, entry: Pending]
    \cup [at: {"signupFind", "signupCreate", "signupDelete"}, form: Form]
    \cup [at: {"linkSet"}, role: Role, email: Email]
    \cup [at: Resetting, subject: Nat, role: Role, email: Email, matches: BOOLEAN]
    \cup [at: {"loginSave", "googleCreate"}, role: Role, email: Email]
    \cup [at: Refreshing, subject: Nat, token: Nat]

AccountInit ==
    /\ accounts = [re \in Role \X Email |-> NoAccount]
    /\ cache = [e \in Email |-> Miss]
    /\ codes = 0
    /\ links = <<>>
    /\ tokens = <<>>
    /\ proven = {}
    /\ used = [l \in 1..MaxLink |-> 0]
    /\ over = {}
    /\ raced = {}
    /\ req = [p \in Request |-> Idle]
    /\ fails = 0

AccountsTypeOK ==
    /\ accounts \in [Role \X Email -> Account \cup {NoAccount}]
    /\ cache \in [Email -> {Miss} \cup Pending \cup ResetEntry]
    /\ codes \in Nat
    /\ links \in Seq(Role \X Email)
    /\ tokens \in Seq(Token)
    /\ proven \subseteq Form
    /\ used \in [1..MaxLink -> Nat]
    /\ over \subseteq Nat
    /\ raced \subseteq {"login", "link"} \X Nat
    /\ req \in [Request -> AccountRequest]
    /\ fails \in Nat

(***************************************************************************)
(* Any await may reject: the request ends there, its writes stay.  A reset *)
(* that has changed the password and not deleted its entry leaves the link *)
(* in use.                                                                 *)
(***************************************************************************)
RequestFails(p) ==
    /\ ~At(p, "idle")
    /\ fails < MaxFail
    /\ fails' = fails + 1
    /\ raced' = IF At(p, "resetDelete") THEN raced \cup {<<"link", req[p].subject>>}
                ELSE raced
    /\ Done(p)
    /\ UNCHANGED <<accounts, cache, codes, links, tokens, proven, used, over>>

\* An entry's time to live is over, or Redis evicts it.
CacheExpires ==
    /\ \E e \in Email : cache[e] # Miss /\ cache' = [cache EXCEPT ![e] = Miss]
    /\ UNCHANGED <<accounts, codes, links, tokens, proven, used, over, raced, req, fails>>
=============================================================================

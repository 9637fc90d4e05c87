---------------------------- MODULE AccountProofs ----------------------------
(***************************************************************************)
(* Type correctness of Accounts and its three safety properties, for any   *)
(* number of addresses, forms and requests in flight.                      *)
(***************************************************************************)
EXTENDS Accounts, TLAPS

-----------------------------------------------------------------------------
(***************************************************************************)
(* Types.                                                                  *)
(***************************************************************************)

\* The locals a slot holds at each await.
LEMMA AccountLocals ==
    ASSUME NEW r \in AccountRequest
    PROVE  /\ (r.at \in {"resendSet", "verifySet"} => r.entry \in Pending)
           /\ (r.at \in {"signupFind", "signupCreate", "signupDelete"} => r.form \in Form)
           /\ (r.at \in {"linkSet", "loginSave", "googleCreate"} =>
                 (r.role \in Role /\ r.email \in Email))
           /\ (r.at \in Resetting =>
                 (r.subject \in Nat /\ r.role \in Role /\ r.email \in Email /\ r.matches \in BOOLEAN))
           /\ (r.at \in Refreshing => (r.subject \in Nat /\ r.token \in Nat))
  BY DEF AccountRequest, Idle, Resetting, Refreshing

\* What a request that starts or moves on puts into its slot.
LEMMA AccountStarts ==
    /\ Idle \in AccountRequest
    /\ \A l \in {"resendSet", "verifySet"}, x \in Pending :
          [at |-> l, entry |-> x] \in AccountRequest
    /\ \A l \in {"signupFind", "signupCreate", "signupDelete"}, f \in Form :
          [at |-> l, form |-> f] \in AccountRequest
    /\ \A l \in {"linkSet", "loginSave", "googleCreate"}, r \in Role, e \in Email :
          [at |-> l, role |-> r, email |-> e] \in AccountRequest
    /\ \A l \in Resetting, n \in Nat, r \in Role, e \in Email, m \in BOOLEAN :
          [at |-> l, subject |-> n, role |-> r, email |-> e, matches |-> m] \in AccountRequest
    /\ \A l \in Refreshing, n \in Nat, t \in Nat :
          [at |-> l, subject |-> n, token |-> t] \in AccountRequest
  BY DEF AccountRequest

\* A slot that moves on keeps its locals.
LEMMA AccountMoves ==
    ASSUME NEW r \in AccountRequest
    PROVE  /\ (r.at = "signupFind" =>
                 /\ [r EXCEPT !.at = "signupCreate"] \in AccountRequest
                 /\ [r EXCEPT !.at = "signupCreate"] = [at |-> "signupCreate", form |-> r.form])
           /\ (r.at = "signupCreate" =>
                 /\ [r EXCEPT !.at = "signupDelete"] \in AccountRequest
                 /\ [r EXCEPT !.at = "signupDelete"] = [at |-> "signupDelete", form |-> r.form])
           /\ (r.at = "resetUpdate" =>
                 /\ [r EXCEPT !.at = "resetDelete"] \in AccountRequest
                 /\ [r EXCEPT !.at = "resetDelete"] =
                     [at |-> "resetDelete", subject |-> r.subject, role |-> r.role,
                      email |-> r.email, matches |-> r.matches])
           /\ (r.at = "googleCreate" =>
                 /\ [r EXCEPT !.at = "loginSave"] \in AccountRequest
                 /\ [r EXCEPT !.at = "loginSave"] =
                     [at |-> "loginSave", role |-> r.role, email |-> r.email])
           /\ (r.at = "refreshDelete" =>
                 /\ [r EXCEPT !.at = "refreshSave"] \in AccountRequest
                 /\ [r EXCEPT !.at = "refreshSave"] =
                     [at |-> "refreshSave", subject |-> r.subject, token |-> r.token])
<1>1. ASSUME r.at \in {"signupFind", "signupCreate"}, NEW l \in {"signupCreate", "signupDelete"}
      PROVE  /\ [r EXCEPT !.at = l] \in AccountRequest
             /\ [r EXCEPT !.at = l] = [at |-> l, form |-> r.form]
  <2>1. r \in [at: {"signupFind", "signupCreate", "signupDelete"}, form: Form]
    BY <1>1 DEF AccountRequest, Idle, Resetting, Refreshing
  <2>2. [r EXCEPT !.at = l] = [at |-> l, form |-> r.form]
    BY <2>1
  <2> QED
    BY <2>1, <2>2, AccountStarts
<1>2. ASSUME r.at = "resetUpdate"
      PROVE  /\ [r EXCEPT !.at = "resetDelete"] \in AccountRequest
             /\ [r EXCEPT !.at = "resetDelete"] =
                     [at |-> "resetDelete", subject |-> r.subject, role |-> r.role,
                      email |-> r.email, matches |-> r.matches]
  <2>1. r \in [at: Resetting, subject: Nat, role: Role, email: Email, matches: BOOLEAN]
    BY <1>2 DEF AccountRequest, Idle, Resetting, Refreshing
  <2>2. [r EXCEPT !.at = "resetDelete"] =
            [at |-> "resetDelete", subject |-> r.subject, role |-> r.role,
             email |-> r.email, matches |-> r.matches]
    BY <2>1
  <2> QED
    BY <2>1, <2>2, AccountStarts DEF Resetting
<1>3. ASSUME r.at = "googleCreate"
      PROVE  /\ [r EXCEPT !.at = "loginSave"] \in AccountRequest
             /\ [r EXCEPT !.at = "loginSave"] =
                     [at |-> "loginSave", role |-> r.role, email |-> r.email]
  <2>1. r \in [at: {"loginSave", "googleCreate"}, role: Role, email: Email]
    BY <1>3 DEF AccountRequest, Idle, Resetting, Refreshing
  <2>2. [r EXCEPT !.at = "loginSave"] = [at |-> "loginSave", role |-> r.role, email |-> r.email]
    BY <2>1
  <2> QED
    BY <2>1, <2>2, AccountStarts
<1>4. ASSUME r.at = "refreshDelete"
      PROVE  /\ [r EXCEPT !.at = "refreshSave"] \in AccountRequest
             /\ [r EXCEPT !.at = "refreshSave"] =
                     [at |-> "refreshSave", subject |-> r.subject, token |-> r.token]
  <2>1. r \in [at: Refreshing, subject: Nat, token: Nat]
    BY <1>4 DEF AccountRequest, Idle, Resetting, Refreshing
  <2>2. [r EXCEPT !.at = "refreshSave"] =
            [at |-> "refreshSave", subject |-> r.subject, token |-> r.token]
    BY <2>1
  <2> QED
    BY <2>1, <2>2, AccountStarts DEF Refreshing
<1> QED
  BY <1>1, <1>2, <1>3, <1>4

LEMMA AccountSlots ==
    ASSUME AccountsTypeOK, NEW p \in Request, NEW x, Goto(p, x)
    PROVE  /\ req'[p] = x
           /\ \A q \in Request \ {p} : req'[q] = req[q]
           /\ (x \in AccountRequest => req' \in [Request -> AccountRequest])
  BY DEF AccountsTypeOK, Goto

\* Appending to a sequence and changing an element of it.
LEMMA AppendProps ==
    ASSUME NEW S, NEW s \in Seq(S), NEW x \in S
    PROVE  /\ Append(s, x) \in Seq(S)
           /\ Len(Append(s, x)) = Len(s) + 1
           /\ \A i \in 1..Len(s) : Append(s, x)[i] = s[i]
           /\ Append(s, x)[Len(s) + 1] = x
  OBVIOUS

LEMMA RevokeProps ==
    ASSUME tokens \in Seq(Token), NEW t \in 1..Len(tokens), Revoke(t)
    PROVE  /\ tokens' \in Seq(Token)
           /\ Len(tokens') = Len(tokens)
           /\ \A s \in 1..Len(tokens) : /\ tokens'[s].login = tokens[s].login
                                        /\ (tokens'[s].stored => (tokens[s].stored /\ s # t))
<1>1. tokens' = [tokens EXCEPT ![t] = [tokens[t] EXCEPT !.stored = FALSE]]
  BY DEF Revoke
<1>2. tokens[t] \in Token
  OBVIOUS
<1>3. /\ [tokens[t] EXCEPT !.stored = FALSE] \in Token
      /\ [tokens[t] EXCEPT !.stored = FALSE].login = tokens[t].login
      /\ [tokens[t] EXCEPT !.stored = FALSE].stored = FALSE
  BY <1>2 DEF Token
<1> QED
  BY <1>1, <1>2, <1>3

LEMMA IssueProps ==
    ASSUME tokens \in Seq(Token), NEW r \in Role, NEW e \in Email, NEW l \in Nat, Issue(r, e, l)
    PROVE  /\ tokens' \in Seq(Token)
           /\ Len(tokens') = Len(tokens) + 1
           /\ \A s \in 1..Len(tokens) : tokens'[s] = tokens[s]
           /\ tokens'[Len(tokens) + 1].login = l
<1>1. [role |-> r, email |-> e, login |-> l, stored |-> TRUE] \in Token
  BY DEF Token
<1> QED
  BY <1>1, AppendProps DEF Issue

\* A token a refresh or a logout names was issued, to the login it is about.
Named ==
    \A p \in Request : req[p].at \in Refreshing =>
        /\ req[p].token \in 1..Len(tokens)
        /\ tokens[req[p].token].login = req[p].subject

LEMMA RegistrationTypes ==
    ASSUME AccountsTypeOK, NEW p \in Request, RegistrationStep(p)
    PROVE  AccountsTypeOK'
<1>t. /\ req[p] \in AccountRequest
      /\ accounts \in [Role \X Email -> Account \cup {NoAccount}]
      /\ cache \in [Email -> {Miss} \cup Pending \cup ResetEntry]
      /\ codes \in Nat /\ links \in Seq(Role \X Email)
      /\ proven \subseteq Form /\ used \in [1..MaxLink -> Nat]
      /\ raced \subseteq {"login", "link"} \X Nat
  BY DEF AccountsTypeOK
<1>f. /\ \A x \in AccountRequest : Goto(p, x) => req' \in [Request -> AccountRequest]
      /\ (Done(p) => req' \in [Request -> AccountRequest])
  BY AccountSlots, AccountStarts DEF Done
<1>c. \A e \in Email : /\ (cache[e].kind = "signup" => cache[e] \in Pending)
                       /\ (cache[e].kind = "reset" => cache[e] \in ResetEntry)
  BY <1>t DEF Miss, Pending, ResetEntry
<1>1. CASE ResendGet(p)
  <2>1. PICK e \in Email :
           /\ cache[e].kind = "signup"
           /\ Goto(p, [at |-> "resendSet", entry |-> [cache[e] EXCEPT !.code = codes + 1]])
    BY <1>1 DEF ResendGet
  <2>4. cache[e] \in Pending /\ codes + 1 \in Nat
    BY <2>1, <1>c, <1>t
  <2>2. [cache[e] EXCEPT !.code = codes + 1] \in Pending
    BY <2>4 DEF Pending
  <2>3. req' \in [Request -> AccountRequest]
    BY <2>1, <2>2, <1>f, AccountStarts
  <2> QED
    BY <1>1, <2>3 DEF ResendGet, AccountsTypeOK
<1>2. CASE ResendSet(p) \/ VerifySet(p)
  <2>1. req[p].entry \in Pending /\ req[p].entry.form.email \in Email
    BY <1>2, <1>t, AccountLocals DEF ResendSet, VerifySet, At, Pending, Form
  <2> QED
    BY <1>2, <1>f, <2>1 DEF ResendSet, VerifySet, AccountsTypeOK
<1>3. CASE VerifyGet(p)
  <2>1. PICK e \in Email :
           /\ cache[e].kind = "signup"
           /\ Goto(p, [at |-> "verifySet", entry |-> [cache[e] EXCEPT !.otpVerified = TRUE]])
           /\ proven' = proven \cup {cache[e].form}
    BY <1>3 DEF VerifyGet
  <2>2. [cache[e] EXCEPT !.otpVerified = TRUE] \in Pending /\ cache[e].form \in Form
    BY <2>1, <1>c DEF Pending
  <2>3. req' \in [Request -> AccountRequest] /\ proven' \subseteq Form
    BY <1>t, <2>1, <2>2, <1>f, AccountStarts
  <2> QED
    BY <1>3, <2>3 DEF VerifyGet, AccountsTypeOK
<1>4. CASE SignupGet(p)
  <2>1. PICK e \in Email :
           /\ cache[e].kind = "signup"
           /\ Goto(p, [at |-> "signupFind", form |-> cache[e].form])
    BY <1>4 DEF SignupGet
  <2>2. cache[e].form \in Form
    BY <2>1, <1>c DEF Pending
  <2>3. req' \in [Request -> AccountRequest]
    BY <2>1, <2>2, <1>f, AccountStarts
  <2> QED
    BY <1>4, <2>3 DEF SignupGet, AccountsTypeOK
<1>5. CASE SignupFind(p)
  <2>1. [req[p] EXCEPT !.at = "signupCreate"] \in AccountRequest
    BY <1>5, <1>t, AccountMoves DEF SignupFind, At
  <2>2. req' \in [Request -> AccountRequest]
    BY <1>5, <1>f, <2>1 DEF SignupFind
  <2> QED
    BY <1>5, <2>2 DEF SignupFind, AccountsTypeOK
<1>6. CASE SignupCreate(p)
  <2>1. req[p].form \in Form
    BY <1>6, <1>t, AccountLocals DEF SignupCreate, At
  <2>2. [req[p] EXCEPT !.at = "signupDelete"] \in AccountRequest
    BY <1>6, <1>t, AccountMoves DEF SignupCreate, At
  <2>3. req' \in [Request -> AccountRequest]
    BY <1>6, <1>f, <2>2 DEF SignupCreate
  <2>4. [signup |-> req[p].form, isBlocked |-> FALSE] \in Account
    BY <2>1 DEF Account
  <2>5. accounts' \in [Role \X Email -> Account \cup {NoAccount}]
    BY <1>6, <1>t, <2>4 DEF SignupCreate
  <2> QED
    BY <1>6, <2>3, <2>5 DEF SignupCreate, AccountsTypeOK
<1>7. CASE SignupDelete(p) \/ ResetDelete(p)
  <2>1. PICK e \in Email : cache' = [cache EXCEPT ![e] = Miss]
    BY <1>7, <1>t, AccountLocals DEF SignupDelete, ResetDelete, At, Form, Resetting
  <2>2. cache' \in [Email -> {Miss} \cup Pending \cup ResetEntry]
    BY <1>t, <2>1
  <2> QED
    BY <1>7, <1>f, <2>2 DEF SignupDelete, ResetDelete, AccountsTypeOK
<1>8. CASE LinkStart(p)
  <2>1. req' \in [Request -> AccountRequest]
    BY <1>8, <1>f, AccountStarts DEF LinkStart
  <2> QED
    BY <1>8, <2>1 DEF LinkStart, AccountsTypeOK
<1>9. CASE LinkSet(p)
  <2>1. req[p].role \in Role /\ req[p].email \in Email
    BY <1>9, <1>t, AccountLocals DEF LinkSet, At
  <2>2. links' \in Seq(Role \X Email)
    BY <1>9, <1>t, <2>1, AppendProps DEF LinkSet
  <2>3. [kind |-> "reset", link |-> Len(links) + 1] \in ResetEntry
    BY <1>t DEF ResetEntry
  <2>4. cache' \in [Email -> {Miss} \cup Pending \cup ResetEntry]
    BY <1>9, <1>t, <2>1, <2>3 DEF LinkSet
  <2> QED
    BY <1>9, <1>f, <2>2, <2>4 DEF LinkSet, AccountsTypeOK
<1>10. CASE ResetGet(p)
  <2>1. PICK l \in 1..Len(links), m \in BOOLEAN, a \in Resetting :
           /\ Goto(p, [at |-> a, subject |-> l,
                       role |-> links[l][1], email |-> links[l][2], matches |-> m])
           /\ raced' \subseteq raced \cup {<<"link", l>>}
    BY <1>10 DEF ResetGet, Resetting
  <2>2. links[l][1] \in Role /\ links[l][2] \in Email /\ l \in Nat
    BY <1>t
  <2>3. req' \in [Request -> AccountRequest]
    BY <2>1, <2>2, <1>f, AccountStarts
  <2>4. raced' \subseteq {"login", "link"} \X Nat
    BY <1>t, <2>1, <2>2
  <2> QED
    BY <1>10, <2>3, <2>4 DEF ResetGet, AccountsTypeOK
<1>11. CASE ResetUpdate(p)
  <2>1. [req[p] EXCEPT !.at = "resetDelete"] \in AccountRequest
    BY <1>11, <1>t, AccountMoves DEF ResetUpdate, At
  <2>2. used' \in [1..MaxLink -> Nat]
    <3>1. used' = [used EXCEPT ![req[p].subject] = used[req[p].subject] + 1]
      BY <1>11 DEF ResetUpdate
    <3>2. req[p].subject \in 1..MaxLink => used[req[p].subject] + 1 \in Nat
      BY <1>t
    <3> QED
      BY <1>t, <3>1, <3>2
  <2> QED
    BY <1>11, <1>f, <2>1, <2>2 DEF ResetUpdate, AccountsTypeOK
<1> QED
  BY <1>1, <1>2, <1>3, <1>4, <1>5, <1>6, <1>7, <1>8, <1>9, <1>10, <1>11 DEF RegistrationStep

LEMMA SessionTypes ==
    ASSUME AccountsTypeOK, Named, NEW p \in Request, SessionStep(p)
    PROVE  AccountsTypeOK'
<1>t. /\ req[p] \in AccountRequest
      /\ accounts \in [Role \X Email -> Account \cup {NoAccount}]
      /\ tokens \in Seq(Token) /\ over \subseteq Nat
      /\ raced \subseteq {"login", "link"} \X Nat
  BY DEF AccountsTypeOK
<1>f. /\ \A x \in AccountRequest : Goto(p, x) => req' \in [Request -> AccountRequest]
      /\ (Done(p) => req' \in [Request -> AccountRequest])
  BY AccountSlots, AccountStarts DEF Done
<1>m. \A l \in Nat : Meets(l) \subseteq {"login", "link"} \X Nat
  BY <1>t DEF Meets
<1>k. \A t \in 1..Len(tokens) : tokens[t] \in Token
  BY <1>t
<1>1. CASE LoginFind(p) \/ GoogleFind(p)
  <2>1. req' \in [Request -> AccountRequest]
    BY <1>1, <1>f, AccountStarts DEF LoginFind, GoogleFind
  <2> QED
    BY <1>1, <2>1 DEF LoginFind, GoogleFind, AccountsTypeOK
<1>2. CASE GoogleCreate(p)
  <2>1. req[p].role \in Role /\ req[p].email \in Email
    BY <1>2, <1>t, AccountLocals DEF GoogleCreate, At
  <2>2. [req[p] EXCEPT !.at = "loginSave"] \in AccountRequest
    BY <1>2, <1>t, AccountMoves DEF GoogleCreate, At
  <2>3. req' \in [Request -> AccountRequest]
    BY <1>2, <1>f, <2>2 DEF GoogleCreate
  <2>4. [signup |-> Null, isBlocked |-> FALSE] \in Account
    BY DEF Account
  <2>5. accounts' \in [Role \X Email -> Account \cup {NoAccount}]
    BY <1>2, <1>t, <2>4 DEF GoogleCreate
  <2> QED
    BY <1>2, <2>3, <2>5 DEF GoogleCreate, AccountsTypeOK
<1>3. CASE LoginSave(p)
  <2>1. req[p].role \in Role /\ req[p].email \in Email
    BY <1>3, <1>t, AccountLocals DEF LoginSave, At
  <2>2. tokens' \in Seq(Token)
    BY <1>3, <1>t, <2>1, IssueProps DEF LoginSave
  <2> QED
    BY <1>3, <1>f, <2>2 DEF LoginSave, AccountsTypeOK
<1>4. CASE RefreshFind(p)
  <2>1. PICK t \in 1..Len(tokens) :
           /\ Goto(p, [at |-> "refreshDelete", subject |-> tokens[t].login, token |-> t])
           /\ raced' = Meets(tokens[t].login)
    BY <1>4 DEF RefreshFind
  <2>2. tokens[t].login \in Nat /\ t \in Nat
    BY <1>k DEF Token
  <2>3. req' \in [Request -> AccountRequest]
    BY <2>1, <2>2, <1>f, AccountStarts DEF Refreshing
  <2>4. raced' \subseteq {"login", "link"} \X Nat
    BY <2>1, <2>2, <1>m
  <2> QED
    BY <1>4, <2>3, <2>4 DEF RefreshFind, AccountsTypeOK
<1>5. CASE RefreshDelete(p)
  <2>1. [req[p] EXCEPT !.at = "refreshSave"] \in AccountRequest
    BY <1>5, <1>t, AccountMoves DEF RefreshDelete, At
  <2>2. tokens' \in Seq(Token)
    BY <1>5, <1>t, RevokeProps DEF RefreshDelete, At, Refreshing, Named
  <2> QED
    BY <1>5, <1>f, <2>1, <2>2 DEF RefreshDelete, AccountsTypeOK
<1>6. CASE RefreshSave(p)
  <2> DEFINE t == tokens[req[p].token]
  <2>1. t \in Token
    BY <1>6, <1>k DEF RefreshSave, At, Refreshing, Named
  <2>2. Issue(t.role, t.email, t.login)
    BY <1>6 DEF RefreshSave
  <2>4. t.role \in Role /\ t.email \in Email /\ t.login \in Nat
    BY <2>1 DEF Token
  <2> HIDE DEF t
  <2>3. tokens' \in Seq(Token)
    BY <1>t, <2>2, <2>4, IssueProps
  <2> QED
    BY <1>6, <1>f, <2>3 DEF RefreshSave, AccountsTypeOK
<1>7. CASE LogoutStart(p)
  <2>1. PICK t \in 1..Len(tokens) :
           /\ Goto(p, [at |-> "logoutDelete", subject |-> tokens[t].login, token |-> t])
           /\ raced' = Meets(tokens[t].login)
    BY <1>7 DEF LogoutStart
  <2>2. tokens[t].login \in Nat /\ t \in Nat
    BY <1>k DEF Token
  <2>3. req' \in [Request -> AccountRequest]
    BY <2>1, <2>2, <1>f, AccountStarts DEF Refreshing
  <2>4. raced' \subseteq {"login", "link"} \X Nat
    BY <2>1, <2>2, <1>m
  <2> QED
    BY <1>7, <2>3, <2>4 DEF LogoutStart, AccountsTypeOK
<1>8. CASE LogoutDelete(p)
  <2>1. req[p].subject \in Nat
    BY <1>8, <1>t, AccountLocals DEF LogoutDelete, At, Refreshing
  <2>2. tokens' \in Seq(Token)
    BY <1>8, <1>t, RevokeProps DEF LogoutDelete, At, Refreshing, Named
  <2>3. over' \subseteq Nat
    BY <1>8, <1>t, <2>1 DEF LogoutDelete
  <2> QED
    BY <1>8, <1>f, <2>2, <2>3 DEF LogoutDelete, AccountsTypeOK
<1> QED
  BY <1>1, <1>2, <1>3, <1>4, <1>5, <1>6, <1>7, <1>8 DEF SessionStep

Unattended == RequestOTP \/ CacheExpires \/ TokenExpires \/ Block \/ Unblock

LEMMA UnattendedTypes ==
    ASSUME AccountsTypeOK, Unattended \/ (\E p \in Request : RequestFails(p))
    PROVE  AccountsTypeOK'
<1>t. /\ req \in [Request -> AccountRequest]
      /\ accounts \in [Role \X Email -> Account \cup {NoAccount}]
      /\ cache \in [Email -> {Miss} \cup Pending \cup ResetEntry]
      /\ tokens \in Seq(Token) /\ codes \in Nat /\ fails \in Nat
      /\ raced \subseteq {"login", "link"} \X Nat
  BY DEF AccountsTypeOK
<1>1. CASE RequestOTP
  <2>1. PICK f \in Form : cache' = [cache EXCEPT ![f.email] =
           [kind |-> "signup", form |-> f, code |-> codes + 1, otpVerified |-> FALSE]]
    BY <1>1 DEF RequestOTP
  <2>2. [kind |-> "signup", form |-> f, code |-> codes + 1, otpVerified |-> FALSE] \in Pending
    BY <1>t DEF Pending
  <2>3. cache' \in [Email -> {Miss} \cup Pending \cup ResetEntry]
    BY <1>t, <2>1, <2>2
  <2> QED
    BY <1>1, <1>t, <2>3 DEF RequestOTP, AccountsTypeOK
<1>2. CASE CacheExpires
  <2>1. cache' \in [Email -> {Miss} \cup Pending \cup ResetEntry]
    BY <1>2, <1>t DEF CacheExpires
  <2> QED
    BY <1>2, <2>1 DEF CacheExpires, AccountsTypeOK
<1>3. CASE TokenExpires
  <2>1. tokens' \in Seq(Token)
    BY <1>3, <1>t, RevokeProps DEF TokenExpires
  <2> QED
    BY <1>3, <2>1 DEF TokenExpires, AccountsTypeOK
<1>4. CASE Block \/ Unblock
  <2>1. PICK flag \in BOOLEAN : SetBlocked(flag)
    BY <1>4 DEF Block, Unblock
  <2>2. PICK r \in Role, e \in Email :
           /\ Exists(r, e)
           /\ accounts' = [accounts EXCEPT ![<<r, e>>].isBlocked = flag]
    BY <2>1 DEF SetBlocked
  <2>3. accounts[<<r, e>>] \in Account
    BY <1>t, <2>2 DEF Exists
  <2>4. [accounts[<<r, e>>] EXCEPT !.isBlocked = flag] \in Account
    BY <2>3 DEF Account
  <2>5. accounts' \in [Role \X Email -> Account \cup {NoAccount}]
    BY <1>t, <2>2, <2>4
  <2> QED
    BY <2>1, <2>5 DEF SetBlocked, AccountsTypeOK
<1>5. ASSUME NEW p \in Request, RequestFails(p)
      PROVE  AccountsTypeOK'
  <2>1. req' \in [Request -> AccountRequest]
    BY <1>5, AccountSlots, AccountStarts DEF RequestFails, Done
  <2>2. At(p, "resetDelete") \/ At(p, "logoutDelete") => req[p].subject \in Nat
    BY <1>t, AccountLocals DEF At, Resetting, Refreshing
  <2>3. raced' \subseteq {"login", "link"} \X Nat
    BY <1>5, <1>t, <2>2 DEF RequestFails
  <2> QED
    BY <1>5, <1>t, <2>1, <2>3 DEF RequestFails, AccountsTypeOK
<1> QED
  BY <1>1, <1>2, <1>3, <1>4, <1>5 DEF Unattended

-----------------------------------------------------------------------------
(***************************************************************************)
(* Sign-up: whatever says a form was proven, or is about to, is right.     *)
(***************************************************************************)

ProvenInv ==
    /\ SignedUpMeansProven
    /\ \A p \in Request :
          /\ (At(p, "verifySet") => req[p].entry.form \in proven)
          /\ ((At(p, "resendSet") /\ req[p].entry.otpVerified) => req[p].entry.form \in proven)
          /\ (req[p].at \in {"signupFind", "signupCreate"} => req[p].form \in proven)

\* What has to hold of a slot's new locals, and of what a step changes.
ProvenSlot(x) ==
    /\ (x.at = "verifySet" => x.entry.form \in proven')
    /\ ((x.at = "resendSet" /\ x.entry.otpVerified) => x.entry.form \in proven')
    /\ (x.at \in {"signupFind", "signupCreate"} => x.form \in proven')

LEMMA ProvenFrame ==
    ASSUME AccountsTypeOK, ProvenInv, proven \subseteq proven',
           \A r \in Role, e \in Email :
               \/ accounts'[<<r, e>>].signup = accounts[<<r, e>>].signup
                  /\ (Exists(r, e)' => Exists(r, e))
               \/ accounts'[<<r, e>>].signup \in proven' \cup {Null},
           \A e \in Email :
               \/ cache'[e] = cache[e]
               \/ (cache'[e].kind = "signup" /\ cache'[e].otpVerified) =>
                      cache'[e].form \in proven',
           \A q \in Request : req'[q] = req[q] \/ ProvenSlot(req'[q])
    PROVE  ProvenInv'
<1>1. SignedUpMeansProven'
  BY DEF ProvenInv, SignedUpMeansProven
<1>2. \A q \in Request : ProvenSlot(req'[q])
  BY DEF ProvenInv, ProvenSlot, At
<1> QED
  BY <1>1, <1>2 DEF ProvenInv, ProvenSlot, At

LEMMA ProvenRegistration ==
    ASSUME AccountsTypeOK, ProvenInv, NEW p \in Request, RegistrationStep(p)
    PROVE  ProvenInv'
<1>t. /\ req[p] \in AccountRequest
      /\ accounts \in [Role \X Email -> Account \cup {NoAccount}]
      /\ cache \in [Email -> {Miss} \cup Pending \cup ResetEntry]
  BY DEF AccountsTypeOK
<1>c. \A e \in Email : cache[e].kind = "signup" => cache[e] \in Pending
  BY <1>t DEF Miss, ResetEntry
<1>s. \A x : Goto(p, x) /\ ProvenSlot(x) =>
         \A q \in Request : req'[q] = req[q] \/ ProvenSlot(req'[q])
  <2> SUFFICES ASSUME NEW x, Goto(p, x), ProvenSlot(x), NEW q \in Request
               PROVE  req'[q] = req[q] \/ ProvenSlot(req'[q])
    OBVIOUS
  <2>1. req'[p] = x /\ \A r \in Request \ {p} : req'[r] = req[r]
    BY AccountSlots
  <2> QED
    BY <2>1
<1>i. ProvenSlot(Idle)
  BY DEF Idle, ProvenSlot
<1>1. CASE ResendGet(p)
  <2>1. PICK e \in Email :
           /\ cache[e].kind = "signup"
           /\ Goto(p, [at |-> "resendSet", entry |-> [cache[e] EXCEPT !.code = codes + 1]])
    BY <1>1 DEF ResendGet
  <2> DEFINE entry == [cache[e] EXCEPT !.code = codes + 1]
  <2>2. entry.form = cache[e].form /\ entry.otpVerified = cache[e].otpVerified
    BY <1>c, <2>1 DEF Pending
  <2>3. UNCHANGED <<accounts, cache, proven>>
    BY <1>1 DEF ResendGet
  <2>4. entry.otpVerified => entry.form \in proven'
    BY <2>1, <2>2, <2>3 DEF ProvenInv, SignedUpMeansProven
  <2>5. ProvenSlot([at |-> "resendSet", entry |-> entry])
    BY <2>4 DEF ProvenSlot
  <2>6. \A q \in Request : req'[q] = req[q] \/ ProvenSlot(req'[q])
    BY <1>s, <2>1, <2>5
  <2> QED
    BY <2>3, <2>6, ProvenFrame DEF Exists
<1>2. CASE ResendSet(p) \/ VerifySet(p)
  <2>1. \A q \in Request : req'[q] = req[q] \/ ProvenSlot(req'[q])
    BY <1>2, <1>s, <1>i DEF ResendSet, VerifySet, Done
  <2>2. /\ UNCHANGED <<accounts, proven>>
        /\ cache' = [cache EXCEPT ![req[p].entry.form.email] = req[p].entry]
    BY <1>2 DEF ResendSet, VerifySet
  <2>3. req[p].entry.otpVerified => req[p].entry.form \in proven
    BY <1>2 DEF ResendSet, VerifySet, At, ProvenInv
  <2>4. \A e \in Email : cache'[e] = cache[e] \/ cache'[e] = req[p].entry
    BY <1>t, <2>2
  <2> QED
    BY <2>1, <2>2, <2>3, <2>4, ProvenFrame DEF Exists
<1>3. CASE VerifyGet(p)
  <2>1. PICK e \in Email :
           /\ cache[e].kind = "signup"
           /\ Goto(p, [at |-> "verifySet", entry |-> [cache[e] EXCEPT !.otpVerified = TRUE]])
           /\ proven' = proven \cup {cache[e].form}
    BY <1>3 DEF VerifyGet
  <2>2. [cache[e] EXCEPT !.otpVerified = TRUE].form = cache[e].form
    BY <1>c, <2>1 DEF Pending
  <2>3. ProvenSlot([at |-> "verifySet", entry |-> [cache[e] EXCEPT !.otpVerified = TRUE]])
    <3> DEFINE entry == [cache[e] EXCEPT !.otpVerified = TRUE]
    <3>1. entry.form \in proven'
      BY <2>1, <2>2
    <3> HIDE DEF entry
    <3>2. ProvenSlot([at |-> "verifySet", entry |-> entry])
      BY <3>1 DEF ProvenSlot
    <3> QED
      BY <3>2 DEF entry
  <2>4. \A q \in Request : req'[q] = req[q] \/ ProvenSlot(req'[q])
    BY <1>s, <2>1, <2>3
  <2>5. UNCHANGED <<accounts, cache>> /\ proven \subseteq proven'
    BY <1>3, <2>1 DEF VerifyGet
  <2> QED
    BY <2>4, <2>5, ProvenFrame DEF Exists
<1>4. CASE SignupGet(p)
  <2>1. PICK e \in Email :
           /\ cache[e].kind = "signup" /\ cache[e].otpVerified
           /\ Goto(p, [at |-> "signupFind", form |-> cache[e].form])
    BY <1>4 DEF SignupGet
  <2>2. UNCHANGED <<accounts, cache, proven>>
    BY <1>4 DEF SignupGet
  <2>3. ProvenSlot([at |-> "signupFind", form |-> cache[e].form])
    BY <2>1, <2>2 DEF ProvenSlot, ProvenInv, SignedUpMeansProven
  <2>4. \A q \in Request : req'[q] = req[q] \/ ProvenSlot(req'[q])
    BY <1>s, <2>1, <2>3
  <2> QED
    BY <2>2, <2>4, ProvenFrame DEF Exists
<1>5. CASE SignupFind(p)
  <2>1. UNCHANGED <<accounts, cache, proven>> /\ req[p].at = "signupFind"
    BY <1>5 DEF SignupFind, At
  <2>2. ProvenSlot([req[p] EXCEPT !.at = "signupCreate"])
    <3>1. [req[p] EXCEPT !.at = "signupCreate"] = [at |-> "signupCreate", form |-> req[p].form]
      BY <1>t, <2>1, AccountMoves
    <3>2. req[p].form \in proven'
      BY <2>1 DEF ProvenInv
    <3>3. ProvenSlot([at |-> "signupCreate", form |-> req[p].form])
      BY <3>2 DEF ProvenSlot
    <3> QED
      BY <3>1, <3>3
  <2>3. \A q \in Request : req'[q] = req[q] \/ ProvenSlot(req'[q])
    BY <1>5, <1>s, <1>i, <2>2 DEF SignupFind, Done
  <2> QED
    BY <2>1, <2>3, ProvenFrame DEF Exists
<1>6. CASE SignupCreate(p)
  <2>1. /\ UNCHANGED <<cache, proven>> /\ req[p].at = "signupCreate"
        /\ req[p].form \in proven
    BY <1>6 DEF SignupCreate, At, ProvenInv
  <2>2. ProvenSlot([req[p] EXCEPT !.at = "signupDelete"])
    BY <1>t, <2>1, AccountMoves DEF ProvenSlot
  <2>3. \A q \in Request : req'[q] = req[q] \/ ProvenSlot(req'[q])
    BY <1>6, <1>s, <1>i, <2>2 DEF SignupCreate, Done
  <2>4. \A r \in Role, e \in Email :
           \/ accounts'[<<r, e>>] = accounts[<<r, e>>]
           \/ accounts'[<<r, e>>] = [signup |-> req[p].form, isBlocked |-> FALSE]
    BY <1>6, <1>t DEF SignupCreate
  <2>5. \A r \in Role, e \in Email :
           \/ accounts'[<<r, e>>].signup = accounts[<<r, e>>].signup
              /\ (Exists(r, e)' => Exists(r, e))
           \/ accounts'[<<r, e>>].signup \in proven' \cup {Null}
    <3> SUFFICES ASSUME NEW r \in Role, NEW e \in Email
                 PROVE  \/ accounts'[<<r, e>>] = accounts[<<r, e>>]
                        \/ accounts'[<<r, e>>].signup \in proven'
      BY DEF Exists
    <3>1. CASE accounts'[<<r, e>>] = [signup |-> req[p].form, isBlocked |-> FALSE]
      <4>1. accounts'[<<r, e>>].signup = req[p].form
        BY <3>1
      <4> QED
        BY <4>1, <2>1
    <3> QED
      BY <2>4, <3>1
  <2> QED
    BY <2>1, <2>3, <2>5, ProvenFrame
<1>7. CASE SignupDelete(p) \/ ResetDelete(p)
  <2>1. \A q \in Request : req'[q] = req[q] \/ ProvenSlot(req'[q])
    BY <1>7, <1>s, <1>i DEF SignupDelete, ResetDelete, Done
  <2>2. /\ UNCHANGED <<accounts, proven>>
        /\ \A e \in Email : cache'[e] = cache[e] \/ cache'[e] = Miss
    BY <1>7, <1>t DEF SignupDelete, ResetDelete
  <2> QED
    BY <2>1, <2>2, ProvenFrame DEF Exists, Miss
<1>8. CASE LinkSet(p)
  <2>1. \A q \in Request : req'[q] = req[q] \/ ProvenSlot(req'[q])
    BY <1>8, <1>s, <1>i DEF LinkSet, Done
  <2>2. /\ UNCHANGED <<accounts, proven>>
        /\ \A e \in Email : cache'[e] = cache[e] \/ cache'[e].kind = "reset"
    BY <1>8, <1>t DEF LinkSet
  <2> QED
    BY <2>1, <2>2, ProvenFrame DEF Exists
<1>9. CASE LinkStart(p) \/ ResetGet(p) \/ ResetUpdate(p)
  <2>1. \E x : Goto(p, x) /\ x.at \in {"linkSet", "resetUpdate", "resetDelete"}
    <3>1. CASE LinkStart(p)
      BY <3>1 DEF LinkStart
    <3>2. CASE ResetGet(p)
      BY <3>2 DEF ResetGet
    <3>3. CASE ResetUpdate(p)
      <4>1. [req[p] EXCEPT !.at = "resetDelete"].at = "resetDelete"
        BY <3>3, <1>t, AccountMoves DEF ResetUpdate, At
      <4> QED
        BY <3>3, <4>1 DEF ResetUpdate
    <3> QED
      BY <1>9, <3>1, <3>2, <3>3
  <2>2. \A q \in Request : req'[q] = req[q] \/ ProvenSlot(req'[q])
    BY <1>s, <2>1 DEF ProvenSlot
  <2>3. UNCHANGED <<accounts, cache, proven>>
    BY <1>9 DEF LinkStart, ResetGet, ResetUpdate
  <2> QED
    BY <2>2, <2>3, ProvenFrame DEF Exists
<1> QED
  BY <1>1, <1>2, <1>3, <1>4, <1>5, <1>6, <1>7, <1>8, <1>9 DEF RegistrationStep

\* A request about a session takes up a token, or none.
LEMMA SessionGoes ==
    ASSUME AccountsTypeOK, NEW p \in Request, SessionStep(p) \/ RequestFails(p)
    PROVE  \E x : Goto(p, x) /\ x.at \in Refreshing \cup {"idle", "loginSave", "googleCreate"}
<1>t. req[p] \in AccountRequest
  BY DEF AccountsTypeOK
<1>1. CASE LoginFind(p)
  BY <1>1 DEF LoginFind
<1>7. CASE GoogleFind(p)
  <2>1. PICK r \in Role, e \in Email, l \in {"loginSave", "googleCreate"} :
           Goto(p, [at |-> l, role |-> r, email |-> e])
    BY <1>7 DEF GoogleFind
  <2> QED
    BY <2>1
<1>2. CASE GoogleCreate(p)
  <2>1. [req[p] EXCEPT !.at = "loginSave"].at = "loginSave"
    BY <1>2, <1>t, AccountMoves DEF GoogleCreate, At
  <2>2. Idle.at = "idle"
    BY DEF Idle
  <2> QED
    BY <1>2, <2>1, <2>2 DEF GoogleCreate, Done
<1>3. CASE LoginSave(p) \/ RefreshSave(p) \/ LogoutDelete(p) \/ RequestFails(p)
  BY <1>3 DEF LoginSave, RefreshSave, LogoutDelete, RequestFails, Done, Idle
<1>4. CASE RefreshFind(p)
  BY <1>4 DEF RefreshFind, Refreshing
<1>5. CASE RefreshDelete(p)
  <2>1. [req[p] EXCEPT !.at = "refreshSave"].at = "refreshSave"
    BY <1>5, <1>t, AccountMoves DEF RefreshDelete, At
  <2> QED
    BY <1>5, <2>1 DEF RefreshDelete, Refreshing
<1>6. CASE LogoutStart(p)
  BY <1>6 DEF LogoutStart, Refreshing
<1> QED
  BY <1>1, <1>2, <1>3, <1>4, <1>5, <1>6, <1>7 DEF SessionStep

LEMMA ProvenElsewhere ==
    ASSUME AccountsTypeOK, ProvenInv,
           \/ \E p \in Request : SessionStep(p) \/ RequestFails(p)
           \/ Unattended
           \/ UNCHANGED accountVars
    PROVE  ProvenInv'
<1>t. /\ req \in [Request -> AccountRequest]
      /\ accounts \in [Role \X Email -> Account \cup {NoAccount}]
      /\ cache \in [Email -> {Miss} \cup Pending \cup ResetEntry]
  BY DEF AccountsTypeOK
<1>1. ASSUME NEW p \in Request, SessionStep(p) \/ RequestFails(p)
      PROVE  ProvenInv'
  <2>2. \A q \in Request : req'[q] = req[q] \/ ProvenSlot(req'[q])
    <3>1. PICK x : Goto(p, x) /\ x.at \in Refreshing \cup {"idle", "loginSave", "googleCreate"}
      BY <1>1, SessionGoes
    <3>2. req'[p] = x /\ \A q \in Request \ {p} : req'[q] = req[q]
      BY <3>1, AccountSlots
    <3> QED
      BY <3>1, <3>2 DEF ProvenSlot, Refreshing
  <2>3. UNCHANGED <<cache, proven>>
    BY <1>1 DEF SessionStep, LoginFind, GoogleFind, GoogleCreate, LoginSave, RefreshFind,
                RefreshDelete, RefreshSave, LogoutStart, LogoutDelete, RequestFails
  <2>4. \A r \in Role, e \in Email :
           \/ accounts'[<<r, e>>] = accounts[<<r, e>>]
           \/ accounts'[<<r, e>>] = [signup |-> Null, isBlocked |-> FALSE]
    <3>1. CASE GoogleCreate(p)
      BY <3>1, <1>t DEF GoogleCreate
    <3>2. CASE UNCHANGED accounts
      BY <3>2
    <3> QED
      BY <1>1, <3>1, <3>2 DEF SessionStep, LoginFind, GoogleFind, LoginSave, RefreshFind,
                RefreshDelete, RefreshSave, LogoutStart, LogoutDelete, RequestFails
  <2> QED
    BY <2>2, <2>3, <2>4, ProvenFrame DEF Exists
<1>2. CASE RequestOTP
  <2>1. UNCHANGED <<accounts, proven, req>>
    BY <1>2 DEF RequestOTP
  <2>2. \A e \in Email : cache'[e] = cache[e] \/ cache'[e].otpVerified = FALSE
    BY <1>2, <1>t DEF RequestOTP
  <2> QED
    BY <2>1, <2>2, ProvenFrame DEF Exists
<1>3. CASE CacheExpires
  <2>1. UNCHANGED <<accounts, proven, req>>
    BY <1>3 DEF CacheExpires
  <2>2. \A e \in Email : cache'[e] = cache[e] \/ cache'[e] = Miss
    BY <1>3, <1>t DEF CacheExpires
  <2> QED
    BY <2>1, <2>2, ProvenFrame DEF Exists, Miss
<1>4. CASE Block \/ Unblock
  <2>1. PICK flag \in BOOLEAN : SetBlocked(flag)
    BY <1>4 DEF Block, Unblock
  <2>2. UNCHANGED <<cache, proven, req>>
    BY <2>1 DEF SetBlocked
  <2>3. PICK r \in Role, e \in Email :
           /\ Exists(r, e)
           /\ accounts' = [accounts EXCEPT ![<<r, e>>].isBlocked = flag]
    BY <2>1 DEF SetBlocked
  <2>4. accounts[<<r, e>>] \in Account
    BY <1>t, <2>3 DEF Exists
  <2>5. accounts'[<<r, e>>].signup = accounts[<<r, e>>].signup
    BY <1>t, <2>3, <2>4 DEF Account
  <2>6. \A b \in Role, f \in Email :
           accounts'[<<b, f>>] = accounts[<<b, f>>] \/ (b = r /\ f = e)
    BY <1>t, <2>3
  <2>7. \A b \in Role, f \in Email :
           \/ accounts'[<<b, f>>].signup = accounts[<<b, f>>].signup
              /\ (Exists(b, f)' => Exists(b, f))
           \/ accounts'[<<b, f>>].signup \in proven' \cup {Null}
    BY <2>3, <2>5, <2>6 DEF Exists
  <2> QED
    BY <2>2, <2>7, ProvenFrame
<1>5. CASE TokenExpires \/ UNCHANGED accountVars
  <2>1. UNCHANGED <<accounts, cache, proven, req>>
    BY <1>5 DEF TokenExpires, accountVars
  <2> QED
    BY <2>1, ProvenFrame DEF Exists
<1> QED
  BY <1>1, <1>2, <1>3, <1>4, <1>5 DEF Unattended

-----------------------------------------------------------------------------
(***************************************************************************)
(* Sessions: of a login nothing raced about, only the newest token is      *)
(* stored, and a request in flight has it in hand.                         *)
(***************************************************************************)

Raced(l) == <<"login", l>> \in raced

LastOf(ts, t) == \A s \in 1..Len(ts) : ts[s].login = ts[t].login => s <= t

Last(t) == LastOf(tokens, t)

LoginsBegun ==
    /\ \A t \in 1..Len(tokens) : tokens[t].login \in 1..t
    /\ over \subseteq 1..Len(tokens)

MeetingsRecorded ==
    \A p, q \in Request :
        (/\ p # q
         /\ req[p].at \in Refreshing /\ req[q].at \in Refreshing
         /\ req[p].subject = req[q].subject) => Raced(req[p].subject)

StoredIsLast ==
    \A t \in 1..Len(tokens) :
        (tokens[t].stored /\ ~Raced(tokens[t].login)) => (tokens[t].login \notin over /\ Last(t))

Holding ==
    \A p \in Request : (req[p].at \in Refreshing /\ ~Raced(req[p].subject)) =>
        /\ (req[p].at # "logoutDelete" => req[p].subject \notin over)
        /\ (req[p].at = "refreshDelete" => Last(req[p].token))
        /\ (req[p].at = "refreshSave" =>
               \A t \in 1..Len(tokens) : tokens[t].login = req[p].subject => ~tokens[t].stored)

SessionInv == LoginsBegun /\ Named /\ MeetingsRecorded /\ StoredIsLast /\ Holding

\* Tokens may be deleted and lines of them marked; no request takes one up.
LEMMA SessionFrame ==
    ASSUME SessionInv, Len(tokens') = Len(tokens), over' = over, raced \subseteq raced',
           \A t \in 1..Len(tokens) : /\ tokens'[t].login = tokens[t].login
                                     /\ (tokens'[t].stored => tokens[t].stored),
           \A q \in Request : req'[q] = req[q] \/ req'[q].at \notin Refreshing
    PROVE  SessionInv'
<1>1. \A q \in Request : req'[q].at \in Refreshing => (req'[q] = req[q] /\ req[q].at \in Refreshing)
  OBVIOUS
<1>2. \A l : Raced(l) => Raced(l)'
  BY DEF Raced
<1>3. \A t \in 1..Len(tokens) : Last(t) => Last(t)'
  BY DEF Last, LastOf
<1>6. Refreshing' = Refreshing
  BY DEF Refreshing
<1>4. LoginsBegun' /\ Named'
  BY <1>1, <1>6 DEF SessionInv, LoginsBegun, Named
<1>5. MeetingsRecorded'
  BY <1>1, <1>2, <1>6 DEF SessionInv, MeetingsRecorded
<1>7. StoredIsLast'
  BY <1>2, <1>3 DEF SessionInv, StoredIsLast, Last, Raced
<1>8. Holding'
  <2> SUFFICES ASSUME NEW p \in Request, req'[p].at \in Refreshing, <<"login", req'[p].subject>> \notin raced'
               PROVE  /\ (req'[p].at # "logoutDelete" => req'[p].subject \notin over')
                      /\ (req'[p].at = "refreshDelete" => LastOf(tokens', req'[p].token))
                      /\ (req'[p].at = "refreshSave" =>
                            \A t \in 1..Len(tokens') :
                               tokens'[t].login = req'[p].subject => ~tokens'[t].stored)
    BY <1>6 DEF Holding, Last, Raced
  <2>1. /\ req'[p] = req[p] /\ req[p].at \in Refreshing
        /\ ~Raced(req[p].subject)
    BY <1>1, <1>2 DEF Raced
  <2>2. req[p].token \in 1..Len(tokens)
    BY <2>1 DEF SessionInv, Named
  <2>3. /\ (req[p].at # "logoutDelete" => req[p].subject \notin over)
        /\ (req[p].at = "refreshDelete" => Last(req[p].token))
        /\ (req[p].at = "refreshSave" =>
               \A t \in 1..Len(tokens) : tokens[t].login = req[p].subject => ~tokens[t].stored)
    BY <2>1 DEF SessionInv, Holding
  <2>4. req'[p].at = "refreshDelete" => LastOf(tokens', req'[p].token)
    BY <2>1, <2>2, <2>3, <1>3 DEF Last
  <2>5. req'[p].at = "refreshSave" =>
            \A t \in 1..Len(tokens') :
               tokens'[t].login = req'[p].subject => ~tokens'[t].stored
    BY <2>1, <2>3
  <2> QED
    BY <2>1, <2>3, <2>4, <2>5
<1> QED
  BY <1>4, <1>5, <1>7, <1>8 DEF SessionInv

\* A find of a stored token, or a logout with any.
LEMMA SessionTake ==
    ASSUME AccountsTypeOK, SessionInv, NEW p \in Request, NEW t \in 1..Len(tokens),
           NEW l \in {"refreshDelete", "logoutDelete"},
           Goto(p, [at |-> l, subject |-> tokens[t].login, token |-> t]),
           raced' = Meets(tokens[t].login), UNCHANGED <<tokens, over>>,
           l = "refreshDelete" /\ ~Raced(tokens[t].login) => (tokens[t].login \notin over /\ Last(t))
    PROVE  SessionInv'
<1>1. /\ req'[p] = [at |-> l, subject |-> tokens[t].login, token |-> t]
      /\ \A q \in Request \ {p} : req'[q] = req[q]
  BY AccountSlots
<1>p. /\ req'[p].at = l /\ req'[p].subject = tokens[t].login /\ req'[p].token = t
      /\ l \in Refreshing /\ l # "refreshSave"
  BY <1>1 DEF Refreshing
<1>2. /\ \A k : Raced(k) => Raced(k)'
      /\ ((\E q \in Request : req[q].at \in Refreshing /\ req[q].subject = tokens[t].login)
            => Raced(tokens[t].login)')
  BY DEF Raced, Meets, About
<1>3. Refreshing' = Refreshing
  BY DEF Refreshing
<1>4. \A s : Last(s)' <=> Last(s)
  BY DEF Last, LastOf
<1>5. LoginsBegun'
  BY DEF SessionInv, LoginsBegun
<1>6. Named'
  BY <1>1, <1>p, <1>3 DEF SessionInv, Named
<1>7. MeetingsRecorded'
  BY <1>1, <1>p, <1>2, <1>3 DEF SessionInv, MeetingsRecorded
<1>8. StoredIsLast'
  BY <1>2, <1>4 DEF SessionInv, StoredIsLast, Last, Raced
<1>9. Holding'
  <2> SUFFICES ASSUME NEW q \in Request, req'[q].at \in Refreshing, <<"login", req'[q].subject>> \notin raced'
               PROVE  /\ (req'[q].at # "logoutDelete" => req'[q].subject \notin over')
                      /\ (req'[q].at = "refreshDelete" => LastOf(tokens', req'[q].token))
                      /\ (req'[q].at = "refreshSave" =>
                            \A s \in 1..Len(tokens') :
                               tokens'[s].login = req'[q].subject => ~tokens'[s].stored)
    BY <1>3 DEF Holding, Last, Raced
  <2>1. CASE q = p
    BY <2>1, <1>p, <1>2, <1>4 DEF Raced, Last
  <2>2. CASE q # p
    BY <2>2, <1>1, <1>2, <1>4 DEF SessionInv, Holding, Last, Raced
  <2> QED
    BY <2>1, <2>2
<1> QED
  BY <1>5, <1>6, <1>7, <1>8, <1>9 DEF SessionInv

\* The token a refresh or a logout has in hand is deleted.
LEMMA SessionRevoke ==
    ASSUME AccountsTypeOK, SessionInv, NEW p \in Request, UNCHANGED raced, Revoke(req[p].token),
           \/ /\ At(p, "refreshDelete") /\ UNCHANGED over
              /\ Goto(p, [req[p] EXCEPT !.at = "refreshSave"])
           \/ /\ At(p, "logoutDelete") /\ Done(p)
              /\ over' = IF Last(req[p].token) THEN over \cup {req[p].subject} ELSE over
    PROVE  SessionInv'
<1> DEFINE t == req[p].token
           k == req[p].subject
<1>t. /\ req[p] \in AccountRequest /\ tokens \in Seq(Token)
      /\ req[p].at \in Refreshing
      /\ t \in 1..Len(tokens) /\ tokens[t].login = k
  BY DEF AccountsTypeOK, SessionInv, Named, At, Refreshing
<1>v. /\ Len(tokens') = Len(tokens)
      /\ \A s \in 1..Len(tokens) : /\ tokens'[s].login = tokens[s].login
                                   /\ (tokens'[s].stored => (tokens[s].stored /\ s # t))
  BY <1>t, RevokeProps
<1>1. \A q \in Request \ {p} : req'[q] = req[q]
  BY AccountSlots DEF Done
<1>2. \/ /\ At(p, "refreshDelete") /\ req'[p].at = "refreshSave" /\ req'[p].subject = k /\ req'[p].token = t
         /\ UNCHANGED over
      \/ /\ At(p, "logoutDelete") /\ req'[p].at \notin Refreshing
         /\ over' = IF Last(t) THEN over \cup {k} ELSE over
  <2>1. CASE At(p, "refreshDelete")
    <3>1. req'[p] = [at |-> "refreshSave", subject |-> k, token |-> t]
      BY <2>1, <1>t, AccountMoves, AccountSlots, ZenonT(40) DEF At
    <3> QED
      BY <2>1, <3>1 DEF At
  <2>2. CASE At(p, "logoutDelete")
    <3>1. req'[p] = Idle
      BY <2>2, AccountSlots DEF At, Done
    <3> QED
      BY <2>2, <3>1 DEF At, Idle, Refreshing
  <2> QED
    BY <2>1, <2>2
<1>3. /\ \A l : Raced(l)' <=> Raced(l)
      /\ Refreshing' = Refreshing
  BY DEF Raced, Refreshing
<1>4. \A s \in 1..Len(tokens) : Last(s) => Last(s)'
  BY <1>v DEF Last, LastOf
<1>5. ~Raced(k) => /\ (At(p, "refreshDelete") => (Last(t) /\ k \notin over))
                   /\ \A q \in Request \ {p} : req[q].at \in Refreshing => req[q].subject # k
  BY <1>t DEF SessionInv, Holding, MeetingsRecorded, At
<1>6. ~Raced(k) /\ Last(t) => \A s \in 1..Len(tokens) : tokens[s].login = k => ~tokens'[s].stored
  <2> SUFFICES ASSUME ~Raced(k), Last(t), NEW s \in 1..Len(tokens), tokens[s].login = k, tokens'[s].stored
               PROVE  FALSE
    OBVIOUS
  <2>1. tokens[s].stored /\ s # t
    BY <1>v
  <2>2. Last(s)
    BY <2>1 DEF SessionInv, StoredIsLast, Last, Raced
  <2>3. s <= t /\ t <= s
    BY <2>2, <1>t DEF Last, LastOf
  <2> QED
    BY <2>1, <2>3, <1>t
<1> HIDE DEF t, k
<1>7. LoginsBegun'
  <2>1. k \in 1..Len(tokens)
    BY <1>t DEF SessionInv, LoginsBegun
  <2> QED
    BY <1>v, <1>2, <2>1 DEF SessionInv, LoginsBegun
<1>8. Named'
  BY <1>1, <1>2, <1>3, <1>t, <1>v DEF SessionInv, Named
<1>9. MeetingsRecorded'
  <2>1. \A q \in Request : req'[q].at \in Refreshing =>
           (req[q].at \in Refreshing /\ req'[q].subject = req[q].subject)
    BY <1>1, <1>2, <1>t DEF k
  <2> QED
    BY <2>1, <1>3 DEF SessionInv, MeetingsRecorded
<1>10. StoredIsLast'
  <2> SUFFICES ASSUME NEW s \in 1..Len(tokens), tokens'[s].stored, <<"login", tokens'[s].login>> \notin raced'
               PROVE  tokens'[s].login \notin over' /\ LastOf(tokens', s)
    BY <1>v DEF StoredIsLast, Last, Raced
  <2>1. tokens[s].stored /\ ~Raced(tokens[s].login) /\ tokens'[s].login = tokens[s].login
    BY <1>v, <1>3 DEF Raced
  <2>2. tokens[s].login \notin over /\ Last(s)
    BY <2>1 DEF SessionInv, StoredIsLast, Last, Raced
  <2>3. tokens[s].login # k \/ ~Last(t)
    BY <2>1, <1>6
  <2>4. tokens[s].login \notin over'
    BY <2>2, <2>3, <1>2
  <2> QED
    BY <2>1, <2>2, <2>4, <1>4 DEF Last, Raced
<1>11. Holding'
  <2> SUFFICES ASSUME NEW q \in Request, req'[q].at \in Refreshing, <<"login", req'[q].subject>> \notin raced'
               PROVE  /\ (req'[q].at # "logoutDelete" => req'[q].subject \notin over')
                      /\ (req'[q].at = "refreshDelete" => LastOf(tokens', req'[q].token))
                      /\ (req'[q].at = "refreshSave" =>
                            \A s \in 1..Len(tokens') :
                               tokens'[s].login = req'[q].subject => ~tokens'[s].stored)
    BY <1>3 DEF Holding, Last, Raced
  <2>1. CASE q = p
    <3>1. /\ At(p, "refreshDelete") /\ UNCHANGED over
          /\ req'[p].at = "refreshSave" /\ req'[p].subject = k
      BY <2>1, <1>2
    <3> QED
      BY <2>1, <3>1, <1>3, <1>5, <1>6, <1>v DEF Raced
  <2>2. CASE q # p
    <3>1. /\ req'[q] = req[q] /\ req[q].at \in Refreshing /\ ~Raced(req[q].subject)
          /\ req[q].token \in 1..Len(tokens)
      BY <2>2, <1>1, <1>3 DEF SessionInv, Named, Raced
    <3>2. Raced(k) => req[q].subject # k
      BY <3>1
    <3>3. req[q].subject # k
      BY <2>2, <3>1, <3>2, <1>5
    <3> QED
      BY <3>1, <3>3, <1>2, <1>4, <1>v, SMTT(30) DEF SessionInv, Holding, Last, Raced
  <2> QED
    BY <2>1, <2>2
<1> QED
  BY <1>7, <1>8, <1>9, <1>10, <1>11 DEF SessionInv

\* A token is issued: the first of a new login, or the next of the one whose
\* old token a refresh has deleted.
LEMMA SessionIssue ==
    ASSUME AccountsTypeOK, SessionInv, NEW p \in Request, UNCHANGED <<raced, over>>, Done(p),
           NEW r \in Role, NEW e \in Email, NEW l \in Nat, Issue(r, e, l),
           l = Len(tokens) + 1 \/ (At(p, "refreshSave") /\ l = req[p].subject)
    PROVE  SessionInv'
<1>t. tokens \in Seq(Token) /\ Len(tokens) \in Nat
  BY DEF AccountsTypeOK
<1>v. /\ Len(tokens') = Len(tokens) + 1
      /\ \A s \in 1..Len(tokens) : tokens'[s] = tokens[s]
      /\ tokens'[Len(tokens) + 1].login = l
  BY <1>t, IssueProps
<1>1. \A q \in Request : req'[q].at \in Refreshing =>
         (q # p /\ req'[q] = req[q] /\ req[q].at \in Refreshing)
  BY AccountSlots DEF Done, Idle, Refreshing
<1>3. /\ \A k : Raced(k)' <=> Raced(k)
      /\ Refreshing' = Refreshing
  BY DEF Raced, Refreshing
<1>4. \A s \in 1..Len(tokens) : tokens[s].login \in 1..s
  BY DEF SessionInv, LoginsBegun
<1>l. l \in 1..(Len(tokens) + 1)
  <2>1. CASE l = Len(tokens) + 1
    BY <2>1, <1>t
  <2>2. CASE At(p, "refreshSave") /\ l = req[p].subject
    <3>1. req[p].token \in 1..Len(tokens) /\ tokens[req[p].token].login = l
      BY <2>2 DEF At, Refreshing, SessionInv, Named
    <3> QED
      BY <3>1, <1>4, <1>t
  <2> QED
    BY <2>1, <2>2
\* Unless raced, nothing is stored of the login and nobody else is about it.
<1>5. ~Raced(l) => /\ l \notin over
                   /\ \A s \in 1..Len(tokens) : tokens[s].login = l => ~tokens[s].stored
                   /\ \A q \in Request : req'[q].at \in Refreshing => req[q].subject # l
  <2> SUFFICES ASSUME ~Raced(l)
               PROVE  /\ l \notin over
                      /\ \A s \in 1..Len(tokens) : tokens[s].login = l => ~tokens[s].stored
                      /\ \A q \in Request : req'[q].at \in Refreshing => req[q].subject # l
    OBVIOUS
  <2>1. CASE l = Len(tokens) + 1
    <3>1. \A s \in 1..Len(tokens) : tokens[s].login # l
      BY <2>1, <1>4, <1>t
    <3>2. l \notin over
      BY <2>1, <1>t DEF SessionInv, LoginsBegun
    <3>3. \A q \in Request : req[q].at \in Refreshing => req[q].subject # l
      BY <3>1 DEF SessionInv, Named
    <3> QED
      BY <3>1, <3>2, <3>3, <1>1
  <2>2. CASE At(p, "refreshSave") /\ l = req[p].subject
    <3>1. req[p].at = "refreshSave" /\ req[p].at \in Refreshing
      BY <2>2 DEF At, Refreshing
    <3>2. \A q \in Request : req'[q].at \in Refreshing => req[q].subject # l
      BY <2>2, <3>1, <1>1 DEF SessionInv, MeetingsRecorded
    <3> QED
      BY <2>2, <3>1, <3>2 DEF SessionInv, Holding, Last, Raced
  <2> QED
    BY <2>1, <2>2
<1>6. \A s \in 1..Len(tokens) : (Last(s) /\ tokens[s].login # l) => Last(s)'
  BY <1>v, <1>t DEF Last, LastOf
<1>7. LoginsBegun'
  BY <1>v, <1>4, <1>l, <1>t DEF SessionInv, LoginsBegun
<1>8. Named'
  BY <1>1, <1>3, <1>v, <1>t DEF SessionInv, Named
<1>9. MeetingsRecorded'
  BY <1>1, <1>3 DEF SessionInv, MeetingsRecorded
<1>10. StoredIsLast'
  <2> SUFFICES ASSUME NEW s \in 1..(Len(tokens) + 1),
                      tokens'[s].stored, <<"login", tokens'[s].login>> \notin raced'
               PROVE  tokens'[s].login \notin over' /\ LastOf(tokens', s)
    BY <1>v DEF StoredIsLast, Last, Raced
  <2>1. CASE s = Len(tokens) + 1
    <3>1. LastOf(tokens', s)
      BY <2>1, <1>v, <1>t DEF LastOf
    <3> QED
      BY <2>1, <3>1, <1>v, <1>3, <1>5 DEF Raced
  <2>2. CASE s # Len(tokens) + 1
    <3>1. s \in 1..Len(tokens)
      BY <2>2, <1>t
    <3>2. tokens'[s] = tokens[s] /\ tokens[s].stored /\ ~Raced(tokens[s].login)
      BY <3>1, <1>v, <1>3 DEF Raced
    <3>3. tokens[s].login \notin over /\ Last(s)
      BY <3>1, <3>2 DEF SessionInv, StoredIsLast, Last, Raced
    <3>4. tokens[s].login # l
      BY <3>1, <3>2, <1>5
    <3> QED
      BY <3>1, <3>2, <3>3, <3>4, <1>6 DEF Last, Raced
  <2> QED
    BY <2>1, <2>2
<1>11. Holding'
  <2> SUFFICES ASSUME NEW q \in Request, req'[q].at \in Refreshing, <<"login", req'[q].subject>> \notin raced'
               PROVE  /\ (req'[q].at # "logoutDelete" => req'[q].subject \notin over')
                      /\ (req'[q].at = "refreshDelete" => LastOf(tokens', req'[q].token))
                      /\ (req'[q].at = "refreshSave" =>
                            \A s \in 1..Len(tokens') :
                               tokens'[s].login = req'[q].subject => ~tokens'[s].stored)
    BY <1>3 DEF Holding, Last, Raced
  <2>1. /\ req'[q] = req[q] /\ req[q].at \in Refreshing /\ ~Raced(req[q].subject)
        /\ req[q].token \in 1..Len(tokens) /\ tokens[req[q].token].login = req[q].subject
    BY <1>1, <1>3 DEF SessionInv, Named, Raced
  <2>2. req[q].subject # l
    <3>1. Raced(l) => req[q].subject # l
      BY <2>1
    <3> QED
      BY <3>1, <1>5
  <2>3. req'[q].at = "refreshDelete" => LastOf(tokens', req'[q].token)
    BY <2>1, <2>2, <1>6 DEF SessionInv, Holding, Last, Raced
  <2>4. \A s \in 1..Len(tokens') : tokens'[s].login = req[q].subject =>
           (s \in 1..Len(tokens) /\ tokens'[s] = tokens[s])
    BY <2>2, <1>v, <1>t
  <2> QED
    BY <2>1, <2>3, <2>4 DEF SessionInv, Holding, Last, Raced
<1> QED
  BY <1>7, <1>8, <1>9, <1>10, <1>11 DEF SessionInv

\* Registration leaves the tokens alone.
LEMMA RegistrationGoes ==
    ASSUME AccountsTypeOK, NEW p \in Request, RegistrationStep(p)
    PROVE  \E x : Goto(p, x) /\ x.at \notin Refreshing
<1>t. req[p] \in AccountRequest
  BY DEF AccountsTypeOK
<1>i. Idle.at \notin Refreshing
  BY DEF Idle, Refreshing
<1>1. CASE ResendSet(p) \/ VerifySet(p) \/ SignupDelete(p) \/ LinkSet(p) \/ ResetDelete(p)
  BY <1>1, <1>i DEF ResendSet, VerifySet, SignupDelete, LinkSet, ResetDelete, Done
<1>2. CASE ResendGet(p)
  BY <1>2 DEF ResendGet, Refreshing
<1>3. CASE VerifyGet(p)
  BY <1>3 DEF VerifyGet, Refreshing
<1>4. CASE SignupGet(p)
  BY <1>4 DEF SignupGet, Refreshing
<1>5. CASE SignupFind(p)
  <2>1. [req[p] EXCEPT !.at = "signupCreate"].at = "signupCreate"
    BY <1>5, <1>t, AccountMoves DEF SignupFind, At
  <2> QED
    BY <1>5, <1>i, <2>1 DEF SignupFind, Done, Refreshing
<1>6. CASE SignupCreate(p)
  <2>1. [req[p] EXCEPT !.at = "signupDelete"].at = "signupDelete"
    BY <1>6, <1>t, AccountMoves DEF SignupCreate, At
  <2> QED
    BY <1>6, <1>i, <2>1 DEF SignupCreate, Done, Refreshing
<1>7. CASE LinkStart(p)
  BY <1>7 DEF LinkStart, Refreshing
<1>8. CASE ResetGet(p)
  BY <1>8 DEF ResetGet, Refreshing
<1>9. CASE ResetUpdate(p)
  <2>1. [req[p] EXCEPT !.at = "resetDelete"].at = "resetDelete"
    BY <1>9, <1>t, AccountMoves DEF ResetUpdate, At
  <2> QED
    BY <1>9, <2>1 DEF ResetUpdate, Refreshing
<1> QED
  BY <1>1, <1>2, <1>3, <1>4, <1>5, <1>6, <1>7, <1>8, <1>9 DEF RegistrationStep

LEMMA SessionRegistration ==
    ASSUME AccountsTypeOK, SessionInv, NEW p \in Request, RegistrationStep(p)
    PROVE  SessionInv'
<1>1. UNCHANGED <<tokens, over>> /\ raced \subseteq raced'
  BY DEF RegistrationStep, ResendGet, ResendSet, VerifyGet, VerifySet, SignupGet, SignupFind,
         SignupCreate, SignupDelete, LinkStart, LinkSet, ResetGet, ResetUpdate, ResetDelete
<1>2. \A q \in Request : req'[q] = req[q] \/ req'[q].at \notin Refreshing
  <2>1. PICK x : Goto(p, x) /\ x.at \notin Refreshing
    BY RegistrationGoes
  <2> QED
    BY <2>1, AccountSlots
<1> QED
  BY <1>1, <1>2, SessionFrame

LEMMA SessionSessions ==
    ASSUME AccountsTypeOK, SessionInv, NEW p \in Request, SessionStep(p) \/ RequestFails(p)
    PROVE  SessionInv'
<1>t. req[p] \in AccountRequest /\ tokens \in Seq(Token)
  BY DEF AccountsTypeOK
<1>i. Idle.at \notin Refreshing
  BY DEF Idle, Refreshing
<1>1. CASE LoginFind(p) \/ GoogleFind(p) \/ GoogleCreate(p) \/ RequestFails(p)
  <2>1. \E x : Goto(p, x) /\ x.at \notin Refreshing
    <3>1. CASE LoginFind(p)
      BY <3>1 DEF LoginFind, Refreshing
    <3>2. CASE GoogleFind(p)
      <4>1. PICK r \in Role, e \in Email, l \in {"loginSave", "googleCreate"} :
               Goto(p, [at |-> l, role |-> r, email |-> e])
        BY <3>2 DEF GoogleFind
      <4> QED
        BY <4>1 DEF Refreshing
    <3>3. CASE GoogleCreate(p)
      <4>1. [req[p] EXCEPT !.at = "loginSave"].at = "loginSave"
        BY <3>3, <1>t, AccountMoves DEF GoogleCreate, At
      <4> QED
        BY <3>3, <1>i, <4>1 DEF GoogleCreate, Done, Refreshing
    <3>4. CASE RequestFails(p)
      BY <3>4, <1>i DEF RequestFails, Done
    <3> QED
      BY <1>1, <3>1, <3>2, <3>3, <3>4
  <2>2. \A q \in Request : req'[q] = req[q] \/ req'[q].at \notin Refreshing
    <3>1. PICK x : Goto(p, x) /\ x.at \notin Refreshing
      BY <2>1
    <3> QED
      BY <3>1, AccountSlots
  <2>3. UNCHANGED <<tokens, over>> /\ raced \subseteq raced'
    BY <1>1 DEF LoginFind, GoogleFind, GoogleCreate, RequestFails
  <2> QED
    BY <2>2, <2>3, SessionFrame
<1>2. CASE LoginSave(p)
  <2>1. /\ req[p].role \in Role /\ req[p].email \in Email
        /\ Issue(req[p].role, req[p].email, Len(tokens) + 1)
        /\ Done(p) /\ UNCHANGED <<over, raced>>
    BY <1>2, <1>t, AccountLocals DEF LoginSave, At
  <2>2. Len(tokens) + 1 \in Nat
    BY <1>t
  <2> QED
    BY <2>1, <2>2, SessionIssue
<1>3. CASE RefreshSave(p)
  <2>1. /\ At(p, "refreshSave")
        /\ req[p].token \in 1..Len(tokens)
        /\ tokens[req[p].token].login = req[p].subject
        /\ tokens[req[p].token] \in Token
    BY <1>3, <1>t DEF RefreshSave, SessionInv, Named, At, Refreshing
  <2>2. /\ Issue(tokens[req[p].token].role, tokens[req[p].token].email, req[p].subject)
        /\ Done(p) /\ UNCHANGED <<over, raced>>
    BY <1>3, <2>1 DEF RefreshSave
  <2>3. /\ tokens[req[p].token].role \in Role /\ tokens[req[p].token].email \in Email
        /\ req[p].subject \in Nat
    BY <2>1 DEF Token
  <2> QED
    BY <2>1, <2>2, <2>3, SessionIssue
<1>4. CASE RefreshFind(p)
  <2>1. PICK t \in 1..Len(tokens) :
           /\ Stored(t)
           /\ Goto(p, [at |-> "refreshDelete", subject |-> tokens[t].login, token |-> t])
           /\ raced' = Meets(tokens[t].login)
    BY <1>4 DEF RefreshFind
  <2>2. ~Raced(tokens[t].login) => (tokens[t].login \notin over /\ Last(t))
    BY <2>1 DEF SessionInv, StoredIsLast, Stored
  <2>3. UNCHANGED <<tokens, over>>
    BY <1>4 DEF RefreshFind
  <2> QED
    BY <2>1, <2>2, <2>3, SessionTake
<1>5. CASE LogoutStart(p)
  <2>1. PICK t \in 1..Len(tokens) :
           /\ Goto(p, [at |-> "logoutDelete", subject |-> tokens[t].login, token |-> t])
           /\ raced' = Meets(tokens[t].login)
    BY <1>5 DEF LogoutStart
  <2>3. UNCHANGED <<tokens, over>>
    BY <1>5 DEF LogoutStart
  <2> QED
    BY <2>1, <2>3, SessionTake
<1>6. CASE RefreshDelete(p) \/ LogoutDelete(p)
  <2>1. /\ UNCHANGED raced /\ Revoke(req[p].token)
        /\ \/ /\ At(p, "refreshDelete") /\ UNCHANGED over
              /\ Goto(p, [req[p] EXCEPT !.at = "refreshSave"])
           \/ /\ At(p, "logoutDelete") /\ Done(p)
              /\ over' = IF Last(req[p].token) THEN over \cup {req[p].subject} ELSE over
    BY <1>6 DEF RefreshDelete, LogoutDelete, Last, LastOf, Newest
  <2> QED
    BY <2>1, SessionRevoke
<1> QED
  BY <1>1, <1>2, <1>3, <1>4, <1>5, <1>6 DEF SessionStep

LEMMA SessionUnattended ==
    ASSUME AccountsTypeOK, SessionInv, Unattended \/ UNCHANGED accountVars
    PROVE  SessionInv'
<1>1. CASE TokenExpires
  <2>1. PICK t \in 1..Len(tokens) : Revoke(t)
    BY <1>1 DEF TokenExpires
  <2>2. UNCHANGED <<over, raced, req>> /\ tokens \in Seq(Token)
    BY <1>1 DEF TokenExpires, AccountsTypeOK
  <2> QED
    BY <2>1, <2>2, RevokeProps, SessionFrame
<1>2. CASE UNCHANGED <<tokens, over, raced, req>>
  BY <1>2, SessionFrame
<1>3. RequestOTP \/ CacheExpires \/ Block \/ Unblock \/ UNCHANGED accountVars =>
         UNCHANGED <<tokens, over, raced, req>>
  BY DEF RequestOTP, CacheExpires, Block, Unblock, SetBlocked, accountVars
<1> QED
  BY <1>1, <1>2, <1>3 DEF Unattended

-----------------------------------------------------------------------------
(***************************************************************************)
(* Reset links: one that nothing raced about and that changed a password   *)
(* has no entry left, or the request that used it is about to delete it.   *)
(***************************************************************************)

RacedLink(l) == <<"link", l>> \in raced

\* The entry a link is compared with is stored, under whatever address.
EntryOf(l) == \E e \in Email : cache[e].kind = "reset" /\ cache[e].link = l

Deleting(l) == \E p \in Request : req[p].at = "resetDelete" /\ req[p].subject = l

LinksMailed ==
    /\ \A e \in Email : cache[e].kind = "reset" =>
          (cache[e].link \in 1..Len(links) /\ links[cache[e].link][2] = e)
    /\ \A p \in Request : req[p].at \in Resetting =>
          (req[p].subject \in 1..Len(links) /\ req[p].email = links[req[p].subject][2])
    /\ \A l \in 1..MaxLink : l > Len(links) => used[l] = 0

ResetsRecorded ==
    \A p, q \in Request :
        (/\ p # q
         /\ req[p].at \in Resetting /\ req[q].at \in Resetting
         /\ req[p].subject = req[q].subject) => RacedLink(req[p].subject)

UsedOnce ==
    \A l \in 1..MaxLink : ~RacedLink(l) =>
        /\ used[l] <= 1
        /\ (used[l] = 1 => (~EntryOf(l) \/ Deleting(l)))
        /\ \A p \in Request : (req[p].at = "resetUpdate" /\ req[p].subject = l) => used[l] = 0

LinkInv == LinksMailed /\ ResetsRecorded /\ UsedOnce

\* Entries may go and links be marked; no request takes a link up, and none
\* that was about to delete an entry ends without its link being marked.
LEMMA LinkFrame ==
    ASSUME LinkInv, UNCHANGED <<links, used>>, raced \subseteq raced',
           \A e \in Email : cache'[e] = cache[e] \/ cache'[e].kind # "reset",
           \A q \in Request :
              \/ req'[q] = req[q]
              \/ /\ req'[q].at \notin Resetting
                 /\ (req[q].at = "resetDelete" => <<"link", req[q].subject>> \in raced')
    PROVE  LinkInv'
<1>1. \A q \in Request : req'[q].at \in Resetting => (req'[q] = req[q] /\ req[q].at \in Resetting)
  OBVIOUS
<1>2. Resetting' = Resetting
  BY DEF Resetting
<1>3. LinksMailed'
  BY <1>1, <1>2 DEF LinkInv, LinksMailed
<1>4. ResetsRecorded'
  BY <1>1, <1>2 DEF LinkInv, ResetsRecorded, RacedLink
<1>5. UsedOnce'
  <2> SUFFICES ASSUME NEW l \in 1..MaxLink, <<"link", l>> \notin raced'
               PROVE  /\ used[l] <= 1
                      /\ (used[l] = 1 => (~EntryOf(l)' \/ Deleting(l)'))
                      /\ \A p \in Request :
                            (req'[p].at = "resetUpdate" /\ req'[p].subject = l) => used[l] = 0
    BY DEF UsedOnce, RacedLink
  <2>1. ~RacedLink(l)
    BY DEF RacedLink
  <2>2. EntryOf(l)' => EntryOf(l)
    BY DEF EntryOf
  <2>3. Deleting(l) => Deleting(l)'
    BY DEF Deleting
  <2>4. \A p \in Request : req'[p].at = "resetUpdate" => req'[p] = req[p]
    BY DEF Resetting
  <2> QED
    BY <2>1, <2>2, <2>3, <2>4 DEF LinkInv, UsedOnce
<1> QED
  BY <1>3, <1>4, <1>5 DEF LinkInv

\* A link is mailed: its entry is set, and nobody has used it.
LEMMA LinkMailed ==
    ASSUME AccountsTypeOK, LinkInv, NEW p \in Request, LinkSet(p)
    PROVE  LinkInv'
<1>t. /\ req[p] \in AccountRequest /\ links \in Seq(Role \X Email) /\ Len(links) \in Nat
      /\ cache \in [Email -> {Miss} \cup Pending \cup ResetEntry]
  BY DEF AccountsTypeOK
<1>p. req[p].role \in Role /\ req[p].email \in Email
  BY <1>t, AccountLocals DEF LinkSet, At
<1> DEFINE e == req[p].email
           n == Len(links) + 1
<1>1. /\ Len(links') = n
      /\ \A l \in 1..Len(links) : links'[l] = links[l]
      /\ links'[n][2] = e
  <2>1. links' = Append(links, <<req[p].role, e>>) /\ <<req[p].role, e>> \in Role \X Email
    BY <1>p DEF LinkSet
  <2> QED
    BY <1>t, <2>1, AppendProps
<1>2. /\ cache'[e] = [kind |-> "reset", link |-> n]
      /\ \A f \in Email \ {e} : cache'[f] = cache[f]
  BY <1>t, <1>p DEF LinkSet
<1>3. /\ cache'[e].kind = "reset" /\ cache'[e].link = n
  BY <1>2
<1>4. UNCHANGED <<used, raced>>
  BY DEF LinkSet
<1>5. \A q \in Request : req'[q].at \in Resetting => (req'[q] = req[q] /\ req[q].at \in Resetting)
  BY AccountSlots DEF LinkSet, Done, Idle, Resetting
<1>6. \A q \in Request : req[q].at \in Resetting => req'[q] = req[q]
  BY AccountSlots DEF LinkSet, Done, At, Resetting
<1>7. Resetting' = Resetting
  BY DEF Resetting
<1> HIDE DEF e, n
<1>n. n = Len(links) + 1
  BY DEF n
<1>8. LinksMailed'
  <2>1. \A f \in Email : cache'[f].kind = "reset" =>
           (cache'[f].link \in 1..Len(links') /\ links'[cache'[f].link][2] = f)
    <3> SUFFICES ASSUME NEW f \in Email, cache'[f].kind = "reset"
                 PROVE  cache'[f].link \in 1..Len(links') /\ links'[cache'[f].link][2] = f
      OBVIOUS
    <3>1. CASE f = e
      BY <3>1, <1>1, <1>3, <1>n, <1>t
    <3>2. CASE f # e
      BY <3>2, <1>1, <1>2, <1>n, <1>t DEF LinkInv, LinksMailed
    <3> QED
      BY <3>1, <3>2
  <2>2. \A q \in Request : req'[q].at \in Resetting =>
          (req'[q].subject \in 1..Len(links') /\ req'[q].email = links'[req'[q].subject][2])
    BY <1>1, <1>5, <1>n, <1>t DEF LinkInv, LinksMailed
  <2>3. \A l \in 1..MaxLink : l > Len(links') => used'[l] = 0
    BY <1>1, <1>4, <1>n, <1>t, AccountAssumption DEF LinkInv, LinksMailed
  <2> QED
    BY <2>1, <2>2, <2>3, <1>7 DEF LinksMailed
<1>9. ResetsRecorded'
  BY <1>4, <1>5, <1>7 DEF LinkInv, ResetsRecorded, RacedLink
<1>10. UsedOnce'
  <2> SUFFICES ASSUME NEW l \in 1..MaxLink, <<"link", l>> \notin raced'
               PROVE  /\ used[l] <= 1
                      /\ (used[l] = 1 => (~EntryOf(l)' \/ Deleting(l)'))
                      /\ \A q \in Request :
                            (req'[q].at = "resetUpdate" /\ req'[q].subject = l) => used[l] = 0
    BY <1>4 DEF UsedOnce, RacedLink
  <2>1. ~RacedLink(l)
    BY <1>4 DEF RacedLink
  <2>2. CASE l = n
    <3>1. used[l] = 0
      BY <2>2, <1>n, <1>t, AccountAssumption DEF LinkInv, LinksMailed
    <3> QED
      BY <3>1
  <2>3. CASE l # n
    <3>1. EntryOf(l)' => EntryOf(l)
      BY <2>3, <1>2, <1>3 DEF EntryOf
    <3>2. Deleting(l) => Deleting(l)'
      BY <1>6 DEF Deleting, Resetting
    <3>3. \A q \in Request : req'[q].at = "resetUpdate" => req'[q] = req[q]
      BY <1>5 DEF Resetting
    <3> QED
      BY <2>1, <3>1, <3>2, <3>3 DEF LinkInv, UsedOnce
  <2> QED
    BY <2>2, <2>3
<1> QED
  BY <1>8, <1>9, <1>10 DEF LinkInv

\* A link is brought: if it is the one stored, nobody has used it.
LEMMA LinkBrought ==
    ASSUME AccountsTypeOK, LinkInv, NEW p \in Request, ResetGet(p)
    PROVE  LinkInv'
<1>1. PICK k \in 1..Len(links) :
         LET same == cache[links[k][2]] = [kind |-> "reset", link |-> k]
         IN /\ Goto(p, [at |-> IF same THEN "resetUpdate" ELSE "resetDelete", subject |-> k,
                         role |-> links[k][1], email |-> links[k][2], matches |-> same])
            /\ raced' = IF About(Resetting, k) = {} THEN raced ELSE raced \cup {<<"link", k>>}
  BY DEF ResetGet
<1>2. /\ UNCHANGED <<cache, links, used>> /\ req[p].at = "idle"
      /\ links \in Seq(Role \X Email) /\ links[k][2] \in Email
  BY DEF ResetGet, At, AccountsTypeOK
<1>3. /\ req'[p].at \in Resetting /\ req'[p].subject = k /\ req'[p].email = links[k][2]
      /\ (req'[p].at = "resetUpdate" => EntryOf(k))
  <2> DEFINE same == cache[links[k][2]] = [kind |-> "reset", link |-> k]
  <2>1. req'[p] = [at |-> IF same THEN "resetUpdate" ELSE "resetDelete", subject |-> k,
                   role |-> links[k][1], email |-> links[k][2], matches |-> same]
    BY <1>1, AccountSlots
  <2>2. same => EntryOf(k)
    <3>1. same => (cache[links[k][2]].kind = "reset" /\ cache[links[k][2]].link = k)
      OBVIOUS
    <3> QED
      BY <3>1, <1>2 DEF EntryOf
  <2> HIDE DEF same
  <2> QED
    BY <2>1, <2>2 DEF Resetting
<1>4. \A q \in Request \ {p} : req'[q] = req[q]
  BY <1>1, AccountSlots
<1>5. /\ raced \subseteq raced'
      /\ (<<"link", k>> \notin raced' =>
             \A q \in Request : req[q].at \in Resetting => req[q].subject # k)
  BY <1>1 DEF About
<1>6. Resetting' = Resetting
  BY DEF Resetting
<1>7. LinksMailed'
  BY <1>2, <1>3, <1>4, <1>6 DEF LinkInv, LinksMailed
<1>8. ResetsRecorded'
  BY <1>3, <1>4, <1>5, <1>6 DEF LinkInv, ResetsRecorded, RacedLink
<1>9. UsedOnce'
  <2> SUFFICES ASSUME NEW l \in 1..MaxLink, <<"link", l>> \notin raced'
               PROVE  /\ used[l] <= 1
                      /\ (used[l] = 1 => (~EntryOf(l)' \/ Deleting(l)'))
                      /\ \A q \in Request :
                            (req'[q].at = "resetUpdate" /\ req'[q].subject = l) => used[l] = 0
    BY <1>2 DEF UsedOnce, RacedLink
  <2>1. ~RacedLink(l)
    BY <1>5 DEF RacedLink
  <2>2. EntryOf(l)' <=> EntryOf(l)
    BY <1>2 DEF EntryOf
  <2>3. Deleting(l) => Deleting(l)'
    BY <1>2, <1>4 DEF Deleting
  <2>4. used[l] \in Nat
    BY DEF AccountsTypeOK
  <2>5. l = k => ~Deleting(l)
    BY <1>5 DEF Deleting, Resetting
  <2>6. (req'[p].at = "resetUpdate" /\ req'[p].subject = l) => used[l] = 0
    BY <1>3, <2>1, <2>4, <2>5 DEF LinkInv, UsedOnce
  <2> QED
    BY <1>4, <2>1, <2>2, <2>3, <2>6 DEF LinkInv, UsedOnce
<1> QED
  BY <1>7, <1>8, <1>9 DEF LinkInv

\* The password is changed.
LEMMA LinkUsed ==
    ASSUME AccountsTypeOK, LinkInv, NEW p \in Request, ResetUpdate(p)
    PROVE  LinkInv'
<1> DEFINE k == req[p].subject
<1>1. /\ UNCHANGED <<cache, links, raced>> /\ req[p].at = "resetUpdate"
      /\ req[p] \in AccountRequest /\ used \in [1..MaxLink -> Nat]
      /\ k \in 1..Len(links) /\ links \in Seq(Role \X Email)
  BY DEF ResetUpdate, At, AccountsTypeOK, LinkInv, LinksMailed, Resetting
<1>2. /\ \A l \in 1..MaxLink : l # k => used'[l] = used[l]
      /\ (k \in 1..MaxLink => used'[k] = used[k] + 1)
  BY <1>1 DEF ResetUpdate
<1>3. /\ req'[p].at = "resetDelete" /\ req'[p].subject = k /\ req'[p].email = req[p].email
      /\ \A q \in Request \ {p} : req'[q] = req[q]
  <2>1. [req[p] EXCEPT !.at = "resetDelete"] =
           [at |-> "resetDelete", subject |-> k, role |-> req[p].role,
            email |-> req[p].email, matches |-> req[p].matches]
    BY <1>1, AccountMoves
  <2> QED
    BY <2>1, AccountSlots DEF ResetUpdate
<1>4. Resetting' = Resetting
  BY DEF Resetting
<1>5. \A q \in Request : /\ (req'[q].at \in Resetting <=> req[q].at \in Resetting)
                         /\ (req[q].at \in Resetting =>
                                (req'[q].subject = req[q].subject /\ req'[q].email = req[q].email))
  BY <1>1, <1>3 DEF Resetting
<1> HIDE DEF k
<1>k. k = req[p].subject
  BY DEF k
<1>6. LinksMailed'
  <2>1. \A l \in 1..MaxLink : l > Len(links) => used'[l] = 0
    <3> SUFFICES ASSUME NEW l \in 1..MaxLink, l > Len(links)
                 PROVE  used'[l] = 0
      OBVIOUS
    <3>1. Len(links) \in Nat /\ l # k
      BY <1>1
    <3> QED
      BY <3>1, <1>2 DEF LinkInv, LinksMailed
  <2> QED
    BY <2>1, <1>1, <1>4, <1>5 DEF LinkInv, LinksMailed
<1>7. ResetsRecorded'
  BY <1>1, <1>4, <1>5 DEF LinkInv, ResetsRecorded, RacedLink
<1>8. UsedOnce'
  <2> SUFFICES ASSUME NEW l \in 1..MaxLink, <<"link", l>> \notin raced'
               PROVE  /\ used'[l] <= 1
                      /\ (used'[l] = 1 => (~EntryOf(l)' \/ Deleting(l)'))
                      /\ \A q \in Request :
                            (req'[q].at = "resetUpdate" /\ req'[q].subject = l) => used'[l] = 0
    BY DEF UsedOnce, RacedLink
  <2>1. ~RacedLink(l)
    BY <1>1 DEF RacedLink
  <2>2. CASE l = k
    <3>1. used[l] = 0
      BY <2>1, <2>2, <1>1, <1>k DEF LinkInv, UsedOnce
    <3>2. used'[l] = 1
      BY <2>2, <3>1, <1>2
    <3>3. Deleting(l)'
      BY <2>2, <1>3 DEF Deleting
    <3>4. \A q \in Request \ {p} : ~(req'[q].at = "resetUpdate" /\ req'[q].subject = l)
      BY <2>1, <2>2, <1>1, <1>3, <1>k DEF LinkInv, ResetsRecorded, Resetting
    <3> QED
      BY <3>2, <3>3, <3>4, <1>3
  <2>3. CASE l # k
    <3>1. EntryOf(l)' <=> EntryOf(l)
      BY <1>1 DEF EntryOf
    <3>2. Deleting(l) => Deleting(l)'
      BY <1>1, <1>3 DEF Deleting
    <3> QED
      BY <2>1, <2>3, <3>1, <3>2, <1>2, <1>3 DEF LinkInv, UsedOnce
  <2> QED
    BY <2>2, <2>3
<1> QED
  BY <1>6, <1>7, <1>8 DEF LinkInv

\* The entry goes, and with it every entry of the link the request brought.
LEMMA LinkDeleted ==
    ASSUME AccountsTypeOK, LinkInv, NEW p \in Request, ResetDelete(p)
    PROVE  LinkInv'
<1> DEFINE k == req[p].subject
           e == req[p].email
<1>1. /\ UNCHANGED <<links, used, raced>> /\ req[p].at = "resetDelete"
      /\ k \in 1..Len(links) /\ e = links[k][2] /\ e \in Email
      /\ cache \in [Email -> {Miss} \cup Pending \cup ResetEntry]
  BY DEF ResetDelete, At, AccountsTypeOK, LinkInv, LinksMailed, Resetting
<1>2. cache'[e] = Miss /\ \A f \in Email \ {e} : cache'[f] = cache[f]
  BY <1>1 DEF ResetDelete
<1>3. Miss.kind # "reset"
  BY DEF Miss
<1>4. \A q \in Request : req'[q].at \in Resetting =>
         (q # p /\ req'[q] = req[q] /\ req[q].at \in Resetting)
  BY AccountSlots DEF ResetDelete, Done, Idle, Resetting
<1>5. \A q \in Request \ {p} : req'[q] = req[q]
  BY AccountSlots DEF ResetDelete, Done
<1>6. Resetting' = Resetting
  BY DEF Resetting
<1> HIDE DEF k, e
<1>7. LinksMailed'
  BY <1>1, <1>2, <1>3, <1>4, <1>6 DEF LinkInv, LinksMailed
<1>8. ResetsRecorded'
  BY <1>1, <1>4, <1>6 DEF LinkInv, ResetsRecorded, RacedLink
<1>9. UsedOnce'
  <2> SUFFICES ASSUME NEW l \in 1..MaxLink, <<"link", l>> \notin raced'
               PROVE  /\ used[l] <= 1
                      /\ (used[l] = 1 => (~EntryOf(l)' \/ Deleting(l)'))
                      /\ \A q \in Request :
                            (req'[q].at = "resetUpdate" /\ req'[q].subject = l) => used[l] = 0
    BY <1>1 DEF UsedOnce, RacedLink
  <2>1. ~RacedLink(l)
    BY <1>1 DEF RacedLink
  <2>2. EntryOf(l)' => EntryOf(l)
    BY <1>2, <1>3 DEF EntryOf
  <2>3. l = k => ~EntryOf(l)'
    <3> SUFFICES ASSUME l = k, NEW f \in Email, cache'[f].kind = "reset", cache'[f].link = l
                 PROVE  FALSE
      BY DEF EntryOf
    <3>1. f # e /\ cache'[f] = cache[f]
      BY <1>2, <1>3
    <3>2. links[k][2] = f
      BY <3>1 DEF LinkInv, LinksMailed
    <3> QED
      BY <3>1, <3>2, <1>1
  <2>4. l # k => (Deleting(l) => Deleting(l)')
    BY <1>5 DEF Deleting, k
  <2>5. \A q \in Request : req'[q].at = "resetUpdate" => req'[q] = req[q]
    BY <1>4 DEF Resetting
  <2> QED
    BY <2>1, <2>2, <2>3, <2>4, <2>5 DEF LinkInv, UsedOnce
<1> QED
  BY <1>7, <1>8, <1>9 DEF LinkInv

LEMMA LinkRegistration ==
    ASSUME AccountsTypeOK, LinkInv, NEW p \in Request, RegistrationStep(p)
    PROVE  LinkInv'
<1>t. /\ req[p] \in AccountRequest
      /\ cache \in [Email -> {Miss} \cup Pending \cup ResetEntry]
  BY DEF AccountsTypeOK
<1>i. Idle.at \notin Resetting /\ Miss.kind # "reset"
  BY DEF Idle, Resetting, Miss
<1>1. CASE LinkSet(p)
  BY <1>1, LinkMailed
<1>2. CASE ResetGet(p)
  BY <1>2, LinkBrought
<1>3. CASE ResetUpdate(p)
  BY <1>3, LinkUsed
<1>4. CASE ResetDelete(p)
  BY <1>4, LinkDeleted
<1>5. CASE \/ ResendGet(p) \/ ResendSet(p) \/ VerifyGet(p) \/ VerifySet(p)
           \/ SignupGet(p) \/ SignupFind(p) \/ SignupCreate(p) \/ SignupDelete(p)
           \/ LinkStart(p)
  <2>1. /\ UNCHANGED <<links, used, raced>>
        /\ req[p].at # "resetDelete"
    BY <1>5 DEF ResendGet, ResendSet, VerifyGet, VerifySet, SignupGet, SignupFind,
         SignupCreate, SignupDelete, LinkStart, At
  <2>2. \A e \in Email : cache'[e] = cache[e] \/ cache'[e].kind # "reset"
    <3>1. CASE ResendSet(p) \/ VerifySet(p)
      <4>1. req[p].entry \in Pending
        BY <3>1, <1>t, AccountLocals DEF ResendSet, VerifySet, At
      <4>2. req[p].entry.kind # "reset"
        BY <4>1 DEF Pending
      <4> QED
        BY <3>1, <4>2, <1>t DEF ResendSet, VerifySet
    <3>2. CASE SignupDelete(p)
      BY <3>2, <1>t, <1>i DEF SignupDelete
    <3>3. CASE UNCHANGED cache
      BY <3>3
    <3> QED
      BY <1>5, <3>1, <3>2, <3>3 DEF ResendGet, VerifyGet, SignupGet, SignupFind,
         SignupCreate, LinkStart
  <2>3. \E x : Goto(p, x) /\ x.at \notin Resetting
    <3>1. CASE ResendSet(p) \/ VerifySet(p) \/ SignupDelete(p)
      BY <3>1, <1>i DEF ResendSet, VerifySet, SignupDelete, Done
    <3>2. CASE ResendGet(p)
      BY <3>2 DEF ResendGet, Resetting
    <3>3. CASE VerifyGet(p)
      BY <3>3 DEF VerifyGet, Resetting
    <3>4. CASE SignupGet(p)
      BY <3>4 DEF SignupGet, Resetting
    <3>5. CASE SignupFind(p)
      <4>1. [req[p] EXCEPT !.at = "signupCreate"].at = "signupCreate"
        BY <3>5, <1>t, AccountMoves DEF SignupFind, At
      <4> QED
        BY <3>5, <1>i, <4>1 DEF SignupFind, Done, Resetting
    <3>6. CASE SignupCreate(p)
      <4>1. [req[p] EXCEPT !.at = "signupDelete"].at = "signupDelete"
        BY <3>6, <1>t, AccountMoves DEF SignupCreate, At
      <4> QED
        BY <3>6, <1>i, <4>1 DEF SignupCreate, Done, Resetting
    <3>7. CASE LinkStart(p)
      BY <3>7 DEF LinkStart, Resetting
    <3> QED
      BY <1>5, <3>1, <3>2, <3>3, <3>4, <3>5, <3>6, <3>7
  <2>4. PICK x : Goto(p, x) /\ x.at \notin Resetting
    BY <2>3
  <2>5. \A q \in Request : req'[q] = req[q] \/ (req'[q].at \notin Resetting /\ req[q].at # "resetDelete")
    BY <2>1, <2>4, AccountSlots
  <2> QED
    BY <2>1, <2>2, <2>5, LinkFrame
<1> QED
  BY <1>1, <1>2, <1>3, <1>4, <1>5 DEF RegistrationStep

LEMMA LinkElsewhere ==
    ASSUME AccountsTypeOK, LinkInv,
           \/ \E p \in Request : SessionStep(p) \/ RequestFails(p)
           \/ Unattended
           \/ UNCHANGED accountVars
    PROVE  LinkInv'
<1>i. Idle.at \notin Resetting
  BY DEF Idle, Resetting
<1>1. ASSUME NEW p \in Request, SessionStep(p)
      PROVE  LinkInv'
  <2>1. /\ UNCHANGED <<links, used, cache>> /\ raced \subseteq raced'
        /\ req[p].at # "resetDelete"
    BY <1>1 DEF SessionStep, LoginFind, GoogleFind, GoogleCreate, LoginSave, RefreshFind,
                RefreshDelete, RefreshSave, LogoutStart, LogoutDelete, Meets, At
  <2>2. PICK x : Goto(p, x) /\ x.at \notin Resetting
    BY <1>1, SessionGoes DEF Resetting, Refreshing
  <2>3. \A q \in Request : req'[q] = req[q] \/ (req'[q].at \notin Resetting /\ req[q].at # "resetDelete")
    BY <2>1, <2>2, AccountSlots
  <2> QED
    BY <2>1, <2>3, LinkFrame
<1>2. ASSUME NEW p \in Request, RequestFails(p)
      PROVE  LinkInv'
  <2>1. /\ UNCHANGED <<links, used, cache>> /\ raced \subseteq raced'
        /\ (req[p].at = "resetDelete" => <<"link", req[p].subject>> \in raced')
    BY <1>2 DEF RequestFails, At
  <2>2. \A q \in Request : req'[q] = req[q] \/ (q = p /\ req'[q].at \notin Resetting)
    BY <1>2, <1>i, AccountSlots DEF RequestFails, Done
  <2> QED
    BY <2>1, <2>2, LinkFrame
<1>3. CASE Unattended \/ UNCHANGED accountVars
  <2>1. UNCHANGED <<links, used, raced, req>>
    BY <1>3 DEF Unattended, RequestOTP, CacheExpires, TokenExpires, Block, Unblock, SetBlocked,
                accountVars
  <2>2. \A e \in Email : cache'[e] = cache[e] \/ cache'[e].kind # "reset"
    <3>t. cache \in [Email -> {Miss} \cup Pending \cup ResetEntry]
      BY DEF AccountsTypeOK
    <3>1. CASE RequestOTP
      BY <3>1, <3>t DEF RequestOTP
    <3>2. CASE CacheExpires
      BY <3>2, <3>t DEF CacheExpires, Miss
    <3>3. CASE UNCHANGED cache
      BY <3>3
    <3> QED
      BY <1>3, <3>1, <3>2, <3>3 DEF Unattended, TokenExpires, Block, Unblock, SetBlocked,
                accountVars
  <2> QED
    BY <2>1, <2>2, LinkFrame
<1> QED
  BY <1>1, <1>2, <1>3

-----------------------------------------------------------------------------
(***************************************************************************)
(* The inductive invariant.                                                *)
(***************************************************************************)

AccountInv == AccountsTypeOK /\ ProvenInv /\ SessionInv /\ LinkInv

LEMMA AccountsStarted == AccountInit => AccountInv
<1> SUFFICES ASSUME AccountInit
             PROVE  AccountInv
  OBVIOUS
<1>1. /\ \A p \in Request : req[p] = Idle
      /\ Idle.at = "idle"
      /\ Len(tokens) = 0 /\ Len(links) = 0
      /\ \A e \in Email : cache[e] = Miss
      /\ \A r \in Role, e \in Email : accounts[<<r, e>>] = NoAccount
      /\ \A l \in 1..MaxLink : used[l] = 0
  BY DEF AccountInit, Idle
<1>2. Miss.kind = "none"
  BY DEF Miss
<1>3. AccountsTypeOK
  BY AccountStarts DEF AccountInit, AccountsTypeOK
<1>4. ProvenInv
  BY <1>1, <1>2 DEF ProvenInv, SignedUpMeansProven, Exists, At
<1>5. SessionInv
  <2>1. over = {} /\ tokens = <<>>
    BY DEF AccountInit
  <2> QED
    BY <1>1, <2>1 DEF SessionInv, LoginsBegun, Named, MeetingsRecorded, StoredIsLast, Holding, Refreshing
<1>6. LinkInv
  BY <1>1, <1>2 DEF LinkInv, LinksMailed, ResetsRecorded, UsedOnce, Resetting
<1> QED
  BY <1>3, <1>4, <1>5, <1>6 DEF AccountInv

LEMMA AccountsGoOn ==
    ASSUME AccountInv, [AccountNext]_accountVars
    PROVE  AccountInv'
<1>h. AccountsTypeOK /\ ProvenInv /\ SessionInv /\ LinkInv
  BY DEF AccountInv
<1>n. Named
  BY <1>h DEF SessionInv
<1>1. CASE \E p \in Request : RegistrationStep(p)
  BY <1>1, <1>h, RegistrationTypes, ProvenRegistration, SessionRegistration, LinkRegistration
     DEF AccountInv
<1>2. CASE \E p \in Request : SessionStep(p) \/ RequestFails(p)
  BY <1>2, <1>h, <1>n, SessionTypes, UnattendedTypes, ProvenElsewhere, SessionSessions, LinkElsewhere
     DEF AccountInv
<1>3. CASE Unattended \/ UNCHANGED accountVars
  <2>1. AccountsTypeOK'
    <3>1. CASE UNCHANGED accountVars
      BY <3>1, <1>h DEF accountVars, AccountsTypeOK
    <3> QED
      BY <1>3, <1>h, <3>1, UnattendedTypes
  <2> QED
    BY <1>3, <1>h, <2>1, ProvenElsewhere, SessionUnattended, LinkElsewhere DEF AccountInv
<1> QED
  BY <1>1, <1>2, <1>3 DEF AccountNext, AccountStep, Unattended

LEMMA AccountsAlways == AccountSpec => []AccountInv
  BY AccountsStarted, AccountsGoOn, PTL DEF AccountSpec

-----------------------------------------------------------------------------
(***************************************************************************)
(* What accounts and sessions keep to, for any constants.                  *)
(***************************************************************************)

\* Every account, cache entry, link, token and request in flight has its type.
THEOREM AccountTypesCorrect == AccountSpec => []AccountsTypeOK
  BY AccountsAlways, PTL DEF AccountInv

\* However sign-ups, resent codes and resets interleave over one cache entry,
\* an account holds a form whose one-time password came back.
THEOREM OnlyProvenSignUp == AccountSpec => []SignedUpMeansProven
  BY AccountsAlways, PTL DEF AccountInv, ProvenInv

LEMMA LastIsOnly ==
    ASSUME StoredIsLast
    PROVE  OneSessionPerLogin
  BY DEF StoredIsLast, OneSessionPerLogin, Stored, Newest, Last, LastOf, Raced

\* Of a login no two requests were in flight about, only the newest refresh
\* token is stored, and none after a logout deleted that, however refreshes are
\* spread over their three awaits and whichever tokens clients log out with.
THEOREM SessionsCounted == AccountSpec => []OneSessionPerLogin
  BY AccountsAlways, LastIsOnly, PTL DEF AccountInv, SessionInv

LEMMA UsedAtMostOnce ==
    ASSUME UsedOnce
    PROVE  LinkOnceUnlessRaced
  BY DEF UsedOnce, LinkOnceUnlessRaced, RacedLink

\* A reset link that one request at a time brought changes a password once.
THEOREM LinksWorkOnce == AccountSpec => []LinkOnceUnlessRaced
  BY AccountsAlways, UsedAtMostOnce, PTL DEF AccountInv, LinkInv
=============================================================================

----------------------------- MODULE ChatStore ------------------------------
(***************************************************************************)
(* The collections conversations and messages, the notifications messages  *)
(* leave behind, and the requests and socket events in flight over them.   *)
(* A conversation carries copies of what its messages say: the newest one  *)
(* and, for either participant, how many are unread.                       *)
(***************************************************************************)
EXTENDS Naturals, Sequences, FiniteSets

CONSTANTS
    User,       \* candidates
    Company,    \* companies
    Job,        \* jobs a conversation may be about
    Null,       \* no job
    Conv,       \* ids of conversations
    Request,    \* slots for requests and socket events in flight
    PageSize,   \* how many of the newest messages a reader marks (50)
    JoinSize,   \* how many of the newest messages joining acknowledges (100)
    MaxMsg,     \* bound on messages
    MaxFail     \* bound on requests that reject half way

Person == User \cup Company

Matter == User \X Company \X (Job \cup {Null})

ASSUME ChatAssumption ==
    /\ User \cap Company = {} /\ Null \notin Job
    /\ IsFiniteSet(Conv) /\ IsFiniteSet(Request)
    /\ PageSize \in Nat \ {0} /\ JoinSize \in Nat \ {0}
    /\ MaxMsg \in Nat /\ MaxFail \in Nat

VARIABLES
    convs,      \* conversations
    msgs,       \* messages, in the order of createdAt
    notified,   \* the messages a notification was created for
    req,        \* what each slot is doing: the await it is at, its locals
    fails,      \* requests that rejected half way so far
    disturbed   \* history: what overlapping or rejected requests may have spoilt

chatVars == <<convs, msgs, notified, req, fails, disturbed>>

(***************************************************************************)
(* Documents.                                                              *)
(***************************************************************************)
MessageStatus == {"sent", "delivered", "read"}

Message == [conv: Conv, from: Person, to: Person, status: MessageStatus, isDeleted: BOOLEAN]

NoConv == [about |-> Null]

\* about stands for the two participants and jobId; last is lastMessage, as
\* its place among the messages, 0 before there is one.
Conversation == [about: Matter, unreadCount: [Person -> Nat], last: Nat]

NewConversation(x) == [about |-> x, unreadCount |-> [u \in Person |-> 0], last |-> 0]

Opened == {c \in Conv : convs[c] # NoConv}

Participants(c) == {convs[c].about[1], convs[c].about[2]}

FindByParticipants(x) == {c \in Opened : convs[c].about = x}

MessagesOf(c) == {i \in 1..Len(msgs) : msgs[i].conv = c}

Visible(c) == {i \in MessagesOf(c) : ~msgs[i].isDeleted}

\* The first page of the visible messages, newest first.
FirstPage(c, limit) ==
    {i \in Visible(c) : Cardinality({j \in Visible(c) : j > i}) < limit}

\* countUnread: what the counter of u in c is a copy of, but for the deleted.
UnreadOf(c, u) == {i \in MessagesOf(c) : msgs[i].to = u /\ msgs[i].status # "read"}

(***************************************************************************)
(* Slots.                                                                  *)
(***************************************************************************)
Idle == [at |-> "idle"]

Opening == {"openAgain", "openInsert"}

Sending == {"sendCreate", "sendLast", "sendCount", "sendNotify"}

Reading == {"readMark", "readReset"}

At(p, label) == req[p].at = label

Goto(p, r) == req' = [req EXCEPT ![p] = r]

Move(p, label) == Goto(p, [req[p] EXCEPT !.at = label])

Done(p) == Goto(p, Idle)

Doing(labels, x) == {p \in Request : req[p].at \in labels /\ req[p].subject = x}

ChatInit ==
    /\ convs = [c \in Conv |-> NoConv]
    /\ msgs = <<>>
    /\ notified = {}
    /\ req = [p \in Request |-> Idle]
    /\ fails = 0
    /\ disturbed = {}

ChatRequest ==
    {Idle}
    \cup [at: Opening, subject: Matter]
    \cup [at: {"sendCreate"}, subject: Conv, from: Person]
    \cup [at: Sending \ {"sendCreate"}, subject: Conv, from: Person, msg: Nat]
    \cup [at: Reading, subject: Conv, reader: Person, ids: SUBSET Nat]
    \cup [at: {"joinMark"}, subject: Conv, ids: SUBSET Nat]

\* What requests spoil: the uniqueness of a matter's conversation, the last
\* message of a conversation, its counters.
Header == Conv \X {"last", "count"}

ChatTypeOK ==
    /\ convs \in [Conv -> Conversation \cup {NoConv}]
    /\ msgs \in Seq(Message)
    /\ notified \subseteq 1..Len(msgs)
    /\ req \in [Request -> ChatRequest]
    /\ fails \in Nat
    /\ disturbed \subseteq Matter \cup Header

(***************************************************************************)
(* Any await may reject: the request ends there, its writes stay.          *)
(***************************************************************************)
RequestFails(p) ==
    /\ ~At(p, "idle")
    /\ fails < MaxFail
    /\ fails' = fails + 1
    /\ Done(p)
    /\ disturbed' = IF req[p].at \in Sending \cup Reading
                    THEN disturbed \cup {<<req[p].subject, "last">>, <<req[p].subject, "count">>}
                    ELSE disturbed
    /\ UNCHANGED <<convs, msgs, notified>>
=============================================================================

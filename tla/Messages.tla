------------------------------ MODULE Messages ------------------------------
(***************************************************************************)
(* Conversations are opened, messages sent, delivered, read and deleted.   *)
(* Requests and socket events reach the same service, and an action stands *)
(* for both.                                                               *)
(***************************************************************************)
EXTENDS ChatStore

(***************************************************************************)
(* getOrCreateConversation looks the conversation up, and createConversation *)
(* looks again before it inserts; nothing is unique in the collection.     *)
(***************************************************************************)
\* Bound: an opening starts only while an id is left for it.
RoomForConv ==
    Cardinality(Conv \ Opened) > Cardinality({p \in Request : req[p].at \in Opening})

\* Mutant: createConversation does not look.
OpenWithoutLooking(p) ==
    /\ At(p, "idle") /\ RoomForConv
    /\ \E x \in Matter :
          /\ Goto(p, [at |-> "openInsert", subject |-> x])
          /\ disturbed' = IF Doing(Opening, x) = {} THEN disturbed ELSE disturbed \cup {x}
    /\ UNCHANGED <<convs, msgs, notified, fails>>

OpenFind(p) ==
    /\ At(p, "idle") /\ RoomForConv
    /\ \E x \in Matter :
          /\ FindByParticipants(x) = {}
          /\ Goto(p, [at |-> "openAgain", subject |-> x])
          /\ disturbed' = IF Doing(Opening, x) = {} THEN disturbed ELSE disturbed \cup {x}
    /\ UNCHANGED <<convs, msgs, notified, fails>>

OpenAgain(p) ==
    /\ At(p, "openAgain")
    /\ IF FindByParticipants(req[p].subject) = {} THEN Move(p, "openInsert") ELSE Done(p)
    /\ UNCHANGED <<convs, msgs, notified, fails, disturbed>>

OpenInsert(p) ==
    /\ At(p, "openInsert")
    /\ \E c \in Conv \ Opened :
          convs' = [convs EXCEPT ![c] = NewConversation(req[p].subject)]
    /\ Done(p)
    /\ UNCHANGED <<msgs, notified, fails, disturbed>>

(***************************************************************************)
(* sendMessage: the conversation is read, twice, for its participants, who *)
(* never change; then four writes follow, one await each.                  *)
(***************************************************************************)
\* Bound: a message is sent only while MaxMsg leaves room for it.
RoomForMsg ==
    Len(msgs) + Cardinality({p \in Request : At(p, "sendCreate")}) < MaxMsg

Other(c, u) == CHOOSE v \in Participants(c) : v # u

SendStart(p) ==
    /\ At(p, "idle") /\ RoomForMsg
    /\ \E c \in Opened : \E u \in Participants(c) :
          /\ Goto(p, [at |-> "sendCreate", subject |-> c, from |-> u])
          /\ disturbed' = disturbed
                 \cup {<<c, "last">> : q \in Doing(Sending, c)}
                 \cup {<<c, "count">> : q \in Doing(Reading, c)}
    /\ UNCHANGED <<convs, msgs, notified, fails>>

SendCreate(p) ==
    /\ At(p, "sendCreate")
    /\ LET c == req[p].subject
           u == req[p].from
       IN /\ msgs' = Append(msgs, [conv |-> c, from |-> u, to |-> Other(c, u),
                                   status |-> "sent", isDeleted |-> FALSE])
          /\ Goto(p, [at |-> "sendLast", subject |-> c, from |-> u, msg |-> Len(msgs) + 1])
    /\ UNCHANGED <<convs, notified, fails, disturbed>>

\* Mutant: the last message is written once only.
SendFirstLast(p) ==
    /\ At(p, "sendLast")
    /\ convs' = [convs EXCEPT ![req[p].subject].last = IF @ = 0 THEN req[p].msg ELSE @]
    /\ Move(p, "sendCount")
    /\ UNCHANGED <<msgs, notified, fails, disturbed>>

\* updateLastMessage, whichever message is there already.
SendLast(p) ==
    /\ At(p, "sendLast")
    /\ convs' = [convs EXCEPT ![req[p].subject].last = req[p].msg]
    /\ Move(p, "sendCount")
    /\ UNCHANGED <<msgs, notified, fails, disturbed>>

\* incrementUnreadCount is an atomic $inc on the receiver's entry.
SendCount(p) ==
    /\ At(p, "sendCount")
    /\ convs' = [convs EXCEPT ![req[p].subject].unreadCount[msgs[req[p].msg].to] = @ + 1]
    /\ Move(p, "sendNotify")
    /\ UNCHANGED <<msgs, notified, fails, disturbed>>

SendNotify(p) ==
    /\ At(p, "sendNotify")
    /\ notified' = notified \cup {req[p].msg}
    /\ Done(p)
    /\ UNCHANGED <<convs, msgs, fails, disturbed>>

(***************************************************************************)
(* markMessagesAsRead: a page is read, what is unread on it marked, and the *)
(* whole counter reset.                                                    *)
(***************************************************************************)
\* Mutant: the page that is read is any page, not the newest.
ReadOldest(p) ==
    /\ At(p, "idle")
    /\ \E c \in Opened : \E u \in Participants(c) :
          LET ids == {i \in UnreadOf(c, u) :
                         Cardinality({j \in Visible(c) : j < i}) < PageSize - 1}
          IN /\ Goto(p, [at |-> IF ids = {} THEN "readReset" ELSE "readMark",
                         subject |-> c, reader |-> u, ids |-> ids])
             /\ disturbed' = disturbed \cup {<<c, "count">> : q \in Doing(Sending, c)}
    /\ UNCHANGED <<convs, msgs, notified, fails>>

ReadPage(p) ==
    /\ At(p, "idle")
    /\ \E c \in Opened : \E u \in Participants(c) :
          LET ids == FirstPage(c, PageSize) \cap UnreadOf(c, u)
          IN /\ Goto(p, [at |-> IF ids = {} THEN "readReset" ELSE "readMark",
                         subject |-> c, reader |-> u, ids |-> ids])
             /\ disturbed' = disturbed \cup {<<c, "count">> : q \in Doing(Sending, c)}
    /\ UNCHANGED <<convs, msgs, notified, fails>>

SetStatus(ids, status) ==
    msgs' = [i \in 1..Len(msgs) |->
                IF i \in ids THEN [msgs[i] EXCEPT !.status = status] ELSE msgs[i]]

ReadMark(p) ==
    /\ At(p, "readMark")
    /\ SetStatus(req[p].ids, "read")
    /\ Move(p, "readReset")
    /\ UNCHANGED <<convs, notified, fails, disturbed>>

ReadReset(p) ==
    /\ At(p, "readReset")
    /\ convs' = [convs EXCEPT ![req[p].subject].unreadCount[req[p].reader] = 0]
    /\ Done(p)
    /\ UNCHANGED <<msgs, notified, fails, disturbed>>

(***************************************************************************)
(* Delivery: joining a conversation acknowledges its newest messages, and  *)
(* a client acknowledges the messages it names.                            *)
(***************************************************************************)
JoinPage(p) ==
    /\ At(p, "idle")
    /\ \E c \in Opened : \E u \in Participants(c) :
          LET ids == {i \in FirstPage(c, JoinSize) : msgs[i].to = u /\ msgs[i].status = "sent"}
          IN /\ ids # {}
             /\ Goto(p, [at |-> "joinMark", subject |-> c, ids |-> ids])
    /\ UNCHANGED <<convs, msgs, notified, fails, disturbed>>

\* Mutant: the update does not ask whether the message is still only sent.
MarkAnyDelivered(ids) == SetStatus(ids, "delivered")

\* markAsDelivered filters on the status it finds, not on the one read before.
MarkAsDelivered(ids) == SetStatus({i \in ids : msgs[i].status = "sent"}, "delivered")

JoinMark(p) ==
    /\ At(p, "joinMark")
    /\ MarkAsDelivered(req[p].ids)
    /\ Done(p)
    /\ UNCHANGED <<convs, notified, fails, disturbed>>

Acknowledge ==
    /\ \E ids \in SUBSET {i \in 1..Len(msgs) : msgs[i].status = "sent"} : MarkAsDelivered(ids)
    /\ UNCHANGED <<convs, notified, req, fails, disturbed>>

\* softDelete touches the message alone, not its conversation's header.
Delete ==
    /\ \E c \in Opened : \E i \in Visible(c) :
          msgs' = [msgs EXCEPT ![i].isDeleted = TRUE]
    /\ UNCHANGED <<convs, notified, req, fails, disturbed>>

OpenStep(p) == OpenFind(p) \/ OpenAgain(p) \/ OpenInsert(p)

SendStep(p) == SendStart(p) \/ SendCreate(p) \/ SendLast(p) \/ SendCount(p) \/ SendNotify(p)

ReadStep(p) == ReadPage(p) \/ ReadMark(p) \/ ReadReset(p)

MessageStep(p) ==
    \/ OpenStep(p) \/ SendStep(p) \/ ReadStep(p)
    \/ JoinPage(p) \/ JoinMark(p)
    \/ RequestFails(p)

ChatNext ==
    \/ \E p \in Request : MessageStep(p)
    \/ Acknowledge
    \/ Delete

ChatSpec == ChatInit /\ [][ChatNext]_chatVars

(***************************************************************************)
(* Properties.                                                             *)
(***************************************************************************)
\* Two participants have one conversation about a job (or about none), unless
\* both opened it at once: the look-up that getOrCreateConversation makes, and
\* the second one in createConversation, are all there is against a duplicate.
OneConversationUnlessRaced ==
    \A c, d \in Opened : c # d /\ convs[c].about = convs[d].about => convs[c].about \in disturbed

\* A conversation at rest shows the newest message that was sent in it, and it
\* was notified of, unless two sends overlapped or one rejected half way.
LastIsNewestUnlessRaced ==
    \A c \in Opened :
        Doing(Sending, c) = {} /\ <<c, "last">> \notin disturbed =>
            /\ \A i \in MessagesOf(c) : i <= convs[c].last /\ i \in notified
            /\ MessagesOf(c) # {} => convs[c].last \in MessagesOf(c)

\* At rest, and unless a send overlapped a reader or one of them rejected, the
\* unread counter exceeds the unread messages by deleted ones only, and falls
\* short of them only when more messages were sent than one page holds: the
\* counter is reset whole, the messages are marked a page at a time.
UnreadExplained ==
    \A c \in Opened :
        Doing(Sending \cup Reading, c) = {} /\ <<c, "count">> \notin disturbed =>
            \A u \in Participants(c) :
                /\ convs[c].unreadCount[u] <= Cardinality(UnreadOf(c, u))
                /\ Cardinality(MessagesOf(c)) <= PageSize =>
                       Cardinality(UnreadOf(c, u) \cap Visible(c)) <= convs[c].unreadCount[u]

Rank == [sent |-> 0, delivered |-> 1, read |-> 2]

\* What a message went through is never taken back: it is not delivered again
\* after it was read, though the page joining marks may be older than the
\* reader's, and it is not undeleted.
NothingTakenBack ==
    [][\A i \in 1..Len(msgs) :
          /\ Rank[msgs[i].status] <= Rank[msgs'[i].status]
          /\ msgs[i].isDeleted => msgs'[i].isDeleted]_chatVars
=============================================================================

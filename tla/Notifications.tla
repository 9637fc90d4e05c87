--------------------------- MODULE Notifications ----------------------------
(***************************************************************************)
(* Notifications and the sockets that are told how many are unread.  The   *)
(* count is read in one await and told after the next, to one socket or to *)
(* every socket of its owner; some operations tell nobody.                 *)
(***************************************************************************)
EXTENDS Naturals, Sequences, FiniteSets

CONSTANTS
    Person,     \* candidates and companies
    Socket,     \* ids of socket connections
    Null,       \* nobody, nothing
    Request,    \* slots for requests and socket events in flight
    Round,      \* rounds of interviews
    MaxNote,    \* bound on notifications
    MaxChange   \* bound on changes of interviews

ASSUME NotificationAssumption ==
    /\ Null \notin Person \cup Socket \cup Nat
    /\ IsFiniteSet(Socket) /\ IsFiniteSet(Request)
    /\ MaxNote \in Nat /\ MaxChange \in Nat

VARIABLES
    notes,     \* notifications, in the order they were created
    owner,     \* who is connected on a socket: room user:<id>, and userSockets
    told,      \* the last notification:count a socket received
    req,       \* what each slot is doing
    excused    \* history: sockets whose owner's count moved without their being told

bellVars == <<notes, owner, told, req, excused>>

InterviewStatus == {"scheduled", "rescheduled", "cancelled", "completed"}

\* A change of an interview: which, and to what.
News == [interview: Nat, status: InterviewStatus]

\* says is the news of an interview, Null for what is about something else.
Note == [to: Person, status: {"unread", "read", "deleted"}, says: News \cup {Null}]

UnreadNotes(u) == {i \in 1..Len(notes) : notes[i].to = u /\ notes[i].status = "unread"}

CountUnread(u) == Cardinality(UnreadNotes(u))

SocketsOf(u) == {s \in Socket : owner[s] = u}

(***************************************************************************)
(* Slots.  at "count" the count is awaited, at "tell" it is known; target  *)
(* is the socket that asked, Null for all of them.  A count is overtaken   *)
(* when what it counts changes before it is told.  at "notice" an          *)
(* interview has changed and its notification is not created yet.          *)
(***************************************************************************)
Idle == [at |-> "idle"]

Counting == [at: {"count"}, about: Person, target: Socket \cup {Null}]

Telling == [at: {"tell"}, about: Person, target: Socket \cup {Null}, n: Nat, overtaken: BOOLEAN]

Noticing == [at: {"notice"}, about: Person, target: {Null}, says: News, stale: BOOLEAN]

At(p, label) == req[p].at = label

Awaiting(u, s) == [at |-> "count", about |-> u, target |-> s]

Holding(u, s, k) == [at |-> "tell", about |-> u, target |-> s, n |-> k, overtaken |-> FALSE]

Targets(p) ==
    {s \in SocketsOf(req[p].about) : req[p].target \in {s, Null}}

\* The slots after the notifications of u changed.
Overtaken(u) ==
    [q \in Request |->
        IF At(q, "tell") /\ req[q].about = u THEN [req[q] EXCEPT !.overtaken = TRUE] ELSE req[q]]

BellInit ==
    /\ notes = <<>>
    /\ owner = [s \in Socket |-> Null]
    /\ told = [s \in Socket |-> Null]
    /\ req = [p \in Request |-> Idle]
    /\ excused = {}

(***************************************************************************)
(* Connections.                                                            *)
(***************************************************************************)
\* handleConnection joins the room and starts a count it does not await.  A
\* socket's id is never used again, so none that is still counted for.
Connect(p) ==
    /\ At(p, "idle")
    /\ \E s \in Socket, u \in Person :
          /\ owner[s] = Null
          /\ \A q \in Request : ~At(q, "idle") => req[q].target # s
          /\ owner' = [owner EXCEPT ![s] = u]
          /\ req' = [req EXCEPT ![p] = Awaiting(u, s)]
    /\ UNCHANGED <<notes, told, excused>>

Disconnect ==
    /\ \E s \in Socket :
          /\ owner[s] # Null
          /\ owner' = [owner EXCEPT ![s] = Null]
          /\ told' = [told EXCEPT ![s] = Null]
          /\ excused' = excused \ {s}
    /\ UNCHANGED <<notes, req>>

(***************************************************************************)
(* New notifications.                                                      *)
(***************************************************************************)
Created(u, news) == notes' = Append(notes, [to |-> u, status |-> "unread", says |-> news])

\* Bound: a notification is created while MaxNote leaves room for it and for
\* those of the interviews in flight.
RoomForNote ==
    Len(notes) + Cardinality({p \in Request : At(p, "notice")}) < MaxNote

\* Mutant: the count is taken before the notification is created.
PushCounted(p) ==
    /\ At(p, "idle") /\ RoomForNote
    /\ \E u \in Person :
          /\ Created(u, Null)
          /\ req' = [Overtaken(u) EXCEPT ![p] = Holding(u, Null, CountUnread(u))]
    /\ UNCHANGED <<owner, told, excused>>

\* An application's progress: created, then sendNotificationToUser.
Push(p) ==
    /\ At(p, "idle") /\ RoomForNote
    /\ \E u \in Person :
          /\ Created(u, Null)
          /\ req' = [Overtaken(u) EXCEPT ![p] = Awaiting(u, Null)]
    /\ UNCHANGED <<owner, told, excused>>

\* A chat message's: created, and nobody told.
CreateSilently ==
    /\ RoomForNote
    /\ \E u \in Person :
          /\ Created(u, Null)
          /\ req' = Overtaken(u)
          /\ excused' = excused \cup SocketsOf(u)
    /\ UNCHANGED <<owner, told>>

(***************************************************************************)
(* Socket events.                                                          *)
(***************************************************************************)
GetCount(p) ==
    /\ At(p, "idle")
    /\ \E u \in Person : \E s \in SocketsOf(u) : req' = [req EXCEPT ![p] = Awaiting(u, s)]
    /\ UNCHANGED <<notes, owner, told, excused>>

SetStatus(ids, status) ==
    notes' = [i \in 1..Len(notes) |->
                 IF i \in ids THEN [notes[i] EXCEPT !.status = status] ELSE notes[i]]

\* handleMarkAsRead updates, counts, and tells the socket that asked only.
SocketMarkRead(p) ==
    /\ At(p, "idle")
    /\ \E u \in Person : \E s \in SocketsOf(u), i \in UnreadNotes(u) :
          /\ SetStatus({i}, "read")
          /\ req' = [Overtaken(u) EXCEPT ![p] = Awaiting(u, s)]
          /\ excused' = excused \cup (SocketsOf(u) \ {s})
    /\ UNCHANGED <<owner, told>>

\* handleMarkAllAsRead does not count again: it tells 0.
SocketMarkAllRead(p) ==
    /\ At(p, "idle")
    /\ \E u \in Person : \E s \in SocketsOf(u) :
          /\ SetStatus(UnreadNotes(u), "read")
          /\ req' = [Overtaken(u) EXCEPT ![p] = Holding(u, s, 0)]
          /\ excused' = excused \cup (SocketsOf(u) \ {s})
    /\ UNCHANGED <<owner, told>>

\* countByUserId, its unread ones.
Count(p) ==
    /\ At(p, "count")
    /\ req' = [req EXCEPT ![p] = Holding(req[p].about, req[p].target, CountUnread(req[p].about))]
    /\ UNCHANGED <<notes, owner, told, excused>>

\* The emit, to a socket or to a room.
Tell(p) ==
    /\ At(p, "tell")
    /\ told' = [s \in Socket |-> IF s \in Targets(p) THEN req[p].n ELSE told[s]]
    /\ excused' = IF req[p].overtaken THEN excused \cup Targets(p) ELSE excused \ Targets(p)
    /\ req' = [req EXCEPT ![p] = Idle]
    /\ UNCHANGED <<notes, owner>>

\* A count that rejects is logged and told to nobody.
CountFails(p) ==
    /\ At(p, "count")
    /\ excused' = excused \cup Targets(p)
    /\ req' = [req EXCEPT ![p] = Idle]
    /\ UNCHANGED <<notes, owner, told>>

(***************************************************************************)
(* HTTP requests, one write each, and the TTL index; no socket hears.      *)
(***************************************************************************)
Silently(u, ids, status) ==
    /\ SetStatus(ids, status)
    /\ req' = Overtaken(u)
    /\ excused' = excused \cup SocketsOf(u)
    /\ UNCHANGED <<owner, told>>

MarkAsRead == \E u \in Person : \E i \in UnreadNotes(u) : Silently(u, {i}, "read")

MarkAllAsRead == \E u \in Person : UnreadNotes(u) # {} /\ Silently(u, UnreadNotes(u), "read")

DeleteNotification ==
    \E i \in 1..Len(notes) : notes[i].status # "deleted" /\ Silently(notes[i].to, {i}, "deleted")

\* readAt is thirty days past, of a notification that isRead.
Expire ==
    /\ \E i \in 1..Len(notes) : notes[i].status = "read" /\ SetStatus({i}, "deleted")
    /\ UNCHANGED <<owner, told, req, excused>>

NoteStep(p) ==
    \/ Connect(p) \/ Push(p)
    \/ GetCount(p) \/ SocketMarkRead(p) \/ SocketMarkAllRead(p)
    \/ Count(p) \/ Tell(p) \/ CountFails(p)

BellNext ==
    \/ \E p \in Request : NoteStep(p)
    \/ Disconnect \/ CreateSilently
    \/ MarkAsRead \/ MarkAllAsRead \/ DeleteNotification \/ Expire

(***************************************************************************)
(* Properties.                                                             *)
(***************************************************************************)
BellTypeOK ==
    /\ notes \in Seq(Note)
    /\ owner \in [Socket -> Person \cup {Null}]
    /\ told \in [Socket -> Nat \cup {Null}]
    /\ req \in [Request -> {Idle} \cup Counting \cup Telling \cup Noticing]
    /\ excused \subseteq Socket

\* The slots from which socket s will still hear.
Pending(s) == {p \in Request : ~At(p, "idle") /\ s \in Targets(p)}

\* A connected socket that awaits no count shows the number of its owner's
\* unread notifications, as of now, unless since it was last told right a
\* change was made behind its back (over HTTP, by a chat message, on another
\* socket), its count failed, or its count was overtaken on the way.
BellAgrees ==
    \A s \in Socket :
        owner[s] # Null /\ s \notin excused /\ Pending(s) = {} => told[s] = CountUnread(owner[s])
=============================================================================

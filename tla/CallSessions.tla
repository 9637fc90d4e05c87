---------------------------- MODULE CallSessions ----------------------------
(***************************************************************************)
(* The call of one interview: its CallSession document, the socket events  *)
(* that join, leave and end it, and the events in flight.  The roomId is   *)
(* derived from the interview and unique, so the document of a call that   *)
(* ended is the one every later join finds.                                *)
(***************************************************************************)
EXTENDS Naturals, Sequences, FiniteSets

CONSTANTS
    User,     \* the people who open the interview's page
    Event,    \* slots for socket events in flight
    MaxFail   \* bound on events that reject half way

ASSUME CallAssumption ==
    /\ IsFiniteSet(User) /\ IsFiniteSet(Event)
    /\ MaxFail \in Nat

VARIABLES
    status,        \* CallSession.status, "none" before the document exists
    participants,  \* CallSession.participants, in the order they were pushed
    ev,            \* what each slot is doing: the await it is at, whose event it is
    initiator,     \* who was told shouldInitiate by their last "joined-interview"
    fails,         \* events that rejected half way so far
    overlapped     \* history: users two of whose events were in flight at once

callVars == <<status, participants, ev, initiator, fails, overlapped>>

Participant == [user: User, connected: BOOLEAN]

Connected == {i \in 1..Len(participants) : participants[i].connected}

EntriesOf(u) == {i \in 1..Len(participants) : participants[i].user = u}

\* The positional operator $ updates the first matching entry only.
SetConnected(u, c) ==
    IF EntriesOf(u) = {}
    THEN UNCHANGED participants
    ELSE \E i \in EntriesOf(u) :
            /\ \A j \in EntriesOf(u) : i <= j
            /\ participants' = [participants EXCEPT ![i].connected = c]

(***************************************************************************)
(* Events.                                                                 *)
(***************************************************************************)
Joining == {"joinLookup", "joinCreate", "joinReconnect", "joinAdd", "joinActivate", "joinTell"}

Leaving == {"leaveCheck", "leaveEnd"}

Idle == [at |-> "idle"]

Activity == {Idle} \cup [at: Joining \cup Leaving, user: User]

At(p, label) == ev[p].at = label

Move(p, label) == ev' = [ev EXCEPT ![p].at = label]

Finish(p) == ev' = [ev EXCEPT ![p] = Idle]

AllIdle == \A p \in Event : At(p, "idle")

\* An event arrives: it overlaps the events of the same user still in flight.
Arrives(p, u, label) ==
    /\ At(p, "idle")
    /\ ev' = [ev EXCEPT ![p] = [at |-> label, user |-> u]]
    /\ overlapped' = IF \E q \in Event : ~At(q, "idle") /\ ev[q].user = u
                     THEN overlapped \cup {u} ELSE overlapped

\* Mutant: nobody looks whether the user is listed already.
AfterFindingAnyone(u) == "joinAdd"

\* Where joinCall goes with the session it found.
AfterFinding(u) == IF EntriesOf(u) = {} THEN "joinAdd" ELSE "joinReconnect"

JoinFind(p) ==
    /\ \E u \in User :
          Arrives(p, u, IF status = "none" THEN "joinLookup" ELSE AfterFinding(u))
    /\ UNCHANGED <<status, participants, initiator, fails>>

\* createCallSession looks again, by interview, for a session that has not ended.
JoinLookup(p) ==
    /\ At(p, "joinLookup")
    /\ Move(p, IF status \in {"waiting", "active"} THEN AfterFinding(ev[p].user)
               ELSE "joinCreate")
    /\ UNCHANGED <<status, participants, initiator, fails, overlapped>>

\* The insert; the unique roomId rejects all but the first.
JoinCreate(p) ==
    /\ At(p, "joinCreate")
    /\ IF status = "none"
       THEN status' = "waiting" /\ Move(p, "joinAdd")
       ELSE UNCHANGED status /\ Finish(p)
    /\ UNCHANGED <<participants, initiator, fails, overlapped>>

JoinReconnect(p) ==
    /\ At(p, "joinReconnect")
    /\ SetConnected(ev[p].user, TRUE)
    /\ Move(p, "joinTell")
    /\ UNCHANGED <<status, initiator, fails, overlapped>>

\* Mutant: the status of the session that was joined is not looked at.
JoinAddAnyStatus(p) ==
    /\ At(p, "joinAdd")
    /\ participants' = Append(participants, [user |-> ev[p].user, connected |-> TRUE])
    /\ Move(p, IF Cardinality(Connected') = 2 THEN "joinActivate" ELSE "joinTell")
    /\ UNCHANGED <<status, initiator, fails, overlapped>>

\* Mutant: the first to join makes the call active.
JoinAddFirst(p) ==
    /\ At(p, "joinAdd")
    /\ participants' = Append(participants, [user |-> ev[p].user, connected |-> TRUE])
    /\ Move(p, IF Cardinality(Connected') >= 1 /\ status = "waiting" THEN "joinActivate"
               ELSE "joinTell")
    /\ UNCHANGED <<status, initiator, fails, overlapped>>

\* The push and the decision taken on the document it returns.
JoinAdd(p) ==
    /\ At(p, "joinAdd")
    /\ participants' = Append(participants, [user |-> ev[p].user, connected |-> TRUE])
    /\ Move(p, IF Cardinality(Connected') = 2 /\ status = "waiting" THEN "joinActivate"
               ELSE "joinTell")
    /\ UNCHANGED <<status, initiator, fails, overlapped>>

JoinActivate(p) ==
    /\ At(p, "joinActivate")
    /\ status' = "active"
    /\ Move(p, "joinTell")
    /\ UNCHANGED <<participants, initiator, fails, overlapped>>

\* Mutant: everybody is told to initiate who sees at most one other.
JoinTellEither(p) ==
    /\ At(p, "joinTell")
    /\ LET u == ev[p].user
           others == {i \in Connected : participants[i].user # u}
       IN initiator' = IF Cardinality(others) <= 1 THEN initiator \cup {u} ELSE initiator \ {u}
    /\ Finish(p)
    /\ UNCHANGED <<status, participants, fails, overlapped>>

\* The session is read again, and the one who sees nobody else is to initiate.
JoinTell(p) ==
    /\ At(p, "joinTell")
    /\ LET u == ev[p].user
           others == {i \in Connected : participants[i].user # u}
       IN initiator' = IF others = {} THEN initiator \cup {u} ELSE initiator \ {u}
    /\ Finish(p)
    /\ UNCHANGED <<status, participants, fails, overlapped>>

\* leaveCall: the look-up only asks whether the session exists, which it goes on
\* doing.  Who leaves stops initiating.
LeaveRemove(p) ==
    /\ status # "none"
    /\ \E u \in User :
          /\ Arrives(p, u, "leaveCheck")
          /\ SetConnected(u, FALSE)
          /\ initiator' = initiator \ {u}
    /\ UNCHANGED <<status, fails>>

\* Mutant: a call is over as soon as it is left.
LeaveCheckNobody(p) ==
    /\ At(p, "leaveCheck")
    /\ IF Cardinality(Connected) = 1 THEN Move(p, "leaveEnd") ELSE Finish(p)
    /\ UNCHANGED <<status, participants, initiator, fails, overlapped>>

LeaveCheck(p) ==
    /\ At(p, "leaveCheck")
    /\ IF Connected = {} THEN Move(p, "leaveEnd") ELSE Finish(p)
    /\ UNCHANGED <<status, participants, initiator, fails, overlapped>>

LeaveEnd(p) ==
    /\ At(p, "leaveEnd")
    /\ status' = "ended"
    /\ Finish(p)
    /\ UNCHANGED <<participants, initiator, fails, overlapped>>

\* endCall marks the session and leaves the participants as they are.
EndCall ==
    /\ status # "none"
    /\ status' = "ended"
    /\ UNCHANGED <<participants, ev, initiator, fails, overlapped>>

\* Any await may reject: the event ends there, its writes stay.
EventFails(p) ==
    /\ ~At(p, "idle")
    /\ fails < MaxFail
    /\ fails' = fails + 1
    /\ Finish(p)
    /\ UNCHANGED <<status, participants, initiator, overlapped>>

EventStep(p) ==
    \/ JoinFind(p) \/ JoinLookup(p) \/ JoinCreate(p) \/ JoinReconnect(p)
    \/ JoinAdd(p) \/ JoinActivate(p) \/ JoinTell(p)
    \/ LeaveRemove(p) \/ LeaveCheck(p) \/ LeaveEnd(p)
    \/ EventFails(p)

CallInit ==
    /\ status = "none"
    /\ participants = <<>>
    /\ ev = [p \in Event |-> Idle]
    /\ initiator = {}
    /\ fails = 0
    /\ overlapped = {}

CallNext == EndCall \/ \E p \in Event : EventStep(p)

CallSpec == CallInit /\ [][CallNext]_callVars

(***************************************************************************)
(* Properties.                                                             *)
(***************************************************************************)
\* A slot holds an await and its user; the lists hold participants.
CallTypeOK ==
    /\ status \in {"none", "waiting", "active", "ended"}
    /\ participants \in Seq(Participant)
    /\ ev \in [Event -> Activity]
    /\ initiator \subseteq User
    /\ fails \in Nat
    /\ overlapped \subseteq User

\* A user whose events never overlapped is listed once: joinCall decides on a
\* session it read awaits before the push.
OneEntryUnlessOverlapped ==
    \A u \in User \ overlapped : \A i, j \in EntriesOf(u) : i = j

\* A call is active only once two different users were in it ("connectedCount ===
\* 2" counts entries, and a user may be listed twice).
ActiveMeansTwoUsers ==
    status = "active" /\ overlapped = {} =>
        \E u, v \in User : u # v /\ EntriesOf(u) # {} /\ EntriesOf(v) # {}

\* At most one of those connected was told to initiate: two initiators would
\* offer to each other at once, however joins and leaves interleave.
OneInitiator ==
    \A u, v \in initiator \ overlapped :
        (\E i \in EntriesOf(u), j \in EntriesOf(v) : {i, j} \subseteq Connected) => u = v

\* Whoever leaves last ends the call, however the leaves and joins of different
\* users interleave; only a leave that fails can leave an empty call open.
EmptyMeansEnded ==
    AllIdle /\ overlapped = {} /\ fails = 0 /\ status # "none" /\ Connected = {}
        => status = "ended"

\* A call that ended while no join was about to activate it is over for good,
\* although its document goes on being joined.
Over == status = "ended" /\ \A p \in Event : ~At(p, "joinActivate")

OverForGood == [][Over => Over']_callVars
=============================================================================

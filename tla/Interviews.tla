----------------------------- MODULE Interviews -----------------------------
(***************************************************************************)
(* The interviews of applications, and what their candidates are told of   *)
(* them: each change is one write on the application, after it a           *)
(* notification is created, and after that the sockets are told.           *)
(***************************************************************************)
EXTENDS Notifications

CONSTANT Brought    \* the interviews the body of a filed application may bring

VARIABLES
    interviews,    \* interviews, in the order they were added
    changes,       \* interviews filed and changes of interviews so far
    unannounced    \* history: interviews whose candidate was told nothing, or something else

interviewVars == <<interviews, changes, unannounced>>
noteVars == <<bellVars, interviewVars>>

Interview == [of: Person, round: Round, status: InterviewStatus]

ASSUME InterviewAssumption == \A filed \in Brought : filed \in Seq(Interview)

\* Applications are stored as their bodies say, interviews included, and nobody
\* is told of those.
NoteInit ==
    /\ BellInit
    /\ interviews \in Brought
    /\ changes = Len(interviews)
    /\ unannounced = 1..Len(interviews)

\* A candidate has one application here: the interviews of his are its rounds.
SameRound(i) ==
    {k \in 1..Len(interviews) :
        interviews[k].of = interviews[i].of /\ interviews[k].round = interviews[i].round}

\* The slots after interview i changed: what they are about to say of it is old.
Outdated(i) ==
    [q \in Request |->
        IF At(q, "notice") /\ req[q].says.interview = i THEN [req[q] EXCEPT !.stale = TRUE] ELSE req[q]]

\* Bound: an interview changes while MaxChange leaves room for it.
Changes == changes < MaxChange /\ changes' = changes + 1

\* addInterview, which asks nothing of the interviews there are.
Added(u, r) == interviews' = Append(interviews, [of |-> u, round |-> r, status |-> "scheduled"])

scheduleInterview(p) ==
    /\ At(p, "idle") /\ RoomForNote /\ Changes
    /\ \E u \in Person, r \in Round :
          /\ Added(u, r)
          /\ req' = [req EXCEPT ![p] =
                [at |-> "notice", about |-> u, target |-> Null, stale |-> FALSE,
                 says |-> [interview |-> Len(interviews) + 1, status |-> "scheduled"]]]
    /\ UNCHANGED <<notes, owner, told, excused, unannounced>>

\* updateInterview of the repository: the fields given, whatever the status.
Updated(i, status) == Changes /\ interviews' = [interviews EXCEPT ![i].status = status]

\* Interview i becomes status; the candidate is to be told so of interview k.
Announced(p, i, k, status) ==
    /\ Updated(i, status)
    /\ req' = [Outdated(i) EXCEPT ![p] =
          [at |-> "notice", about |-> interviews[i].of, target |-> Null, stale |-> k # i,
           says |-> [interview |-> k, status |-> status]]]
    /\ unannounced' = IF k = i THEN unannounced ELSE unannounced \cup {i}
    /\ UNCHANGED <<notes, owner, told, excused>>

\* Mutant: the candidate is told that the interview is scheduled.
rescheduleAsScheduled(p) ==
    /\ At(p, "idle") /\ RoomForNote
    /\ \E i \in 1..Len(interviews) :
          /\ Updated(i, "rescheduled")
          /\ req' = [Outdated(i) EXCEPT ![p] =
                [at |-> "notice", about |-> interviews[i].of, target |-> Null, stale |-> FALSE,
                 says |-> [interview |-> i, status |-> "scheduled"]]]
    /\ UNCHANGED <<notes, owner, told, excused, unannounced>>

\* Any interview, a cancelled or a completed one too.
rescheduleInterview(p) ==
    /\ At(p, "idle") /\ RoomForNote
    /\ \E i \in 1..Len(interviews) : Announced(p, i, i, "rescheduled")

\* The interview is updated by its id; the one the candidate is told of is the
\* first of its round.
cancelInterview(p) ==
    /\ At(p, "idle") /\ RoomForNote
    /\ \E i \in 1..Len(interviews) :
          \E k \in SameRound(i) :
             /\ \A j \in SameRound(i) : k <= j
             /\ Announced(p, i, k, "cancelled")

\* The service's updateInterview tells nobody.
Quietly(i, status) ==
    /\ Updated(i, status)
    /\ req' = Outdated(i)
    /\ unannounced' = unannounced \cup {i}
    /\ UNCHANGED <<notes, owner, told, excused>>

updateInterview ==
    \E i \in 1..Len(interviews), status \in InterviewStatus : Quietly(i, status)

completeInterview == \E i \in 1..Len(interviews) : Quietly(i, "completed")

\* The notification is created; then sendNotificationToUser counts.
createInterviewNotification(p) ==
    /\ At(p, "notice")
    /\ LET u == req[p].about
           i == req[p].says.interview
       IN /\ Created(u, req[p].says)
          /\ req' = [Overtaken(u) EXCEPT ![p] = Awaiting(u, Null)]
          /\ unannounced' = IF req[p].stale THEN unannounced \cup {i} ELSE unannounced \ {i}
    /\ UNCHANGED <<owner, told, excused, interviews, changes>>

NoticeFails(p) ==
    /\ At(p, "notice")
    /\ unannounced' = unannounced \cup {req[p].says.interview}
    /\ req' = [req EXCEPT ![p] = Idle]
    /\ UNCHANGED <<notes, owner, told, excused, interviews, changes>>

InterviewStep(p) ==
    \/ scheduleInterview(p) \/ rescheduleInterview(p) \/ cancelInterview(p)
    \/ createInterviewNotification(p) \/ NoticeFails(p)

NoteNext ==
    \/ BellNext /\ UNCHANGED interviewVars
    \/ \E p \in Request : InterviewStep(p)
    \/ updateInterview
    \/ completeInterview

NoteSpec == NoteInit /\ [][NoteNext]_noteVars

(***************************************************************************)
(* Properties.                                                             *)
(***************************************************************************)
NoteTypeOK ==
    /\ BellTypeOK
    /\ interviews \in Seq(Interview)
    /\ changes \in Nat
    /\ unannounced \subseteq 1..Len(interviews)

\* What the last notification of an interview says is what became of it, unless
\* it came with its application or was changed quietly since, its notification failed or was overtaken by
\* another change, or a cancellation found another interview of its round.
NoticeAgrees ==
    \A i \in 1..Len(interviews) \ unannounced :
        \/ \E p \in Request : At(p, "notice") /\ req[p].says.interview = i
        \/ \E n \in 1..Len(notes) :
              /\ notes[n].says = [interview |-> i, status |-> interviews[i].status]
              /\ \A m \in (n + 1)..Len(notes) :
                    notes[m].says = Null \/ notes[m].says.interview # i
=============================================================================

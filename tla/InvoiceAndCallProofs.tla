----------------------- MODULE InvoiceAndCallProofs -----------------------
(***************************************************************************)
(* Two small components, each for itself: the numbers of the invoices, and *)
(* the calls of interviews.                                                *)
(*                                                                         *)
(* Invoice numbers have no gaps, for any number of subscriptions, requests *)
(* and months and for any padding.  The order in which the last number is  *)
(* looked up plays no part: it is enough that it is one of those taken.    *)
(* The ledger of InvoiceLedger is implemented by the collection: inserting *)
(* number n + 1 of a month appends one entry to that month's list of n.    *)
(*                                                                         *)
(* The safety properties of CallSessions hold for any number of users and  *)
(* of events in flight.                                                    *)
(***************************************************************************)
EXTENDS Invoicing, CallSessions, FiniteSetTheorems, SequenceTheorems, TLAPS

-----------------------------------------------------------------------------
(***************************************************************************)
(* Calls.                                                                  *)
(***************************************************************************)

IsConnected(u) == \E i \in EntriesOf(u) : participants[i].connected

Tidy == User \ overlapped

InFlight(u) == {p \in Event : ev[p] # Idle /\ ev[p].user = u}

TwoUsers == \E u, v \in User : u # v /\ EntriesOf(u) # {} /\ EntriesOf(v) # {}

\* A document that does not exist lists nobody, and no join is to push to it.
NoneIsEmpty ==
    status = "none" => participants = <<>> /\ \A p \in Event : ~At(p, "joinAdd")

\* The events of a user whose events never overlapped come one at a time.
OneAtATime == \A u \in Tidy : \A p, q \in InFlight(u) : p = q

\* A join that is to push its user finds him unlisted still.
Unlisted ==
    \A p \in Event :
        /\ ev[p].at \in {"joinLookup", "joinCreate", "joinAdd"}
        /\ ev[p].user \in Tidy
        => EntriesOf(ev[p].user) = {}

\* A join that is to reconnect its user finds him listed still.
Listed == \A p \in Event : At(p, "joinReconnect") => EntriesOf(ev[p].user) # {}

\* A join past its push stays connected, and so does who was told to initiate.
JoinersConnected ==
    /\ \A p \in Event :
          ev[p].at \in {"joinActivate", "joinTell"} /\ ev[p].user \in Tidy
              => IsConnected(ev[p].user)
    /\ \A u \in initiator \ overlapped : IsConnected(u)

\* Two users are listed when a join is about to activate the call, and after.
TwoListed ==
    overlapped = {} /\ (status = "active" \/ \E p \in Event : At(p, "joinActivate"))
        => TwoUsers

\* OneInitiator, said of users.
Initiators ==
    \A u, v \in initiator \ overlapped : IsConnected(u) /\ IsConnected(v) => u = v

\* Somebody is about to fill or to end an open call that nobody is in.
SomebodyWill ==
    overlapped = {} /\ fails = 0 /\ status # "none" /\ (\A u \in User : ~IsConnected(u)) =>
        \/ status = "ended"
        \/ \E p \in Event : ev[p].at \in {"joinAdd", "leaveCheck", "leaveEnd"}

CallInv ==
    /\ CallTypeOK /\ NoneIsEmpty /\ OneAtATime /\ OneEntryUnlessOverlapped
    /\ Unlisted /\ Listed /\ JoinersConnected /\ TwoListed /\ Initiators /\ SomebodyWill

-----------------------------------------------------------------------------
(***************************************************************************)
(* What the updates do to the list and to the slots.                       *)
(***************************************************************************)

\* updateParticipantStatus and removeParticipant change one flag of one entry.
LEMMA SetFacts ==
    ASSUME participants \in Seq(Participant), NEW u \in User, NEW c \in BOOLEAN,
           SetConnected(u, c)
    PROVE  /\ participants' \in Seq(Participant)
           /\ participants = <<>> => participants' = <<>>
           /\ \A v \in User : EntriesOf(v)' = EntriesOf(v)
           /\ \A v \in User \ {u} : IsConnected(v)' <=> IsConnected(v)
           /\ (\A i, j \in EntriesOf(u) : i = j) /\ EntriesOf(u) # {} => (IsConnected(u)' <=> c)
           /\ c => (IsConnected(u) => IsConnected(u)')
<1>1. CASE EntriesOf(u) = {}
  BY <1>1 DEF SetConnected, EntriesOf, IsConnected
<1>2. CASE EntriesOf(u) # {}
  <2>1. PICK i \in EntriesOf(u) : participants' = [participants EXCEPT ![i].connected = c]
    BY <1>2 DEF SetConnected
  <2>2. /\ i \in 1..Len(participants) /\ participants[i].user = u
        /\ participants[i] \in Participant
    BY <2>1 DEF EntriesOf
  <2>3. [participants[i] EXCEPT !.connected = c] = [user |-> u, connected |-> c]
    BY <2>2 DEF Participant
  <2>4. /\ participants' \in Seq(Participant)
        /\ Len(participants') = Len(participants)
        /\ participants'[i] = [user |-> u, connected |-> c]
        /\ \A j \in 1..Len(participants) : j # i => participants'[j] = participants[j]
    BY <2>1, <2>2, <2>3 DEF Participant
  <2>5. \A v \in User : EntriesOf(v)' = EntriesOf(v)
    BY <2>2, <2>4 DEF EntriesOf
  <2>6. \A v \in User \ {u} : i \notin EntriesOf(v)
    BY <2>2 DEF EntriesOf
  <2>7. \A v \in User : \A j \in EntriesOf(v) : j \in 1..Len(participants)
    BY DEF EntriesOf
  <2>8. \A v \in User \ {u} : IsConnected(v)' <=> IsConnected(v)
    BY <2>4, <2>5, <2>6, <2>7 DEF IsConnected
  <2>9. (\A j, k \in EntriesOf(u) : j = k) => (IsConnected(u)' <=> c)
    BY <2>1, <2>4, <2>5 DEF IsConnected
  <2>10. c => IsConnected(u)'
    BY <2>1, <2>4, <2>5 DEF IsConnected
  <2> QED
    BY <2>2, <2>4, <2>5, <2>8, <2>9, <2>10
<1> QED
  BY <1>1, <1>2

\* addParticipant lists its user once more, connected.
LEMMA PushFacts ==
    ASSUME participants \in Seq(Participant), NEW u \in User,
           participants' = Append(participants, [user |-> u, connected |-> TRUE])
    PROVE  /\ participants' \in Seq(Participant)
           /\ \A v \in User \ {u} : EntriesOf(v)' = EntriesOf(v)
           /\ EntriesOf(u)' = EntriesOf(u) \cup {Len(participants) + 1}
           /\ \A v \in User \ {u} : IsConnected(v)' <=> IsConnected(v)
           /\ IsConnected(u)'
<1>1. /\ participants' \in Seq(Participant)
      /\ Len(participants') = Len(participants) + 1
      /\ participants'[Len(participants) + 1] = [user |-> u, connected |-> TRUE]
      /\ \A j \in 1..Len(participants) : participants'[j] = participants[j]
  BY DEF Participant
<1>2. \A v \in User \ {u} : EntriesOf(v)' = EntriesOf(v)
  BY <1>1 DEF EntriesOf
<1>3. EntriesOf(u)' = EntriesOf(u) \cup {Len(participants) + 1}
  BY <1>1 DEF EntriesOf
<1>4. \A v \in User : \A j \in EntriesOf(v) : j \in 1..Len(participants)
  BY DEF EntriesOf
<1>5. \A v \in User \ {u} : IsConnected(v)' <=> IsConnected(v)
  BY <1>1, <1>2, <1>4 DEF IsConnected
<1>6. IsConnected(u)'
  BY <1>1, <1>3 DEF IsConnected
<1> QED
  BY <1>1, <1>2, <1>3, <1>5, <1>6

\* Somebody is connected exactly when some entry is.
LEMMA ConnectedUsers ==
    ASSUME participants \in Seq(Participant)
    PROVE  Connected = {} <=> \A u \in User : ~IsConnected(u)
<1>1. \A i \in 1..Len(participants) : participants[i] \in Participant
  OBVIOUS
<1>2. \A i \in 1..Len(participants) : participants[i].user \in User
  BY <1>1 DEF Participant
<1> QED
  BY <1>2 DEF Connected, IsConnected, EntriesOf

\* An event that goes on keeps its user.
LEMMA MoveFacts ==
    ASSUME ev \in [Event -> Activity], NEW p \in Event, ev[p].at \in Joining \cup Leaving,
           NEW l \in Joining \cup Leaving, Move(p, l)
    PROVE  /\ ev' \in [Event -> Activity]
           /\ ev[p].user \in User /\ ev[p] # Idle
           /\ ev'[p].at = l /\ ev'[p].user = ev[p].user
           /\ \A q \in Event : q # p => ev'[q] = ev[q]
           /\ \A u \in User : InFlight(u)' = InFlight(u)
<1>1. /\ ev[p] \in [at: Joining \cup Leaving, user: User]
      /\ ev[p] # Idle
  BY DEF Activity, Idle, Joining, Leaving
<1>2. /\ ev'[p] = [at |-> l, user |-> ev[p].user]
      /\ \A q \in Event : q # p => ev'[q] = ev[q]
  BY <1>1 DEF Move
<1>3. ev' \in [Event -> Activity]
  BY <1>1 DEF Move, Activity
<1>4. ev'[p] # Idle
  BY <1>2 DEF Idle, Joining, Leaving
<1>5. \A u \in User : InFlight(u)' = InFlight(u)
  BY <1>1, <1>2, <1>4 DEF InFlight
<1> QED
  BY <1>1, <1>2, <1>3, <1>5

LEMMA FinishFacts ==
    ASSUME ev \in [Event -> Activity], NEW p \in Event, Finish(p)
    PROVE  /\ ev' \in [Event -> Activity]
           /\ ev'[p] = Idle
           /\ \A q \in Event : q # p => ev'[q] = ev[q]
           /\ \A u \in User : InFlight(u)' \subseteq InFlight(u)
<1>1. /\ ev' \in [Event -> Activity]
      /\ ev'[p] = Idle
      /\ \A q \in Event : q # p => ev'[q] = ev[q]
  BY DEF Finish, Activity
<1> QED
  BY <1>1 DEF InFlight

\* An event that arrives is the only one of its user, or overlaps.
LEMMA ArriveFacts ==
    ASSUME ev \in [Event -> Activity], overlapped \subseteq User, NEW p \in Event,
           NEW u \in User, NEW l \in Joining \cup Leaving, Arrives(p, u, l)
    PROVE  /\ ev' \in [Event -> Activity]
           /\ ev[p] = Idle
           /\ ev'[p].at = l /\ ev'[p].user = u
           /\ \A q \in Event : q # p => ev'[q] = ev[q]
           /\ overlapped \subseteq overlapped' /\ overlapped' \subseteq User
           /\ u \notin overlapped' => InFlight(u) = {}
           /\ InFlight(u)' = InFlight(u) \cup {p}
           /\ \A v \in User \ {u} : InFlight(v)' = InFlight(v)
<1>1. /\ ev[p] = Idle
      /\ \A q \in Event : ev[q].at = "idle" <=> ev[q] = Idle
  BY DEF Arrives, At, Activity, Idle, Joining, Leaving
<1>2. /\ ev'[p] = [at |-> l, user |-> u]
      /\ ev' \in [Event -> Activity]
      /\ \A q \in Event : q # p => ev'[q] = ev[q]
  BY DEF Arrives, Activity
<1>3. ev'[p] # Idle
  BY <1>2 DEF Idle, Joining, Leaving
<1>4. /\ overlapped \subseteq overlapped' /\ overlapped' \subseteq User
      /\ u \notin overlapped' => \A q \in Event : ev[q] # Idle => ev[q].user # u
  BY <1>1 DEF Arrives, At
<1>5. u \notin overlapped' => InFlight(u) = {}
  BY <1>4 DEF InFlight
<1>6. /\ InFlight(u)' = InFlight(u) \cup {p}
      /\ \A v \in User \ {u} : InFlight(v)' = InFlight(v)
  BY <1>1, <1>2, <1>3 DEF InFlight
<1> QED
  BY <1>1, <1>2, <1>4, <1>5, <1>6

-----------------------------------------------------------------------------
(***************************************************************************)
(* The invariant.                                                          *)
(***************************************************************************)

\* Steps that leave the list, the initiators and the history alone.
LEMMA QuietSteps ==
    ASSUME CallInv, NEW p \in Event,
           JoinLookup(p) \/ JoinCreate(p) \/ JoinActivate(p) \/ LeaveCheck(p) \/ LeaveEnd(p)
              \/ EventFails(p)
    PROVE  CallInv'
<1>t. /\ CallTypeOK
      /\ ev \in [Event -> Activity]
      /\ status \in {"none", "waiting", "active", "ended"}
  BY DEF CallInv, CallTypeOK
<1>u. UNCHANGED <<participants, initiator, overlapped>>
  BY DEF JoinLookup, JoinCreate, JoinActivate, LeaveCheck, LeaveEnd, EventFails
<1>e. /\ \A u \in User : EntriesOf(u)' = EntriesOf(u)
      /\ \A u \in User : IsConnected(u)' <=> IsConnected(u)
      /\ TwoUsers' <=> TwoUsers
  BY <1>u DEF EntriesOf, IsConnected, TwoUsers
<1>s. \/ \E l \in Joining \cup Leaving : Move(p, l) /\ ev[p].at \in Joining \cup Leaving
      \/ Finish(p)
  BY DEF JoinLookup, JoinCreate, JoinActivate, LeaveCheck, LeaveEnd, EventFails, At,
         Joining, Leaving, AfterFinding
<1>f. /\ ev' \in [Event -> Activity]
      /\ \A q \in Event : q # p => ev'[q] = ev[q]
      /\ \A u \in User : InFlight(u)' \subseteq InFlight(u)
  BY <1>t, <1>s, MoveFacts, FinishFacts
<1>1. CallTypeOK'
  BY <1>t, <1>u, <1>f DEF CallTypeOK, JoinLookup, JoinCreate, JoinActivate, LeaveCheck,
                          LeaveEnd, EventFails
<1>3. OneAtATime'
  BY <1>u, <1>f DEF CallInv, OneAtATime, Tidy
<1>4. OneEntryUnlessOverlapped'
  BY <1>u, <1>e DEF CallInv, OneEntryUnlessOverlapped
<1>5. Initiators'
  BY <1>t, <1>u, <1>e DEF CallInv, CallTypeOK, Initiators
<1>6. \A u \in Tidy' : u \in Tidy
  BY <1>u DEF Tidy
<1>7. \/ ev'[p] = Idle
      \/ /\ ev'[p].user = ev[p].user /\ ev[p].user \in User
         /\ \/ JoinLookup(p) /\ ev[p].at = "joinLookup"
                /\ ev'[p].at \in {"joinCreate", "joinReconnect", "joinAdd"}
                /\ (ev'[p].at = "joinAdd" => status # "none")
                /\ (ev'[p].at = "joinReconnect" => EntriesOf(ev[p].user) # {})
            \/ JoinCreate(p) /\ ev[p].at = "joinCreate" /\ ev'[p].at = "joinAdd"
                /\ status' = "waiting"
            \/ JoinActivate(p) /\ ev[p].at = "joinActivate" /\ ev'[p].at = "joinTell"
            \/ LeaveCheck(p) /\ ev'[p].at = "leaveEnd"
  <2>1. CASE JoinLookup(p)
    <3>1. PICK l \in {"joinCreate", "joinReconnect", "joinAdd"} :
             /\ Move(p, l) /\ ev[p].at = "joinLookup"
             /\ l = "joinAdd" => status # "none"
             /\ l = "joinReconnect" => EntriesOf(ev[p].user) # {}
      BY <2>1 DEF JoinLookup, At, AfterFinding
    <3> QED
      BY <2>1, <3>1, <1>t, MoveFacts DEF Joining, Leaving
  <2>2. CASE JoinCreate(p)
    BY <2>2, <1>t, MoveFacts, FinishFacts DEF JoinCreate, At, Joining, Leaving
  <2>3. CASE JoinActivate(p)
    BY <2>3, <1>t, MoveFacts DEF JoinActivate, At, Joining, Leaving
  <2>4. CASE LeaveCheck(p)
    BY <2>4, <1>t, MoveFacts, FinishFacts DEF LeaveCheck, At, Joining, Leaving
  <2>5. CASE LeaveEnd(p) \/ EventFails(p)
    BY <2>5, <1>t, FinishFacts DEF LeaveEnd, EventFails
  <2> QED
    BY <2>1, <2>2, <2>3, <2>4, <2>5
<1>2. NoneIsEmpty'
  <2>1. status' = "none" => status = "none"
    BY DEF JoinLookup, JoinCreate, JoinActivate, LeaveCheck, LeaveEnd, EventFails
  <2>2. status' = "none" => ev'[p].at # "joinAdd"
    BY <2>1, <1>7 DEF Idle
  <2> QED
    BY <2>1, <2>2, <1>u, <1>f DEF CallInv, NoneIsEmpty, At
<1>8. Unlisted'
  BY <1>u, <1>e, <1>f, <1>6, <1>7 DEF CallInv, Unlisted, Tidy, Idle
<1>l. Listed'
  <2>1. \A q \in Event \ {p} : ev[q].at = "joinReconnect" => ev[q].user \in User
    BY <1>t DEF Activity, Idle
  <2>2. ev'[p].at = "joinReconnect" =>
           ev'[p].user = ev[p].user /\ ev[p].user \in User /\ EntriesOf(ev[p].user) # {}
    BY <1>7 DEF Idle
  <2> QED
    BY <2>1, <2>2, <1>e, <1>f DEF CallInv, Listed, At
<1>9. JoinersConnected'
  BY <1>t, <1>u, <1>e, <1>f, <1>6, <1>7 DEF CallInv, CallTypeOK, JoinersConnected, Tidy, Idle
<1>10. TwoListed'
  <2>1. \A q \in Event : ev'[q].at = "joinActivate" => ev[q].at = "joinActivate"
    BY <1>f, <1>7 DEF Idle
  <2>2. status' = "active" => status = "active" \/ ev[p].at = "joinActivate"
    BY DEF JoinLookup, JoinCreate, JoinActivate, LeaveCheck, LeaveEnd, EventFails, At
  <2> QED
    BY <2>1, <2>2, <1>u, <1>e DEF CallInv, TwoListed, At
<1>11. SomebodyWill'
  <2> SUFFICES ASSUME overlapped = {}, fails' = 0, status' # "none",
                      \A u \in User : ~IsConnected(u)
               PROVE  status' = "ended"
                         \/ \E q \in Event : ev'[q].at \in {"joinAdd", "leaveCheck", "leaveEnd"}
    BY <1>u, <1>e DEF SomebodyWill
  <2>1. CASE JoinLookup(p)
    <3>1. /\ ev[p].at \notin {"joinAdd", "leaveCheck", "leaveEnd"}
          /\ status' = status /\ fails' = fails
      BY <2>1 DEF JoinLookup, At
    <3> QED
      BY <3>1, <1>f DEF CallInv, SomebodyWill
  <2>2. CASE JoinCreate(p)
    <3>1. CASE status = "none"
      BY <2>2, <3>1, <1>7, <1>t, MoveFacts DEF JoinCreate, At, Joining, Leaving
    <3>2. CASE status # "none"
      <4>1. /\ ev[p].at \notin {"joinAdd", "leaveCheck", "leaveEnd"}
            /\ status' = status /\ fails' = fails
        BY <2>2, <3>2 DEF JoinCreate, At
      <4> QED
        BY <4>1, <3>2, <1>f DEF CallInv, SomebodyWill
    <3> QED
      BY <3>1, <3>2
  <2>3. CASE JoinActivate(p)
    <3>1. ev[p].at = "joinActivate" /\ ev[p].user \in User
      BY <2>3, <1>t, MoveFacts DEF JoinActivate, At, Joining, Leaving
    <3>2. IsConnected(ev[p].user)
      BY <3>1 DEF CallInv, JoinersConnected, Tidy
    <3> QED
      BY <3>1, <3>2
  <2>4. CASE LeaveCheck(p)
    <3>1. Connected = {}
      BY ConnectedUsers, <1>t DEF CallTypeOK
    <3> QED
      BY <2>4, <3>1, <1>t, MoveFacts DEF LeaveCheck, At, Joining, Leaving
  <2>5. CASE LeaveEnd(p)
    BY <2>5 DEF LeaveEnd
  <2>6. CASE EventFails(p)
    BY <2>6, <1>t DEF EventFails, CallTypeOK
  <2> QED
    BY <2>1, <2>2, <2>3, <2>4, <2>5, <2>6
<1> QED
  BY <1>1, <1>2, <1>3, <1>4, <1>5, <1>8, <1>l, <1>9, <1>10, <1>11 DEF CallInv

\* A join arrives; what it finds sends it to push or to reconnect its user.
LEMMA JoinArrives ==
    ASSUME CallInv, NEW p \in Event, JoinFind(p)
    PROVE  CallInv'
<1>t. /\ CallTypeOK
      /\ ev \in [Event -> Activity] /\ overlapped \subseteq User /\ initiator \subseteq User
  BY DEF CallInv, CallTypeOK
<1>u. UNCHANGED <<status, participants, initiator, fails>>
  BY DEF JoinFind
<1>e. /\ \A v \in User : EntriesOf(v)' = EntriesOf(v)
      /\ \A v \in User : IsConnected(v)' <=> IsConnected(v)
      /\ TwoUsers' <=> TwoUsers
  BY <1>u DEF EntriesOf, IsConnected, TwoUsers
<1>1. PICK u \in User, l \in {"joinLookup", "joinReconnect", "joinAdd"} :
         /\ Arrives(p, u, l)
         /\ l = "joinLookup" => status = "none"
         /\ l = "joinAdd" => EntriesOf(u) = {} /\ status # "none"
         /\ l = "joinReconnect" => EntriesOf(u) # {}
  BY DEF JoinFind, AfterFinding
<1>f. /\ ev' \in [Event -> Activity]
      /\ ev[p] = Idle
      /\ ev'[p].at = l /\ ev'[p].user = u
      /\ \A q \in Event : q # p => ev'[q] = ev[q]
      /\ overlapped \subseteq overlapped' /\ overlapped' \subseteq User
      /\ u \notin overlapped' => InFlight(u) = {}
      /\ InFlight(u)' = InFlight(u) \cup {p}
      /\ \A v \in User \ {u} : InFlight(v)' = InFlight(v)
  BY <1>1, <1>t, ArriveFacts DEF Joining
<1>g. l = "joinLookup" => EntriesOf(u) = {}
  BY <1>1 DEF CallInv, NoneIsEmpty, EntriesOf
<1>2. CallTypeOK'
  BY <1>t, <1>u, <1>f DEF CallTypeOK
<1>3. NoneIsEmpty'
  BY <1>1, <1>u, <1>f DEF CallInv, NoneIsEmpty, At
<1>4. OneAtATime'
  BY <1>f DEF CallInv, OneAtATime, Tidy
<1>5. OneEntryUnlessOverlapped'
  BY <1>f, <1>e DEF CallInv, OneEntryUnlessOverlapped
<1>6. Unlisted'
  BY <1>1, <1>f, <1>e, <1>g DEF CallInv, Unlisted, Tidy
<1>l. Listed'
  <2>1. \A q \in Event : ev[q].at = "joinReconnect" => ev[q].user \in User
    BY <1>t DEF Activity, Idle
  <2> QED
    BY <1>1, <2>1, <1>f, <1>e DEF CallInv, Listed, At
<1>7. JoinersConnected'
  BY <1>1, <1>t, <1>u, <1>f, <1>e DEF CallInv, JoinersConnected, Tidy
<1>8. TwoListed'
  BY <1>1, <1>u, <1>f, <1>e DEF CallInv, TwoListed, At
<1>9. Initiators'
  BY <1>t, <1>u, <1>f, <1>e DEF CallInv, Initiators
<1>10. SomebodyWill'
  BY <1>u, <1>f, <1>e DEF CallInv, SomebodyWill, Idle
<1> QED
  BY <1>2, <1>3, <1>4, <1>5, <1>6, <1>l, <1>7, <1>8, <1>9, <1>10 DEF CallInv

\* A user leaves: nobody else's events rely on his being connected, and his own
\* do only if they overlap.
LEMMA LeaveArrives ==
    ASSUME CallInv, NEW p \in Event, LeaveRemove(p)
    PROVE  CallInv'
<1>t. /\ CallTypeOK
      /\ ev \in [Event -> Activity] /\ overlapped \subseteq User /\ initiator \subseteq User
      /\ participants \in Seq(Participant)
  BY DEF CallInv, CallTypeOK
<1>1. PICK u \in User :
         /\ Arrives(p, u, "leaveCheck")
         /\ SetConnected(u, FALSE)
         /\ initiator' = initiator \ {u}
  BY DEF LeaveRemove
<1>u. UNCHANGED <<status, fails>>
  BY DEF LeaveRemove
<1>f. /\ ev' \in [Event -> Activity]
      /\ ev[p] = Idle
      /\ ev'[p].at = "leaveCheck" /\ ev'[p].user = u
      /\ \A q \in Event : q # p => ev'[q] = ev[q]
      /\ overlapped \subseteq overlapped' /\ overlapped' \subseteq User
      /\ u \notin overlapped' => InFlight(u) = {}
      /\ InFlight(u)' = InFlight(u) \cup {p}
      /\ \A v \in User \ {u} : InFlight(v)' = InFlight(v)
  BY <1>1, <1>t, ArriveFacts DEF Leaving
<1>e. /\ participants' \in Seq(Participant)
      /\ participants = <<>> => participants' = <<>>
      /\ \A v \in User : EntriesOf(v)' = EntriesOf(v)
      /\ \A v \in User \ {u} : IsConnected(v)' <=> IsConnected(v)
  BY <1>1, <1>t, SetFacts
<1>w. TwoUsers' <=> TwoUsers
  BY <1>e DEF TwoUsers
<1>2. CallTypeOK'
  BY <1>1, <1>t, <1>u, <1>f, <1>e DEF CallTypeOK
<1>3. NoneIsEmpty'
  BY <1>u, <1>f, <1>e DEF CallInv, NoneIsEmpty, At
<1>4. OneAtATime'
  BY <1>f DEF CallInv, OneAtATime, Tidy
<1>5. OneEntryUnlessOverlapped'
  BY <1>f, <1>e DEF CallInv, OneEntryUnlessOverlapped
<1>6. Unlisted'
  BY <1>f, <1>e DEF CallInv, Unlisted, Tidy
<1>l. Listed'
  <2>1. \A q \in Event : ev[q].at = "joinReconnect" => ev[q].user \in User
    BY <1>t DEF Activity, Idle
  <2> QED
    BY <2>1, <1>f, <1>e DEF CallInv, Listed, At
<1>7. JoinersConnected'
  <2>1. ASSUME NEW q \in Event, NEW v \in Tidy', ev'[q].user = v,
               ev'[q].at \in {"joinActivate", "joinTell"}
        PROVE  IsConnected(v)'
    <3>1. q # p /\ ev'[q] = ev[q] /\ ev[q] # Idle
      BY <2>1, <1>f DEF Idle
    <3>2. v # u /\ v \in User
      BY <2>1, <3>1, <1>f DEF InFlight, Tidy
    <3>3. IsConnected(v)
      BY <2>1, <3>1, <1>f DEF CallInv, JoinersConnected, Tidy
    <3> QED
      BY <3>2, <3>3, <1>e
  <2>2. \A v \in initiator' \ overlapped' : IsConnected(v)'
    BY <1>1, <1>t, <1>f, <1>e DEF CallInv, JoinersConnected
  <2> QED
    BY <2>1, <2>2 DEF JoinersConnected
<1>8. TwoListed'
  BY <1>u, <1>f, <1>w DEF CallInv, TwoListed, At
<1>9. Initiators'
  BY <1>1, <1>t, <1>f, <1>e DEF CallInv, Initiators
<1>10. SomebodyWill'
  BY <1>f DEF SomebodyWill
<1> QED
  BY <1>2, <1>3, <1>4, <1>5, <1>6, <1>l, <1>7, <1>8, <1>9, <1>10 DEF CallInv

\* A listed user is connected again.
LEMMA Reconnects ==
    ASSUME CallInv, NEW p \in Event, NEW u \in User, ev[p].user = u, JoinReconnect(p)
    PROVE  CallInv'
<1>t. /\ CallTypeOK
      /\ ev \in [Event -> Activity] /\ overlapped \subseteq User /\ initiator \subseteq User
      /\ participants \in Seq(Participant)
  BY DEF CallInv, CallTypeOK
<1>u. UNCHANGED <<status, initiator, fails, overlapped>>
  BY DEF JoinReconnect
<1>f. /\ ev' \in [Event -> Activity]
      /\ ev'[p].at = "joinTell" /\ ev'[p].user = u
      /\ \A q \in Event : q # p => ev'[q] = ev[q]
      /\ \A v \in User : InFlight(v)' = InFlight(v)
  BY <1>t, MoveFacts DEF JoinReconnect, At, Joining
<1>e. /\ participants' \in Seq(Participant)
      /\ participants = <<>> => participants' = <<>>
      /\ \A v \in User : EntriesOf(v)' = EntriesOf(v)
      /\ \A v \in User \ {u} : IsConnected(v)' <=> IsConnected(v)
      /\ (\A i, j \in EntriesOf(u) : i = j) /\ EntriesOf(u) # {} => IsConnected(u)'
      /\ IsConnected(u) => IsConnected(u)'
  BY <1>t, <1>f, SetFacts DEF JoinReconnect
<1>w. TwoUsers' <=> TwoUsers
  BY <1>e DEF TwoUsers
<1>c. u \in Tidy => IsConnected(u)'
  <2>1. EntriesOf(u) # {}
    BY DEF JoinReconnect, CallInv, Listed
  <2>2. u \in Tidy => \A i, j \in EntriesOf(u) : i = j
    BY DEF CallInv, OneEntryUnlessOverlapped, Tidy
  <2> QED
    BY <2>1, <2>2, <1>e
<1>2. CallTypeOK'
  BY <1>t, <1>u, <1>f, <1>e DEF CallTypeOK
<1>3. NoneIsEmpty'
  BY <1>u, <1>f, <1>e DEF CallInv, NoneIsEmpty, At
<1>4. OneAtATime'
  BY <1>u, <1>f DEF CallInv, OneAtATime, Tidy
<1>5. OneEntryUnlessOverlapped'
  BY <1>u, <1>e DEF CallInv, OneEntryUnlessOverlapped
<1>6. Unlisted'
  BY <1>u, <1>f, <1>e DEF CallInv, Unlisted, Tidy
<1>l. Listed'
  <2>1. \A q \in Event : ev[q].at = "joinReconnect" => ev[q].user \in User
    BY <1>t DEF Activity, Idle
  <2> QED
    BY <2>1, <1>f, <1>e DEF CallInv, Listed, At
<1>7. JoinersConnected'
  <2>1. \A v \in User : IsConnected(v) => IsConnected(v)'
    BY <1>e
  <2> QED
    BY <1>c, <1>t, <1>u, <1>f, <2>1 DEF CallInv, JoinersConnected, Tidy
<1>8. TwoListed'
  BY <1>u, <1>f, <1>w DEF CallInv, TwoListed, At
<1>9. Initiators'
  BY <1>t, <1>u, <1>e DEF CallInv, Initiators, JoinersConnected
<1>10. SomebodyWill'
  BY <1>c, <1>u, <1>f DEF SomebodyWill, Tidy
<1> QED
  BY <1>2, <1>3, <1>4, <1>5, <1>6, <1>l, <1>7, <1>8, <1>9, <1>10 DEF CallInv

\* A set of two has two members.
LEMMA TwoMembers ==
    ASSUME NEW S, Cardinality(S) = 2
    PROVE  \E i, j \in S : i # j
<1>1. S # {}
  BY FS_EmptySet
<1>2. PICK i \in S : TRUE
  BY <1>1
<1>3. S # {i}
  BY FS_Singleton
<1> QED
  BY <1>2, <1>3

\* A user is pushed: he was not listed, so he is listed once.
LEMMA Pushes ==
    ASSUME CallInv, NEW p \in Event, NEW u \in User, ev[p].user = u, JoinAdd(p)
    PROVE  CallInv'
<1>t. /\ CallTypeOK
      /\ ev \in [Event -> Activity] /\ overlapped \subseteq User /\ initiator \subseteq User
      /\ participants \in Seq(Participant)
  BY DEF CallInv, CallTypeOK
<1>u. UNCHANGED <<status, initiator, fails, overlapped>>
  BY DEF JoinAdd
<1>a. ev[p].at = "joinAdd" /\ ev[p] # Idle
  BY DEF JoinAdd, At, Idle
<1>1. PICK l \in {"joinActivate", "joinTell"} :
         /\ Move(p, l)
         /\ l = "joinActivate" => Cardinality(Connected') = 2
  BY DEF JoinAdd
<1>f. /\ ev' \in [Event -> Activity]
      /\ ev'[p].at = l /\ ev'[p].user = u
      /\ \A q \in Event : q # p => ev'[q] = ev[q]
      /\ \A v \in User : InFlight(v)' = InFlight(v)
  BY <1>1, <1>t, <1>a, MoveFacts DEF Joining
<1>e. /\ participants' \in Seq(Participant)
      /\ \A v \in User \ {u} : EntriesOf(v)' = EntriesOf(v)
      /\ EntriesOf(u)' = EntriesOf(u) \cup {Len(participants) + 1}
      /\ \A v \in User \ {u} : IsConnected(v)' <=> IsConnected(v)
      /\ IsConnected(u)'
  BY <1>t, PushFacts DEF JoinAdd
<1>n. u \in Tidy => EntriesOf(u) = {}
  BY <1>a DEF CallInv, Unlisted
<1>w. TwoUsers => TwoUsers'
  <2>1. \A v \in User : EntriesOf(v) # {} => EntriesOf(v)' # {}
    BY <1>e
  <2> QED
    BY <2>1 DEF TwoUsers
<1>2. CallTypeOK'
  BY <1>t, <1>u, <1>f, <1>e DEF CallTypeOK
<1>3. NoneIsEmpty'
  BY <1>u, <1>a DEF CallInv, NoneIsEmpty, At
<1>4. OneAtATime'
  BY <1>u, <1>f DEF CallInv, OneAtATime, Tidy
<1>5. OneEntryUnlessOverlapped'
  BY <1>u, <1>e, <1>n DEF CallInv, OneEntryUnlessOverlapped, Tidy
<1>6. Unlisted'
  <2>1. ASSUME NEW q \in Event, NEW v \in Tidy, q # p, ev[q].user = v,
               ev[q].at \in {"joinLookup", "joinCreate", "joinAdd"}
        PROVE  EntriesOf(v)' = {}
    <3>1. ev[q] # Idle /\ v \in User
      BY <2>1 DEF Idle, Tidy
    <3>2. v # u
      BY <2>1, <3>1, <1>a DEF CallInv, OneAtATime, InFlight
    <3> QED
      BY <2>1, <3>1, <3>2, <1>e DEF CallInv, Unlisted
  <2> QED
    BY <2>1, <1>u, <1>f DEF Unlisted, Tidy
<1>l. Listed'
  <2>1. \A q \in Event : ev[q].at = "joinReconnect" => ev[q].user \in User
    BY <1>t DEF Activity, Idle
  <2>2. \A v \in User : EntriesOf(v) # {} => EntriesOf(v)' # {}
    BY <1>e
  <2> QED
    BY <2>1, <2>2, <1>f DEF CallInv, Listed, At
<1>7. JoinersConnected'
  <2>1. \A v \in User : IsConnected(v) => IsConnected(v)'
    BY <1>e
  <2> QED
    BY <1>e, <1>t, <1>u, <1>f, <2>1 DEF CallInv, JoinersConnected, Tidy
<1>8. TwoListed'
  <2>1. CASE l = "joinActivate" /\ overlapped = {}
    <3>1. PICK i, j \in Connected' : i # j
      BY <2>1, <1>1, TwoMembers
    <3>2. /\ i \in 1..Len(participants') /\ j \in 1..Len(participants')
          /\ participants'[i] \in Participant /\ participants'[j] \in Participant
      BY <3>1, <1>e DEF Connected
    <3>3. PICK v, w \in User : v = participants'[i].user /\ w = participants'[j].user
      BY <3>2 DEF Participant
    <3>4. i \in EntriesOf(v)' /\ j \in EntriesOf(w)'
      BY <3>2, <3>3 DEF EntriesOf
    <3>5. v # w
      BY <2>1, <3>1, <3>4, <1>5, <1>u DEF OneEntryUnlessOverlapped
    <3>6. TwoUsers'
      BY <3>4, <3>5 DEF TwoUsers
    <3> QED
      BY <3>6 DEF TwoListed
  <2>2. CASE l # "joinActivate" \/ overlapped # {}
    BY <2>2, <1>u, <1>f, <1>w DEF CallInv, TwoListed, At
  <2> QED
    BY <2>1, <2>2
<1>9. Initiators'
  <2>1. u \in initiator \ overlapped => FALSE
    BY <1>n, <1>t DEF CallInv, JoinersConnected, IsConnected, Tidy
  <2> QED
    BY <2>1, <1>t, <1>u, <1>e DEF CallInv, Initiators
<1>10. SomebodyWill'
  BY <1>e DEF SomebodyWill
<1> QED
  BY <1>2, <1>3, <1>4, <1>5, <1>6, <1>l, <1>7, <1>8, <1>9, <1>10 DEF CallInv

\* The answer to a join: whoever is told to initiate sees nobody else.
LEMMA Tells ==
    ASSUME CallInv, NEW p \in Event, NEW u \in User, ev[p].user = u, JoinTell(p)
    PROVE  CallInv'
<1>t. /\ CallTypeOK
      /\ ev \in [Event -> Activity] /\ initiator \subseteq User
      /\ participants \in Seq(Participant)
  BY DEF CallInv, CallTypeOK
<1>u. UNCHANGED <<status, participants, fails, overlapped>>
  BY DEF JoinTell
<1>a. ev[p].at = "joinTell"
  BY DEF JoinTell, At
<1>f. /\ ev' \in [Event -> Activity]
      /\ ev'[p] = Idle
      /\ \A q \in Event : q # p => ev'[q] = ev[q]
      /\ \A v \in User : InFlight(v)' \subseteq InFlight(v)
  BY <1>t, FinishFacts DEF JoinTell
<1>e. /\ \A v \in User : EntriesOf(v)' = EntriesOf(v)
      /\ \A v \in User : IsConnected(v)' <=> IsConnected(v)
      /\ TwoUsers' <=> TwoUsers
  BY <1>u DEF EntriesOf, IsConnected, TwoUsers
<1>1. \/ initiator' = initiator \cup {u} /\ {i \in Connected : participants[i].user # u} = {}
      \/ initiator' = initiator \ {u}
  BY DEF JoinTell
<1>c. initiator' = initiator \cup {u} => \A v \in User \ {u} : ~IsConnected(v) \/ u \in initiator
  <2>1. {i \in Connected : participants[i].user # u} = {} => \A v \in User \ {u} : ~IsConnected(v)
    BY DEF IsConnected, EntriesOf, Connected
  <2> QED
    BY <2>1, <1>1
<1>2. CallTypeOK'
  BY <1>1, <1>t, <1>u, <1>f DEF CallTypeOK
<1>3. NoneIsEmpty'
  BY <1>u, <1>f DEF CallInv, NoneIsEmpty, At, Idle
<1>4. OneAtATime'
  BY <1>u, <1>f DEF CallInv, OneAtATime, Tidy
<1>5. OneEntryUnlessOverlapped'
  BY <1>u, <1>e DEF CallInv, OneEntryUnlessOverlapped
<1>6. Unlisted'
  BY <1>u, <1>f, <1>e DEF CallInv, Unlisted, Tidy, Idle
<1>l. Listed'
  <2>1. \A q \in Event : ev[q].at = "joinReconnect" => ev[q].user \in User
    BY <1>t DEF Activity, Idle
  <2> QED
    BY <2>1, <1>f, <1>e DEF CallInv, Listed, At, Idle
<1>7. JoinersConnected'
  <2>1. u \notin overlapped => IsConnected(u)
    BY <1>a DEF CallInv, JoinersConnected, Tidy
  <2> QED
    BY <2>1, <1>1, <1>t, <1>u, <1>f, <1>e DEF CallInv, JoinersConnected, Tidy, Idle
<1>8. TwoListed'
  BY <1>u, <1>f, <1>e DEF CallInv, TwoListed, At, Idle
<1>9. Initiators'
  BY <1>1, <1>c, <1>t, <1>u, <1>e DEF CallInv, Initiators
<1>10. SomebodyWill'
  BY <1>a, <1>u, <1>f, <1>e DEF CallInv, SomebodyWill
<1> QED
  BY <1>2, <1>3, <1>4, <1>5, <1>6, <1>l, <1>7, <1>8, <1>9, <1>10 DEF CallInv

LEMMA Ends ==
    ASSUME CallInv, EndCall
    PROVE  CallInv'
<1>u. UNCHANGED <<participants, ev, initiator, fails, overlapped>> /\ status' = "ended"
  BY DEF EndCall
<1>e. /\ \A v \in User : EntriesOf(v)' = EntriesOf(v)
      /\ TwoUsers' <=> TwoUsers
  BY <1>u DEF EntriesOf, TwoUsers
<1>1. CallTypeOK'
  BY <1>u DEF CallInv, CallTypeOK
<1>2. OneAtATime' /\ OneEntryUnlessOverlapped' /\ Unlisted' /\ Listed' /\ JoinersConnected' /\ Initiators'
  BY <1>u DEF CallInv, OneAtATime, OneEntryUnlessOverlapped, Unlisted, Listed, JoinersConnected,
              Initiators, Tidy, InFlight, EntriesOf, IsConnected, At
<1>3. TwoListed'
  BY <1>u, <1>e DEF CallInv, TwoListed, At
<1>4. NoneIsEmpty' /\ SomebodyWill'
  BY <1>u DEF NoneIsEmpty, SomebodyWill
<1> QED
  BY <1>1, <1>2, <1>3, <1>4 DEF CallInv

LEMMA CallInvStep == CallInv /\ [CallNext]_callVars => CallInv'
<1> SUFFICES ASSUME CallInv, [CallNext]_callVars
             PROVE  CallInv'
  OBVIOUS
<1>1. CASE UNCHANGED callVars
  BY <1>1 DEF callVars, CallInv, CallTypeOK, NoneIsEmpty, OneAtATime, OneEntryUnlessOverlapped,
              Unlisted, Listed, JoinersConnected, TwoListed, Initiators, SomebodyWill, TwoUsers,
              Tidy, InFlight, EntriesOf, IsConnected, At
<1>2. ASSUME NEW p \in Event, EventStep(p)
      PROVE  CallInv'
  <2>1. ev \in [Event -> Activity]
    BY DEF CallInv, CallTypeOK
  <2>2. At(p, "joinReconnect") \/ At(p, "joinAdd") \/ At(p, "joinTell") => ev[p].user \in User
    BY <2>1 DEF At, Activity, Idle
  <2>3. CASE JoinFind(p)
    BY <2>3, JoinArrives
  <2>4. CASE LeaveRemove(p)
    BY <2>4, LeaveArrives
  <2>5. CASE JoinReconnect(p)
    BY <2>2, <2>5, Reconnects DEF JoinReconnect
  <2>6. CASE JoinAdd(p)
    BY <2>2, <2>6, Pushes DEF JoinAdd
  <2>7. CASE JoinTell(p)
    BY <2>2, <2>7, Tells DEF JoinTell
  <2>8. CASE JoinLookup(p) \/ JoinCreate(p) \/ JoinActivate(p) \/ LeaveCheck(p) \/ LeaveEnd(p)
                \/ EventFails(p)
    BY <2>8, QuietSteps
  <2> QED
    BY <1>2, <2>3, <2>4, <2>5, <2>6, <2>7, <2>8 DEF EventStep
<1> QED
  BY <1>1, <1>2, Ends DEF CallNext

LEMMA CallInvInit == CallInit => CallInv
<1> SUFFICES ASSUME CallInit
             PROVE  CallInv
  OBVIOUS
<1>1. /\ \A p \in Event : ev[p] = Idle
      /\ \A u \in User : EntriesOf(u) = {}
  BY DEF CallInit, EntriesOf
<1>2. CallTypeOK
  BY DEF CallInit, CallTypeOK, Activity
<1> QED
  BY <1>1, <1>2 DEF CallInit, CallInv, NoneIsEmpty, OneAtATime, OneEntryUnlessOverlapped, Unlisted,
                    Listed, JoinersConnected, TwoListed, Initiators, SomebodyWill, InFlight, At, Idle

LEMMA CallInvAlways == CallSpec => []CallInv
  BY CallInvInit, CallInvStep, PTL DEF CallSpec

-----------------------------------------------------------------------------
(***************************************************************************)
(* The theorems.                                                           *)
(***************************************************************************)

\* Every reachable state of a call is well typed.
THEOREM CallTypesCorrect == CallSpec => []CallTypeOK
<1>1. CallInv => CallTypeOK
  BY DEF CallInv
<1> QED
  BY <1>1, CallInvAlways, PTL

\* However the events of different users interleave, joinCall lists nobody twice
\* whose own events never overlapped.
THEOREM NobodyIsListedTwice == CallSpec => []OneEntryUnlessOverlapped
<1>1. CallInv => OneEntryUnlessOverlapped
  BY DEF CallInv
<1> QED
  BY <1>1, CallInvAlways, PTL

\* joinCall's count of two entries means two users.
THEOREM ActiveCallsHadTwo == CallSpec => []ActiveMeansTwoUsers
<1>1. CallInv => ActiveMeansTwoUsers
  BY DEF CallInv, TwoListed, TwoUsers, ActiveMeansTwoUsers
<1> QED
  BY <1>1, CallInvAlways, PTL

\* No two users in the call were both told to make the first offer.
THEOREM AtMostOneInitiates == CallSpec => []OneInitiator
<1>1. ASSUME NEW u \in User, NEW v \in User, NEW i \in EntriesOf(u), NEW j \in EntriesOf(v),
             {i, j} \subseteq Connected
      PROVE  IsConnected(u) /\ IsConnected(v)
  BY <1>1 DEF IsConnected, Connected
<1>2. CallInv => OneInitiator
  BY <1>1 DEF CallInv, CallTypeOK, Initiators, OneInitiator
<1> QED
  BY <1>2, CallInvAlways, PTL

\* A call that nobody is in, and that no event is about to change, has ended.
THEOREM EmptyCallsEnd == CallSpec => []EmptyMeansEnded
<1>1. ASSUME CallInv
      PROVE  EmptyMeansEnded
  <2>1. Connected = {} => \A u \in User : ~IsConnected(u)
    BY <1>1, ConnectedUsers DEF CallInv, CallTypeOK
  <2> QED
    BY <1>1, <2>1 DEF CallInv, SomebodyWill, EmptyMeansEnded, AllIdle, At
<1> QED
  BY <1>1, CallInvAlways, PTL

\* No join begun after a call ended makes it active again.
THEOREM EndedCallsStayEnded == CallSpec => OverForGood
<1>1. CallInv /\ [CallNext]_callVars => (Over => Over')
  <2> SUFFICES ASSUME CallInv, [CallNext]_callVars, Over
               PROVE  Over'
    OBVIOUS
  <2>t. ev \in [Event -> Activity]
    BY DEF CallInv, CallTypeOK
  <2>1. CASE UNCHANGED callVars \/ EndCall
    BY <2>1 DEF callVars, EndCall, Over, At
  <2>2. ASSUME NEW p \in Event, EventStep(p)
        PROVE  Over'
    <3>1. status' = "ended"
      BY <2>2 DEF Over, EventStep, JoinFind, JoinLookup, JoinCreate, JoinReconnect, JoinAdd,
                  JoinActivate, JoinTell, LeaveRemove, LeaveCheck, LeaveEnd, EventFails
    <3>2. \/ Finish(p)
          \/ \E l \in (Joining \cup Leaving) \ {"joinActivate"} :
                \/ Move(p, l)
                \/ \E u \in User : Arrives(p, u, l)
      BY <2>2 DEF Over, EventStep, JoinFind, JoinLookup, JoinCreate, JoinReconnect, JoinAdd,
                  JoinActivate, JoinTell, LeaveRemove, LeaveCheck, LeaveEnd, EventFails,
                  AfterFinding, Joining, Leaving
    <3>3. \A q \in Event : q # p => ev'[q] = ev[q]
      BY <2>t, <3>2 DEF Finish, Move, Arrives
    <3>4. ev'[p].at # "joinActivate"
      BY <2>t, <3>2 DEF Finish, Move, Arrives, Idle, Joining, Leaving, Activity
    <3> QED
      BY <3>1, <3>3, <3>4 DEF Over, At
  <2> QED
    BY <2>1, <2>2 DEF CallNext
<1> QED
  BY <1>1, CallInvAlways, PTL DEF CallSpec, OverForGood

-----------------------------------------------------------------------------
(***************************************************************************)
(* Invoices.                                                               *)
(***************************************************************************)

\* A number a request is about to insert is at most one past the end.
NumbersInReach ==
    \A p \in Request : call[p].at = "create" =>
        call[p].seq <= Cardinality(OfMonth(call[p].month)) + 1

Inv ==
    /\ InvoicingTypeOK
    /\ IsFiniteSet(book)
    /\ NumbersGapless
    /\ NumbersInReach

LEMMA OfMonthFinite ==
    ASSUME Inv, NEW m \in Month
    PROVE  /\ IsFiniteSet(OfMonth(m))
           /\ Cardinality(OfMonth(m)) \in Nat
<1>1. OfMonth(m) \subseteq book
  BY DEF OfMonth
<1>2. IsFiniteSet(OfMonth(m))
  BY <1>1, FS_Subset DEF Inv
<1> QED
  BY <1>2, FS_CardinalityType

\* What the slots hold.
LEMMA CallTypes ==
    ASSUME InvoicingTypeOK, NEW p \in Request
    PROVE  /\ call[p].at = "number" => call[p].sub \in Sub
           /\ call[p].at = "create" =>
                 call[p].sub \in Sub /\ call[p].month \in Month /\ call[p].seq \in Nat \ {0}
           /\ call[p].at = "upload" => call[p].invoice \in Invoice
<1>1. call[p] \in Call
  BY DEF InvoicingTypeOK
<1> QED
  BY <1>1 DEF Call

LEMMA InitInv == Init => Inv
<1> SUFFICES ASSUME Init PROVE Inv
  OBVIOUS
<1>1. InvoicingTypeOK
  BY InvoicingAssumption DEF Init, InvoicingTypeOK, Call, Month
<1>2. \A m : OfMonth(m) = {} /\ SeqsOf(m) = {}
  BY DEF Init, OfMonth, SeqsOf
<1>3. IsFiniteSet({}) /\ Cardinality({}) = 0
  BY FS_EmptySet
<1>4. NumbersGapless
  BY <1>2, <1>3 DEF NumbersGapless
<1> QED
  BY <1>1, <1>3, <1>4 DEF Init, Inv, NumbersInReach

\* Inserting a free number that is in reach: it is the next one.
LEMMA InsertGapless ==
    ASSUME Inv, NEW i \in Invoice, i.seq \notin SeqsOf(i.month),
           i.seq <= Cardinality(OfMonth(i.month)) + 1,
           book' = book \cup {i}
    PROVE  /\ IsFiniteSet(book')
           /\ NumbersGapless'
           /\ \A m \in Month : Cardinality(OfMonth(m)) <= Cardinality(OfMonth(m)')
<1>1. IsFiniteSet(book')
  BY FS_AddElement DEF Inv
<1>2. ASSUME NEW m \in Month
      PROVE  /\ SeqsOf(m)' = 1..Cardinality(OfMonth(m)')
             /\ Cardinality(OfMonth(m)) <= Cardinality(OfMonth(m)')
  <2> DEFINE k == Cardinality(OfMonth(m))
  <2>1. IsFiniteSet(OfMonth(m)) /\ k \in Nat /\ SeqsOf(m) = 1..k
    BY OfMonthFinite DEF Inv, NumbersGapless
  <2>2. CASE i.month # m
    <3>1. OfMonth(m)' = OfMonth(m)
      BY <2>2 DEF OfMonth
    <3>2. SeqsOf(m)' = SeqsOf(m)
      BY <3>1 DEF SeqsOf
    <3> QED
      BY <2>1, <3>1, <3>2
  <2>3. CASE i.month = m
    <3>1. OfMonth(m)' = OfMonth(m) \cup {i}
      BY <2>3 DEF OfMonth
    <3>2. i \notin OfMonth(m)
      BY <2>3 DEF SeqsOf
    <3>3. Cardinality(OfMonth(m)') = k + 1
      BY <2>1, <3>1, <3>2, FS_AddElement
    <3>4. i.seq = k + 1
      <4>1. i.seq \in Nat \ {0} /\ i.seq <= k + 1 /\ i.seq \notin 1..k
        BY <2>1, <2>3 DEF Invoice
      <4> HIDE DEF k
      <4> QED
        BY <2>1, <4>1
    <3>5. SeqsOf(m)' = SeqsOf(m) \cup {i.seq}
      BY <3>1 DEF SeqsOf
    <3>6. (1..k) \cup {k + 1} = 1..(k + 1)
      <4> HIDE DEF k
      <4> QED
        BY <2>1
    <3>7. SeqsOf(m)' = 1..(k + 1)
      BY <2>1, <3>4, <3>5, <3>6
    <3>8. k <= k + 1
      <4> HIDE DEF k
      <4> QED
        BY <2>1
    <3> QED
      BY <3>3, <3>7, <3>8
  <2> QED
    BY <2>2, <2>3
<1> QED
  BY <1>1, <1>2 DEF NumbersGapless

\* One slot moves on and the collection does not change.
LEMMA SameBook ==
    ASSUME Inv, InvoicingTypeOK', UNCHANGED book,
           \A q \in Request : call'[q].at = "create" =>
               \/ call'[q] = call[q]
               \/ call'[q].seq <= Cardinality(OfMonth(call'[q].month)) + 1
    PROVE  Inv'
<1>1. \A m : OfMonth(m)' = OfMonth(m) /\ SeqsOf(m)' = SeqsOf(m)
  BY DEF OfMonth, SeqsOf
<1>2. NumbersGapless'
  BY <1>1 DEF Inv, NumbersGapless, Month
<1>3. NumbersInReach'
  <2> SUFFICES ASSUME NEW q \in Request, call'[q].at = "create"
               PROVE  call'[q].seq <= Cardinality(OfMonth(call[q].month)') + 1
    BY DEF NumbersInReach
  <2>1. OfMonth(call[q].month)' = OfMonth(call'[q].month)
    BY DEF OfMonth
  <2> QED
    BY <2>1 DEF Inv, NumbersInReach
<1> QED
  BY <1>2, <1>3 DEF Inv

LEMMA StepInv ==
    ASSUME Inv, [Next]_vars
    PROVE  Inv'
<1>t. InvoicingTypeOK
  BY DEF Inv
<1>i. [at |-> "idle"] \in Call
  BY DEF Call
<1>1. CASE NextMonth
  <2>1. InvoicingTypeOK'
    BY <1>1, <1>t, InvoicingAssumption DEF NextMonth, InvoicingTypeOK, Month
  <2> QED
    BY <1>1, <2>1, SameBook DEF NextMonth
<1>2. ASSUME NEW p \in Request, Lookup(p)
      PROVE  Inv'
  <2>1. PICK s \in Sub : \/ UNCHANGED call
                         \/ Become(p, [at |-> "number", sub |-> s])
    BY <1>2 DEF Lookup
  <2>2. [at |-> "number", sub |-> s] \in Call
    BY DEF Call
  <2>3. InvoicingTypeOK'
    BY <1>2, <1>t, <2>1, <2>2 DEF Lookup, Become, InvoicingTypeOK
  <2>4. \A q \in Request : call'[q].at = "create" => call'[q] = call[q]
    BY <1>t, <2>1 DEF Become, InvoicingTypeOK
  <2> QED
    BY <1>2, <2>3, <2>4, SameBook DEF Lookup
<1>3. ASSUME NEW p \in Request, Number(p)
      PROVE  Inv'
  <2> DEFINE k == Cardinality(OfMonth(month))
  <2>1. month \in Month /\ k \in Nat /\ SeqsOf(month) = 1..k
    BY <1>t, OfMonthFinite DEF Inv, NumbersGapless, InvoicingTypeOK
  <2>2. PICK n \in IF SeqsOf(month) = {} THEN {1}
                   ELSE {l + 1 : l \in Last(SeqsOf(month))} :
          Become(p, [at |-> "create", sub |-> call[p].sub, month |-> month, seq |-> n])
    BY <1>3 DEF Number
  <2>3. n \in Nat \ {0} /\ n <= k + 1
    <3>1. Last(SeqsOf(month)) \subseteq 1..k
      BY <2>1 DEF Last
    <3> HIDE DEF k
    <3> QED
      BY <2>1, <2>2, <3>1
  <2>4. [at |-> "create", sub |-> call[p].sub, month |-> month, seq |-> n] \in Call
    BY <1>3, <1>t, <2>1, <2>3, CallTypes DEF Number, Call
  <2>5. InvoicingTypeOK'
    BY <1>3, <1>t, <2>2, <2>4 DEF Number, Become, InvoicingTypeOK
  <2>6. call'[p].seq = n /\ call'[p].month = month
    BY <1>t, <2>2 DEF Become, InvoicingTypeOK
  <2>7. \A q \in Request : q # p => call'[q] = call[q]
    BY <1>t, <2>2 DEF Become, InvoicingTypeOK
  <2>8. call'[p].seq <= Cardinality(OfMonth(call'[p].month)) + 1
    BY <2>3, <2>6
  <2>9. UNCHANGED book
    BY <1>3 DEF Number
  <2> QED
    BY <2>5, <2>7, <2>8, <2>9, SameBook
<1>4. ASSUME NEW p \in Request, Create(p)
      PROVE  Inv'
  <2>1. /\ call[p].at = "create" /\ call[p].sub \in Sub
        /\ call[p].month \in Month /\ call[p].seq \in Nat \ {0}
    BY <1>4, <1>t, CallTypes DEF Create
  <2>2. PICK i \in Invoice :
          i = [month |-> call[p].month, seq |-> call[p].seq, sub |-> call[p].sub]
    BY <2>1 DEF Invoice
  <2>3. IF i.seq \in SeqsOf(i.month)
        THEN End(p) /\ UNCHANGED book
        ELSE book' = book \cup {i} /\ Become(p, [at |-> "upload", invoice |-> i])
    BY <1>4, <2>2 DEF Create
  <2>4. [at |-> "upload", invoice |-> i] \in Call
    BY DEF Call
  <2>5. InvoicingTypeOK'
    BY <1>4, <1>t, <1>i, <2>3, <2>4 DEF Create, End, Become, InvoicingTypeOK
  <2>6. \A q \in Request : call'[q].at = "create" => call'[q] = call[q]
    BY <1>t, <2>3 DEF End, Become, InvoicingTypeOK
  <2>7. CASE i.seq \in SeqsOf(i.month)
    BY <2>3, <2>5, <2>6, <2>7, SameBook
  <2>8. CASE i.seq \notin SeqsOf(i.month)
    <3>1. i.seq = call[p].seq /\ i.month = call[p].month
      BY <2>2
    <3>2. i.seq <= Cardinality(OfMonth(i.month)) + 1
      BY <2>1, <3>1 DEF Inv, NumbersInReach
    <3>3. book' = book \cup {i}
      BY <2>3, <2>8
    <3>4. /\ IsFiniteSet(book')
          /\ NumbersGapless'
          /\ \A m \in Month : Cardinality(OfMonth(m)) <= Cardinality(OfMonth(m)')
      BY <2>8, <3>2, <3>3, InsertGapless
    <3>5. ASSUME NEW q \in Request, call'[q].at = "create"
          PROVE  call'[q].seq <= Cardinality(OfMonth(call[q].month)') + 1
      <4>1. PICK m \in Month : m = call[q].month
        BY <2>6, <3>5, <1>t, CallTypes
      <4>2. call'[q] = call[q]
        BY <2>6, <3>5
      <4>3. call[q].seq \in Nat /\ call[q].seq <= Cardinality(OfMonth(m)) + 1
        BY <1>t, <3>5, <4>1, <4>2, CallTypes DEF Inv, NumbersInReach
      <4>4. Cardinality(OfMonth(m)) \in Nat
        BY OfMonthFinite
      <4>5. OfMonth(m)' \subseteq book'
        BY DEF OfMonth
      <4>6. Cardinality(OfMonth(m)') \in Nat
        BY <3>4, <4>5, FS_Subset, FS_CardinalityType
      <4>7. OfMonth(call[q].month)' = OfMonth(m)'
        BY <4>1, <4>2 DEF OfMonth
      <4> QED
        BY <3>4, <4>2, <4>3, <4>4, <4>6, <4>7
    <3>6. NumbersInReach'
      BY <3>5 DEF NumbersInReach
    <3> QED
      BY <2>5, <3>4, <3>6 DEF Inv
  <2> QED
    BY <2>7, <2>8
<1>5. ASSUME NEW p \in Request, Upload(p)
      PROVE  Inv'
  <2>1. InvoicingTypeOK'
    <3>1. call[p].invoice \in Invoice
      BY <1>5, <1>t, CallTypes DEF Upload
    <3> QED
      BY <1>5, <1>t, <1>i, <3>1 DEF Upload, End, Become, InvoicingTypeOK
  <2>2. \A q \in Request : call'[q].at = "create" => call'[q] = call[q]
    BY <1>5, <1>t DEF Upload, End, Become, InvoicingTypeOK
  <2> QED
    BY <1>5, <2>1, <2>2, SameBook DEF Upload
<1>6. CASE UNCHANGED vars
  <2>1. InvoicingTypeOK'
    BY <1>6, <1>t DEF vars, InvoicingTypeOK
  <2> QED
    BY <1>6, <2>1, SameBook DEF vars
<1> QED
  BY <1>1, <1>2, <1>3, <1>4, <1>5, <1>6 DEF Next

\* The numbers of every month are 1, 2, 3 ... without a gap or a repetition,
\* for any number of overlapping confirmations, whatever month they are in and
\* however the last number is sorted.
THEOREM NumbersNeverSkip == Spec => []NumbersGapless
<1>1. Init => Inv
  BY InitInv
<1>2. Inv /\ [Next]_vars => Inv'
  BY StepInv
<1>3. Inv => NumbersGapless
  BY DEF Inv
<1> QED
  BY <1>1, <1>2, <1>3, PTL DEF Spec

-----------------------------------------------------------------------------
(***************************************************************************)
(* The collection implements the ledger.                                   *)
(***************************************************************************)

Holders(m, n) == {i.sub : i \in {j \in OfMonth(m) : j.seq = n}}

Entries(m) == [n \in 1..Cardinality(OfMonth(m)) |-> Holders(m, n)]

Refined == [m \in Month |-> Entries(m)]

\* An insert is entered at the end of its month's list.
LEMMA InsertEnters ==
    ASSUME Inv, NEW i \in Invoice, i.seq \notin SeqsOf(i.month),
           i.seq <= Cardinality(OfMonth(i.month)) + 1, book' = book \cup {i}
    PROVE  /\ Entries(i.month)' = Append(Entries(i.month), {i.sub})
           /\ \A m \in Month \ {i.month} : Entries(m)' = Entries(m)
<1> DEFINE m == i.month
<1>m. m \in Month /\ i.seq \in Nat \ {0} /\ i.sub \in Sub
  BY DEF Invoice
<1>k. PICK k \in Nat : k = Cardinality(OfMonth(m))
  BY <1>m, OfMonthFinite
<1>1. IsFiniteSet(OfMonth(m)) /\ SeqsOf(m) = 1..k
  BY <1>k, <1>m, OfMonthFinite DEF Inv, NumbersGapless
<1>2. book' = book \cup {i} /\ i \notin OfMonth(m)
  BY DEF SeqsOf
<1>3. OfMonth(i.month)' = OfMonth(m) \cup {i}
  BY <1>2 DEF OfMonth
<1>4. Cardinality(OfMonth(i.month)') = k + 1
  BY <1>k, <1>1, <1>2, <1>3, FS_AddElement
<1>5. i.seq = k + 1
  BY <1>k, <1>m, <1>1
<1>6. \A j \in OfMonth(m) : j.seq \in 1..k
  BY <1>1 DEF SeqsOf
<1>7. \A n \in 1..k : Holders(i.month, n)' = Holders(m, n)
  <2> SUFFICES ASSUME NEW n \in 1..k PROVE Holders(i.month, n)' = Holders(m, n)
    OBVIOUS
  <2>1. i.seq # n
    BY <1>5
  <2> QED
    BY <2>1, <1>3 DEF Holders
<1>8. Holders(i.month, k + 1)' = {i.sub}
  <2>1. \A j \in OfMonth(m) : j.seq # k + 1
    BY <1>6
  <2>2. {j \in OfMonth(i.month)' : j.seq = k + 1} = {i}
    BY <2>1, <1>3, <1>5
  <2> QED
    BY <2>2 DEF Holders
<1>9. Entries(i.month)' = Append(Entries(i.month), {i.sub})
  <2>1. Entries(i.month)' = [n \in 1..(k + 1) |-> IF n = k + 1 THEN {i.sub} ELSE Holders(m, n)]
    <3>1. Entries(i.month)' = [n \in 1..(k + 1) |-> Holders(i.month, n)']
      BY <1>4 DEF Entries
    <3>2. \A n \in 1..(k + 1) : n = k + 1 \/ n \in 1..k
      OBVIOUS
    <3>3. \A n \in 1..(k + 1) :
             Holders(i.month, n)' = IF n = k + 1 THEN {i.sub} ELSE Holders(m, n)
      BY <3>2, <1>7, <1>8
    <3> QED
      BY <3>1, <3>3
  <2>2. Entries(i.month) = [n \in 1..k |-> Holders(m, n)]
    BY <1>k DEF Entries
  <2>3. /\ \A n \in 1..k : Holders(m, n) \in SUBSET Sub
        /\ {i.sub} \in SUBSET Sub
    BY <1>m DEF Holders, OfMonth, Inv, InvoicingTypeOK, Invoice
  <2>4. ASSUME NEW f, NEW j \in Nat, NEW T, NEW x \in T, f = [n \in 1..j |-> Holders(m, n)],
               \A n \in 1..j : Holders(m, n) \in T
        PROVE  Append(f, x) = [n \in 1..(j + 1) |-> IF n = j + 1 THEN x ELSE Holders(m, n)]
    <3>1. f \in Seq(T) /\ Len(f) = j
      BY <2>4
    <3> QED
      BY <3>1, <2>4, AppendProperties
  <2> QED
    BY <2>1, <2>2, <2>3, <2>4
<1>10. ASSUME NEW e \in Month \ {i.month} PROVE Entries(e)' = Entries(e)
  <2>1. OfMonth(e)' = OfMonth(e)
    BY DEF OfMonth
  <2> QED
    BY <2>1 DEF Entries, Holders
<1> QED
  BY <1>9, <1>10

LEMMA BookKept ==
    ASSUME UNCHANGED book
    PROVE  Refined' = Refined
<1>1. \A m : OfMonth(m)' = OfMonth(m)
  BY DEF OfMonth
<1> QED
  BY <1>1 DEF Refined, Entries, Holders

LEMMA StepEnters ==
    ASSUME Inv, [Next]_vars
    PROVE  \/ Refined' = Refined
           \/ \E m \in Month, s \in Sub :
                 Refined' = [Refined EXCEPT ![m] = Append(@, {s})]
<1>1. CASE UNCHANGED book
  BY <1>1, BookKept
<1>2. ASSUME NEW p \in Request, Create(p), ~UNCHANGED book
      PROVE  \E m \in Month, s \in Sub :
                 Refined' = [Refined EXCEPT ![m] = Append(@, {s})]
  <2>1. /\ call[p].at = "create" /\ call[p].sub \in Sub
        /\ call[p].month \in Month /\ call[p].seq \in Nat \ {0}
    BY <1>2, CallTypes DEF Create, Inv
  <2>2. PICK i \in Invoice :
          i = [month |-> call[p].month, seq |-> call[p].seq, sub |-> call[p].sub]
    BY <2>1 DEF Invoice
  <2>3. i.seq \notin SeqsOf(i.month) /\ book' = book \cup {i}
    BY <1>2, <2>2 DEF Create
  <2>4. i.seq <= Cardinality(OfMonth(i.month)) + 1
    BY <2>1, <2>2 DEF Inv, NumbersInReach
  <2>5. /\ Entries(i.month)' = Append(Entries(i.month), {i.sub})
        /\ \A m \in Month \ {i.month} : Entries(m)' = Entries(m)
    BY <2>3, <2>4, InsertEnters
  <2>6. i.month \in Month /\ i.sub \in Sub
    BY DEF Invoice
  <2>7. Refined' = [Refined EXCEPT ![i.month] = Append(@, {i.sub})]
    <3>1. Refined' = [m \in Month |-> Entries(m)']
      BY DEF Refined, Month
    <3> QED
      BY <3>1, <2>5, <2>6 DEF Refined
  <2> QED
    BY <2>6, <2>7
<1>3. ~UNCHANGED book => \E p \in Request : Create(p)
  BY DEF Next, vars, NextMonth, Lookup, Number, Upload
<1> QED
  BY <1>1, <1>2, <1>3

\* The collection implements the ledger: each step enters one invoice at the
\* end of one month's list, or none, however confirmations overlap.
THEOREM BooksImplementLedger == Spec => ImplementsLedger
<1>1. Init => L!LedgerInit
  <2> SUFFICES ASSUME Init, NEW m \in Month
               PROVE  Entries(m) = <<>>
    BY DEF L!LedgerInit, Entries, Holders
  <2>1. OfMonth(m) = {}
    BY DEF Init, OfMonth
  <2> QED
    BY <2>1, FS_EmptySet DEF Entries
<1>2. Inv /\ [Next]_vars => [L!LedgerNext]_Refined
  <2> SUFFICES ASSUME Inv, [Next]_vars PROVE L!LedgerNext \/ UNCHANGED Refined
    OBVIOUS
  <2> QED
    BY StepEnters DEF L!LedgerNext, L!Enter, Refined, Entries, Holders
<1>3. Init => Inv
  BY InitInv
<1>4. Inv /\ [Next]_vars => Inv'
  BY StepInv
<1> QED
  BY <1>1, <1>2, <1>3, <1>4, PTL
     DEF Spec, ImplementsLedger, L!Ledger, Refined, Entries, Holders
=============================================================================

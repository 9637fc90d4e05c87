----------------------------- MODULE NoteProofs -----------------------------
(***************************************************************************)
(* What the sockets show and what candidates are told of their interviews, *)
(* for any people, sockets, rounds and number of requests in flight.       *)
(***************************************************************************)
EXTENDS Interviews, FiniteSetTheorems, SequenceTheorems, TLAPS

NoteRequest == {Idle} \cup Counting \cup Telling \cup Noticing

\* The locals a slot holds at each await.
LEMMA NoteLocals ==
    ASSUME NEW r \in NoteRequest
    PROVE  /\ (r.at = "idle" <=> r = Idle)
           /\ r.at \in {"idle", "count", "tell", "notice"}
           /\ (r.at # "idle" => r.about \in Person /\ r.target \in Socket \cup {Null})
           /\ (r.at = "tell" => r.n \in Nat /\ r.overtaken \in BOOLEAN)
           /\ (r.at = "notice" => r.target = Null /\ r.says \in News /\ r.stale \in BOOLEAN)
  BY DEF NoteRequest, Idle, Counting, Telling, Noticing

\* What a request that starts or moves on puts into its slot.
LEMMA NoteStarts ==
    /\ Idle \in NoteRequest /\ Idle.at = "idle"
    /\ \A u \in Person, s \in Socket \cup {Null} :
          /\ Awaiting(u, s) \in NoteRequest
          /\ \A k \in Nat : Holding(u, s, k) \in NoteRequest
    /\ \A u \in Person, i \in Nat, status \in InterviewStatus, old \in BOOLEAN :
          [at |-> "notice", about |-> u, target |-> Null, stale |-> old,
           says |-> [interview |-> i, status |-> status]] \in NoteRequest
  BY DEF NoteRequest, Idle, Counting, Telling, Noticing, Awaiting, Holding, News

\* A mark on a slot changes nothing else of it.
LEMMA NoteMarks ==
    ASSUME NEW r \in NoteRequest
    PROVE  /\ r.at = "tell" =>
                 [r EXCEPT !.overtaken = TRUE] =
                    [at |-> "tell", about |-> r.about, target |-> r.target, n |-> r.n, overtaken |-> TRUE]
           /\ r.at = "notice" =>
                 [r EXCEPT !.stale = TRUE] =
                    [at |-> "notice", about |-> r.about, target |-> r.target, says |-> r.says,
                     stale |-> TRUE]
<1>1. ASSUME r.at = "tell", NEW mark
      PROVE  [r EXCEPT !.overtaken = mark] =
                [at |-> "tell", about |-> r.about, target |-> r.target, n |-> r.n, overtaken |-> mark]
  <2>1. r \in [at: {"tell"}, about: Person, target: Socket \cup {Null}, n: Nat, overtaken: BOOLEAN]
    BY <1>1 DEF NoteRequest, Idle, Counting, Noticing, Telling
  <2> QED
    BY <2>1
<1>2. ASSUME r.at = "notice", NEW mark
      PROVE  [r EXCEPT !.stale = mark] =
                [at |-> "notice", about |-> r.about, target |-> r.target, says |-> r.says,
                 stale |-> mark]
  <2>1. r \in [at: {"notice"}, about: Person, target: {Null}, says: News, stale: BOOLEAN]
    BY <1>2 DEF NoteRequest, Idle, Counting, Telling, Noticing
  <2> QED
    BY <2>1
<1> QED
  BY <1>1, <1>2

\* Slots that differ by marks alone.
AsBefore(new, old) ==
    /\ new.at = old.at
    /\ old.at # "idle" => new.about = old.about /\ new.target = old.target
    /\ old.at = "tell" => new.n = old.n /\ (~new.overtaken => ~old.overtaken)
    /\ old.at = "notice" => new.says = old.says /\ (~new.stale => ~old.stale)

LEMMA OvertakenSlots ==
    ASSUME BellTypeOK, NEW u \in Person
    PROVE  /\ Overtaken(u) \in [Request -> NoteRequest]
           /\ \A q \in Request :
                 /\ AsBefore(Overtaken(u)[q], req[q])
                 /\ req[q].at = "tell" /\ req[q].about = u => Overtaken(u)[q].overtaken
<1>1. ASSUME NEW q \in Request
      PROVE  /\ Overtaken(u)[q] \in NoteRequest
             /\ AsBefore(Overtaken(u)[q], req[q])
             /\ req[q].at = "tell" /\ req[q].about = u => Overtaken(u)[q].overtaken
  <2>1. req[q] \in NoteRequest
    BY DEF BellTypeOK, NoteRequest
  <2>2. CASE At(q, "tell") /\ req[q].about = u
    <3>1. Overtaken(u)[q] = [at |-> "tell", about |-> req[q].about, target |-> req[q].target,
                             n |-> req[q].n, overtaken |-> TRUE]
      BY <2>1, <2>2, NoteMarks DEF Overtaken, At
    <3>2. req[q].target \in Socket \cup {Null} /\ req[q].n \in Nat
      BY <2>1, <2>2, NoteLocals DEF At
    <3> QED
      BY <2>2, <3>1, <3>2 DEF NoteRequest, Telling, AsBefore, At
  <2>3. CASE ~(At(q, "tell") /\ req[q].about = u)
    BY <2>1, <2>3 DEF Overtaken, AsBefore, At
  <2> QED
    BY <2>2, <2>3
<1> QED
  BY <1>1 DEF Overtaken

LEMMA OutdatedSlots ==
    ASSUME BellTypeOK, NEW i
    PROVE  /\ Outdated(i) \in [Request -> NoteRequest]
           /\ \A q \in Request :
                 /\ AsBefore(Outdated(i)[q], req[q])
                 /\ req[q].at = "notice" /\ req[q].says.interview = i => Outdated(i)[q].stale
<1>1. ASSUME NEW q \in Request
      PROVE  /\ Outdated(i)[q] \in NoteRequest
             /\ AsBefore(Outdated(i)[q], req[q])
             /\ req[q].at = "notice" /\ req[q].says.interview = i => Outdated(i)[q].stale
  <2>1. req[q] \in NoteRequest
    BY DEF BellTypeOK, NoteRequest
  <2>2. CASE At(q, "notice") /\ req[q].says.interview = i
    <3>1. Outdated(i)[q] = [at |-> "notice", about |-> req[q].about, target |-> req[q].target,
                            says |-> req[q].says, stale |-> TRUE]
      BY <2>1, <2>2, NoteMarks DEF Outdated, At
    <3>2. req[q].about \in Person /\ req[q].target = Null /\ req[q].says \in News
      BY <2>1, <2>2, NoteLocals DEF At
    <3> QED
      BY <2>2, <3>1, <3>2 DEF NoteRequest, Noticing, AsBefore, At
  <2>3. CASE ~(At(q, "notice") /\ req[q].says.interview = i)
    BY <2>1, <2>3 DEF Outdated, AsBefore, At
  <2> QED
    BY <2>2, <2>3
<1> QED
  BY <1>1 DEF Outdated

\* One slot after a step, the others marked.
LEMMA NoteSlots ==
    ASSUME NEW slots \in [Request -> NoteRequest], NEW p \in Request, NEW x \in NoteRequest,
           req' = [slots EXCEPT ![p] = x]
    PROVE  /\ req' \in [Request -> NoteRequest]
           /\ req'[p] = x
           /\ \A q \in Request \ {p} : req'[q] = slots[q]
  OBVIOUS

-----------------------------------------------------------------------------
(***************************************************************************)
(* Notifications.                                                          *)
(***************************************************************************)

LEMMA CountType ==
    ASSUME notes \in Seq(Note), NEW u \in Person
    PROVE  IsFiniteSet(UnreadNotes(u)) /\ CountUnread(u) \in Nat
<1>1. Len(notes) \in Nat
  BY LenProperties
<1>2. IsFiniteSet(1..Len(notes)) /\ UnreadNotes(u) \subseteq 1..Len(notes)
  BY <1>1, FS_Interval DEF UnreadNotes
<1> QED
  BY <1>2, FS_Subset, FS_CardinalityType DEF CountUnread

LEMMA CreatedNotes ==
    ASSUME notes \in Seq(Note), NEW v \in Person, NEW news \in News \cup {Null}, Created(v, news)
    PROVE  /\ notes' \in Seq(Note) /\ Len(notes') = Len(notes) + 1
           /\ \A i \in 1..Len(notes) : notes'[i] = notes[i]
           /\ notes'[Len(notes) + 1].says = news
           /\ \A u \in Person \ {v} : CountUnread(u)' = CountUnread(u)
<1>1. [to |-> v, status |-> "unread", says |-> news] \in Note
  BY DEF Note
<1>2. /\ notes' \in Seq(Note) /\ Len(notes') = Len(notes) + 1 /\ Len(notes) \in Nat
      /\ \A i \in 1..Len(notes) : notes'[i] = notes[i]
      /\ notes'[Len(notes) + 1] = [to |-> v, status |-> "unread", says |-> news]
  BY <1>1, AppendProperties, LenProperties DEF Created
<1>3. ASSUME NEW u \in Person \ {v}
      PROVE  UnreadNotes(u)' = UnreadNotes(u)
  <2>1. 1..Len(notes') = 1..Len(notes) \cup {Len(notes) + 1}
    BY <1>2
  <2> QED
    BY <1>2, <2>1 DEF UnreadNotes
<1> QED
  BY <1>2, <1>3 DEF CountUnread

LEMMA StatusNotes ==
    ASSUME notes \in Seq(Note), NEW ids, NEW status \in {"read", "deleted"}, SetStatus(ids, status)
    PROVE  /\ notes' \in Seq(Note) /\ Len(notes') = Len(notes)
           /\ \A i \in 1..Len(notes) : notes'[i].says = notes[i].says
           /\ \A u \in Person :
                 UnreadNotes(u) \cap ids = {} => CountUnread(u)' = CountUnread(u)
           /\ \A u \in Person : UnreadNotes(u) \subseteq ids => CountUnread(u)' = 0
<1>1. Len(notes) \in Nat /\ \A i \in 1..Len(notes) : notes[i] \in Note
  BY LenProperties, ElementOfSeq
<1>2. ASSUME NEW i \in 1..Len(notes)
      PROVE  [notes[i] EXCEPT !.status = status] =
                [to |-> notes[i].to, status |-> status, says |-> notes[i].says]
  BY <1>1 DEF Note
<1>3. /\ \A i \in 1..Len(notes) : i \in ids =>
            notes'[i] = [to |-> notes[i].to, status |-> status, says |-> notes[i].says]
      /\ \A i \in 1..Len(notes) : i \notin ids => notes'[i] = notes[i]
  BY <1>2 DEF SetStatus
<1>4. notes' \in [1..Len(notes) -> Note]
  <2>1. \A i \in 1..Len(notes) : notes'[i] \in Note
    <3>1. ASSUME NEW i \in 1..Len(notes), i \in ids
          PROVE  notes'[i] \in Note
      <4>1. notes[i].to \in Person /\ notes[i].says \in News \cup {Null}
        BY <1>1 DEF Note
      <4>2. notes'[i] = [to |-> notes[i].to, status |-> status, says |-> notes[i].says]
        BY <1>3, <3>1
      <4> QED
        BY <4>1, <4>2 DEF Note
    <3> QED
      BY <1>1, <1>3, <3>1
  <2> DEFINE after(i) == IF i \in ids THEN [notes[i] EXCEPT !.status = status] ELSE notes[i]
  <2>2. notes' = [i \in 1..Len(notes) |-> after(i)]
    BY DEF SetStatus
  <2>3. \A i \in 1..Len(notes) : after(i) \in Note
    BY <2>1, <2>2
  <2> HIDE DEF after
  <2> QED
    BY <2>2, <2>3
<1>5. notes' \in Seq(Note) /\ Len(notes') = Len(notes)
  BY <1>1, <1>4, IsASeq, LenProperties
<1>6. ASSUME NEW u \in Person
      PROVE  UnreadNotes(u)' = UnreadNotes(u) \ ids
  <2>1. ASSUME NEW i \in 1..Len(notes)
        PROVE  /\ notes'[i].to = notes[i].to
               /\ notes'[i].status = "unread" <=> notes[i].status = "unread" /\ i \notin ids
    <3>1. CASE i \in ids
      <4>1. notes'[i] = [to |-> notes[i].to, status |-> status, says |-> notes[i].says]
        BY <1>3, <3>1
      <4> QED
        BY <3>1, <4>1
    <3>2. CASE i \notin ids
      BY <1>3, <3>2
    <3> QED
      BY <3>1, <3>2
  <2>2. UnreadNotes(u)' = {i \in 1..Len(notes) : notes'[i].to = u /\ notes'[i].status = "unread"}
    BY <1>5 DEF UnreadNotes
  <2> QED
    BY <2>1, <2>2 DEF UnreadNotes
<1>7. ASSUME NEW u \in Person, UnreadNotes(u) \subseteq ids
      PROVE  CountUnread(u)' = 0
  <2>1. UnreadNotes(u)' = {}
    BY <1>6, <1>7
  <2> QED
    BY <2>1, FS_EmptySet DEF CountUnread
<1>8. ASSUME NEW u \in Person, UnreadNotes(u) \cap ids = {}
      PROVE  CountUnread(u)' = CountUnread(u)
  <2>1. UnreadNotes(u)' = UnreadNotes(u)
    BY <1>6, <1>8
  <2> QED
    BY <2>1 DEF CountUnread
<1>9. ASSUME NEW i \in 1..Len(notes)
      PROVE  notes'[i].says = notes[i].says
  <2>1. CASE i \in ids
    <3>1. notes'[i] = [to |-> notes[i].to, status |-> status, says |-> notes[i].says]
      BY <1>3, <2>1
    <3> QED
      BY <3>1
  <2>2. CASE i \notin ids
    BY <1>3, <2>2
  <2> QED
    BY <2>1, <2>2
<1> QED
  BY <1>5, <1>7, <1>8, <1>9

-----------------------------------------------------------------------------
(***************************************************************************)
(* Types.                                                                  *)
(***************************************************************************)


SlotsKept == req' \in [Request -> NoteRequest]

LEMMA BellTypesKept ==
    ASSUME BellTypeOK, notes' \in Seq(Note), SlotsKept, excused' \subseteq Socket,
           owner' \in [Socket -> Person \cup {Null}], told' \in [Socket -> Nat \cup {Null}]
    PROVE  BellTypeOK'
  BY DEF BellTypeOK, SlotsKept, NoteRequest

\* A step of a slot, the others as they were.
LEMMA SlotTyped ==
    ASSUME BellTypeOK, NEW p \in Request, NEW x \in NoteRequest, req' = [req EXCEPT ![p] = x]
    PROVE  SlotsKept
  BY DEF BellTypeOK, SlotsKept, NoteRequest

LEMMA ConnectionTypes ==
    ASSUME BellTypeOK, Disconnect \/ \E p \in Request : Connect(p) \/ GetCount(p)
    PROVE  BellTypeOK'
<1>1. ASSUME NEW p \in Request, Connect(p)
      PROVE  BellTypeOK'
  <2>1. PICK s \in Socket : \E u \in Person :
             owner' = [owner EXCEPT ![s] = u] /\ req' = [req EXCEPT ![p] = Awaiting(u, s)]
    BY <1>1 DEF Connect
  <2>2. PICK u \in Person :
             owner' = [owner EXCEPT ![s] = u] /\ req' = [req EXCEPT ![p] = Awaiting(u, s)]
    BY <2>1
  <2>3. SlotsKept
    BY <2>2, NoteStarts, SlotTyped
  <2>4. owner' \in [Socket -> Person \cup {Null}]
    BY <2>2 DEF BellTypeOK
  <2> QED
    BY <1>1, <2>3, <2>4, BellTypesKept DEF Connect, BellTypeOK
<1>2. ASSUME NEW p \in Request, GetCount(p)
      PROVE  BellTypeOK'
  <2>1. PICK u \in Person : \E s \in SocketsOf(u) : req' = [req EXCEPT ![p] = Awaiting(u, s)]
    BY <1>2 DEF GetCount
  <2>2. SlotsKept
    BY <2>1, NoteStarts, SlotTyped DEF SocketsOf
  <2> QED
    BY <1>2, <2>2, BellTypesKept DEF GetCount, BellTypeOK
<1>3. ASSUME Disconnect
      PROVE  BellTypeOK'
  BY <1>3 DEF Disconnect, BellTypeOK
<1> QED
  BY <1>1, <1>2, <1>3

\* The notifications of u change: every slot is marked, one may move.
LEMMA ChangeTypes ==
    ASSUME BellTypeOK, NEW u \in Person, notes' \in Seq(Note), UNCHANGED <<owner, told>>,
           excused' \subseteq Socket,
           \/ req' = Overtaken(u)
           \/ \E p \in Request, x \in NoteRequest : req' = [Overtaken(u) EXCEPT ![p] = x]
    PROVE  BellTypeOK'
<1>1. SlotsKept
  BY OvertakenSlots DEF SlotsKept
<1> QED
  BY <1>1, BellTypesKept DEF BellTypeOK

LEMMA NoteTypes ==
    ASSUME BellTypeOK,
           \/ CreateSilently
           \/ \E p \in Request : Push(p) \/ SocketMarkRead(p) \/ SocketMarkAllRead(p)
           \/ MarkAsRead \/ MarkAllAsRead \/ DeleteNotification \/ Expire
    PROVE  BellTypeOK'
<1>s. notes \in Seq(Note) /\ excused \subseteq Socket
  BY DEF BellTypeOK
<1>u. \A u : SocketsOf(u) \subseteq Socket
  BY DEF SocketsOf
<1>1. CASE CreateSilently
  <2>1. PICK u \in Person : /\ Created(u, Null) /\ req' = Overtaken(u)
                            /\ excused' = excused \cup SocketsOf(u)
    BY <1>1 DEF CreateSilently
  <2>2. notes' \in Seq(Note) /\ excused' \subseteq Socket
    BY <1>s, <1>u, <2>1, CreatedNotes
  <2> QED
    BY <1>1, <2>1, <2>2, ChangeTypes DEF CreateSilently
<1>2. ASSUME NEW p \in Request, Push(p)
      PROVE  BellTypeOK'
  <2>1. PICK u \in Person : Created(u, Null) /\ req' = [Overtaken(u) EXCEPT ![p] = Awaiting(u, Null)]
    BY <1>2 DEF Push
  <2>2. notes' \in Seq(Note) /\ Awaiting(u, Null) \in NoteRequest
    BY <1>s, <2>1, CreatedNotes, NoteStarts
  <2> QED
    BY <1>2, <1>s, <2>1, <2>2, ChangeTypes DEF Push
<1>3. ASSUME NEW p \in Request, SocketMarkRead(p)
      PROVE  BellTypeOK'
  <2>1. PICK u \in Person : \E s \in SocketsOf(u), i \in UnreadNotes(u) :
              /\ SetStatus({i}, "read") /\ req' = [Overtaken(u) EXCEPT ![p] = Awaiting(u, s)]
              /\ excused' = excused \cup (SocketsOf(u) \ {s})
    BY <1>3 DEF SocketMarkRead
  <2>2. PICK s \in SocketsOf(u), i \in UnreadNotes(u) :
              /\ SetStatus({i}, "read") /\ req' = [Overtaken(u) EXCEPT ![p] = Awaiting(u, s)]
              /\ excused' = excused \cup (SocketsOf(u) \ {s})
    BY <2>1
  <2>3. notes' \in Seq(Note) /\ Awaiting(u, s) \in NoteRequest /\ excused' \subseteq Socket
    BY <1>s, <1>u, <2>2, StatusNotes, NoteStarts
  <2> QED
    BY <1>3, <2>2, <2>3, ChangeTypes DEF SocketMarkRead
<1>4. ASSUME NEW p \in Request, SocketMarkAllRead(p)
      PROVE  BellTypeOK'
  <2>1. PICK u \in Person : \E s \in SocketsOf(u) :
              /\ SetStatus(UnreadNotes(u), "read") /\ req' = [Overtaken(u) EXCEPT ![p] = Holding(u, s, 0)]
              /\ excused' = excused \cup (SocketsOf(u) \ {s})
    BY <1>4 DEF SocketMarkAllRead
  <2>2. PICK s \in SocketsOf(u) :
              /\ SetStatus(UnreadNotes(u), "read") /\ req' = [Overtaken(u) EXCEPT ![p] = Holding(u, s, 0)]
              /\ excused' = excused \cup (SocketsOf(u) \ {s})
    BY <2>1
  <2>3. notes' \in Seq(Note) /\ Holding(u, s, 0) \in NoteRequest /\ excused' \subseteq Socket
    BY <1>s, <1>u, <2>2, StatusNotes, NoteStarts
  <2> QED
    BY <1>4, <2>2, <2>3, ChangeTypes DEF SocketMarkAllRead
<1>5. ASSUME NEW u \in Person, NEW ids, NEW status \in {"read", "deleted"}, Silently(u, ids, status)
      PROVE  BellTypeOK'
  <2>1. notes' \in Seq(Note) /\ excused' \subseteq Socket
    BY <1>5, <1>s, <1>u, StatusNotes DEF Silently
  <2> QED
    BY <1>5, <2>1, ChangeTypes DEF Silently
<1>6. CASE DeleteNotification
  <2>1. PICK i \in 1..Len(notes) : Silently(notes[i].to, {i}, "deleted")
    BY <1>6 DEF DeleteNotification
  <2>2. notes[i] \in Note
    BY <1>s, ElementOfSeq
  <2>3. notes[i].to \in Person
    BY <2>2 DEF Note
  <2> QED
    BY <1>5, <2>1, <2>3
<1>7. CASE Expire
  <2>1. notes' \in Seq(Note)
    BY <1>7, <1>s, StatusNotes DEF Expire
  <2>2. SlotsKept
    BY <1>7 DEF Expire, BellTypeOK, SlotsKept, NoteRequest
  <2> QED
    BY <1>7, <2>1, <2>2, BellTypesKept DEF Expire, BellTypeOK
<1> QED
  BY <1>1, <1>2, <1>3, <1>4, <1>5, <1>6, <1>7 DEF MarkAsRead, MarkAllAsRead

LEMMA CountingTypes ==
    ASSUME BellTypeOK, NEW p \in Request, Count(p) \/ Tell(p) \/ CountFails(p)
    PROVE  BellTypeOK'
<1>r. req[p] \in NoteRequest /\ notes \in Seq(Note)
  BY DEF BellTypeOK, NoteRequest
<1>l. /\ req[p].at # "idle" => req[p].about \in Person /\ req[p].target \in Socket \cup {Null}
      /\ req[p].at = "tell" => req[p].n \in Nat
  BY <1>r, NoteLocals
<1>1. CASE Count(p)
  <2>1. Holding(req[p].about, req[p].target, CountUnread(req[p].about)) \in NoteRequest
    BY <1>1, <1>r, <1>l, CountType, NoteStarts DEF Count, At
  <2>2. SlotsKept
    BY <1>1, <2>1, SlotTyped DEF Count
  <2> QED
    BY <1>1, <2>2, BellTypesKept DEF Count, BellTypeOK
<1>t. Targets(p) \subseteq Socket
  BY DEF Targets, SocketsOf
<1>2. CASE Tell(p)
  <2>1. SlotsKept
    BY <1>2, NoteStarts, SlotTyped DEF Tell
  <2>2. excused' \subseteq Socket /\ told' \in [Socket -> Nat \cup {Null}]
    BY <1>2, <1>l, <1>t DEF Tell, At, BellTypeOK
  <2> QED
    BY <1>2, <2>1, <2>2, BellTypesKept DEF Tell, BellTypeOK
<1>3. CASE CountFails(p)
  <2>1. SlotsKept
    BY <1>3, NoteStarts, SlotTyped DEF CountFails
  <2> QED
    BY <1>3, <1>t, <2>1, BellTypesKept DEF CountFails, BellTypeOK
<1> QED
  BY <1>1, <1>2, <1>3

LEMMA BellTypeStep ==
    ASSUME BellTypeOK, BellNext
    PROVE  BellTypeOK'
  BY ConnectionTypes, NoteTypes, CountingTypes DEF BellNext, NoteStep

\* What interview i is, once it is updated.
LEMMA UpdatedTypes ==
    ASSUME NoteTypeOK, NEW i \in 1..Len(interviews), NEW status \in InterviewStatus, Updated(i, status)
    PROVE  /\ interviews' \in Seq(Interview) /\ Len(interviews') = Len(interviews)
           /\ interviews'[i].status = status
           /\ \A j \in 1..Len(interviews) \ {i} : interviews'[j] = interviews[j]
           /\ changes' \in Nat
<1>1. interviews \in Seq(Interview) /\ Len(interviews) \in Nat /\ changes \in Nat
  BY LenProperties DEF NoteTypeOK
<1>2. interviews[i] \in [of: Person, round: Round, status: InterviewStatus]
  BY <1>1, ElementOfSeq DEF Interview
<1> DEFINE new == [interviews[i] EXCEPT !.status = status]
<1>3. new \in Interview /\ new.status = status
  BY <1>2 DEF Interview
<1>4. interviews' = [interviews EXCEPT ![i] = new]
  BY DEF Updated
<1> HIDE DEF new
<1>5. /\ interviews' \in Seq(Interview) /\ Len(interviews') = Len(interviews)
      /\ interviews'[i] = new /\ \A j \in 1..Len(interviews) \ {i} : interviews'[j] = interviews[j]
  BY <1>1, <1>3, <1>4, ExceptSeq
<1>6. changes' \in Nat
  BY <1>1 DEF Updated, Changes
<1> QED
  BY <1>3, <1>5, <1>6

LEMMA AddedTypes ==
    ASSUME NoteTypeOK, NEW u \in Person, NEW r \in Round, Added(u, r)
    PROVE  /\ interviews' \in Seq(Interview) /\ Len(interviews') = Len(interviews) + 1
           /\ Len(interviews) \in Nat
           /\ \A j \in 1..Len(interviews) : interviews'[j] = interviews[j]
           /\ interviews'[Len(interviews) + 1].status = "scheduled"
<1>1. interviews \in Seq(Interview) /\ Len(interviews) \in Nat
  BY LenProperties DEF NoteTypeOK
<1>2. [of |-> u, round |-> r, status |-> "scheduled"] \in Interview
  BY DEF Interview, InterviewStatus
<1> QED
  BY <1>1, <1>2, AppendProperties DEF Added

\* What an interview that is announced puts into its slot.
NoticeOf(u, k, status, old) ==
    [at |-> "notice", about |-> u, target |-> Null, stale |-> old,
     says |-> [interview |-> k, status |-> status]]

LEMMA NoticeFields ==
    \A u, k, status, old :
        /\ NoticeOf(u, k, status, old).at = "notice"
        /\ NoticeOf(u, k, status, old).says.interview = k
        /\ NoticeOf(u, k, status, old).says.status = status
        /\ NoticeOf(u, k, status, old).stale = old
  BY DEF NoticeOf

\* The three announcements: one was scheduled, or i became status.
LEMMA Announcements ==
    ASSUME NEW p \in Request, rescheduleInterview(p) \/ cancelInterview(p)
    PROVE  \E i, k \in 1..Len(interviews), status \in InterviewStatus : Announced(p, i, k, status)
<1>1. CASE rescheduleInterview(p)
  <2>1. PICK i \in 1..Len(interviews) : Announced(p, i, i, "rescheduled")
    BY <1>1 DEF rescheduleInterview
  <2> QED
    BY <2>1 DEF InterviewStatus
<1>2. CASE cancelInterview(p)
  <2>1. PICK i \in 1..Len(interviews) : \E k \in SameRound(i) : Announced(p, i, k, "cancelled")
    BY <1>2 DEF cancelInterview
  <2>2. PICK k \in SameRound(i) : Announced(p, i, k, "cancelled")
    BY <2>1
  <2> QED
    BY <2>2 DEF SameRound, InterviewStatus
<1> QED
  BY <1>1, <1>2

LEMMA AnnouncedSlot ==
    ASSUME NoteTypeOK, NEW p \in Request, NEW i \in 1..Len(interviews), NEW k \in 1..Len(interviews),
           NEW status \in InterviewStatus, Announced(p, i, k, status)
    PROVE  /\ NoticeOf(interviews[i].of, k, status, k # i) \in NoteRequest
           /\ req' = [Outdated(i) EXCEPT ![p] = NoticeOf(interviews[i].of, k, status, k # i)]
<1>1. interviews[i] \in Interview /\ k \in Nat
  BY LenProperties, ElementOfSeq DEF NoteTypeOK
<1>2. interviews[i].of \in Person
  BY <1>1 DEF Interview
<1>3. NoticeOf(interviews[i].of, k, status, k # i) \in NoteRequest
  BY <1>1, <1>2, NoteStarts DEF NoticeOf
<1> QED
  BY <1>3 DEF Announced, NoticeOf

LEMMA InterviewTypes ==
    ASSUME NoteTypeOK,
           \/ \E p \in Request : scheduleInterview(p) \/ rescheduleInterview(p) \/ cancelInterview(p)
           \/ updateInterview \/ completeInterview
    PROVE  NoteTypeOK'
<1>b. BellTypeOK /\ unannounced \subseteq 1..Len(interviews)
  BY DEF NoteTypeOK
<1>1. ASSUME NEW p \in Request, scheduleInterview(p)
      PROVE  NoteTypeOK'
  <2> DEFINE new == Len(interviews) + 1
  <2>1. PICK u \in Person : \E r \in Round :
             Added(u, r) /\ req' = [req EXCEPT ![p] = NoticeOf(u, new, "scheduled", FALSE)]
    BY <1>1 DEF scheduleInterview, NoticeOf
  <2>2. PICK r \in Round :
             Added(u, r) /\ req' = [req EXCEPT ![p] = NoticeOf(u, new, "scheduled", FALSE)]
    BY <2>1
  <2>3. /\ interviews' \in Seq(Interview) /\ Len(interviews') = new
        /\ Len(interviews) \in Nat
    BY <2>2, AddedTypes
  <2>4. NoticeOf(u, new, "scheduled", FALSE) \in NoteRequest
    <3>1. new \in Nat /\ "scheduled" \in InterviewStatus /\ FALSE \in BOOLEAN
      BY <2>3 DEF InterviewStatus
    <3> HIDE DEF new
    <3> QED
      BY <3>1, NoteStarts DEF NoticeOf
  <2>5. SlotsKept
    BY <1>b, <2>2, <2>4, SlotTyped
  <2>6. BellTypeOK'
    BY <1>b, <1>1, <2>5, BellTypesKept DEF scheduleInterview, BellTypeOK
  <2>7. unannounced' \subseteq 1..Len(interviews')
    BY <1>b, <1>1, <2>3 DEF scheduleInterview
  <2>8. changes' \in Nat
    BY <1>1 DEF scheduleInterview, Changes, NoteTypeOK
  <2> QED
    BY <2>3, <2>6, <2>7, <2>8 DEF NoteTypeOK
<1>2. ASSUME NEW i \in 1..Len(interviews), NEW status \in InterviewStatus, Updated(i, status), SlotsKept,
             UNCHANGED <<notes, owner, told, excused>>, unannounced' \subseteq unannounced \cup {i}
      PROVE  NoteTypeOK'
  <2>1. interviews' \in Seq(Interview) /\ Len(interviews') = Len(interviews) /\ changes' \in Nat
    BY <1>2, UpdatedTypes
  <2>2. BellTypeOK'
    BY <1>b, <1>2, BellTypesKept DEF BellTypeOK
  <2> QED
    BY <1>b, <1>2, <2>1, <2>2 DEF NoteTypeOK
<1>3. ASSUME NEW p \in Request, rescheduleInterview(p) \/ cancelInterview(p)
      PROVE  NoteTypeOK'
  <2>1. PICK i, k \in 1..Len(interviews), status \in InterviewStatus : Announced(p, i, k, status)
    BY <1>3, Announcements
  <2>2. SlotsKept
    BY <1>b, <2>1, AnnouncedSlot, OutdatedSlots, NoteSlots DEF SlotsKept
  <2> QED
    BY <1>2, <2>1, <2>2 DEF Announced
<1>4. ASSUME NEW i \in 1..Len(interviews), NEW status \in InterviewStatus, Quietly(i, status)
      PROVE  NoteTypeOK'
  <2>1. SlotsKept
    BY <1>b, <1>4, OutdatedSlots DEF Quietly, SlotsKept
  <2> QED
    BY <1>2, <1>4, <2>1 DEF Quietly
<1> QED
  BY <1>1, <1>3, <1>4 DEF updateInterview, completeInterview, InterviewStatus

LEMMA NoticeTypes ==
    ASSUME NoteTypeOK, NEW p \in Request, createInterviewNotification(p) \/ NoticeFails(p),
           At(p, "notice") => req[p].says.interview \in 1..Len(interviews)
    PROVE  NoteTypeOK'
<1>b. BellTypeOK /\ notes \in Seq(Note) /\ req[p] \in NoteRequest
  BY DEF NoteTypeOK, BellTypeOK, NoteRequest
<1>1. At(p, "notice") /\ req[p].about \in Person /\ req[p].says \in News
  BY <1>b, NoteLocals DEF createInterviewNotification, NoticeFails, At
<1>2. BellTypeOK'
  <2>1. CASE createInterviewNotification(p)
    <3>1. notes' \in Seq(Note)
      BY <1>b, <1>1, <2>1, CreatedNotes DEF createInterviewNotification
    <3>2. Awaiting(req[p].about, Null) \in NoteRequest
      BY <1>1, NoteStarts
    <3>3. req' = [Overtaken(req[p].about) EXCEPT ![p] = Awaiting(req[p].about, Null)]
      BY <2>1 DEF createInterviewNotification
    <3>4. UNCHANGED <<owner, told>> /\ excused' \subseteq Socket
      BY <1>b, <2>1 DEF createInterviewNotification, BellTypeOK
    <3> QED
      BY <1>b, <1>1, <3>1, <3>2, <3>3, <3>4, ChangeTypes
  <2>2. CASE NoticeFails(p)
    <3>1. SlotsKept
      BY <1>b, <2>2, NoteStarts, SlotTyped DEF NoticeFails
    <3> QED
      BY <1>b, <2>2, <3>1, BellTypesKept DEF NoticeFails, BellTypeOK
  <2> QED
    BY <2>1, <2>2
<1>3. UNCHANGED <<interviews, changes>> /\ unannounced' \subseteq 1..Len(interviews)
  BY <1>1 DEF createInterviewNotification, NoticeFails, NoteTypeOK
<1> QED
  BY <1>2, <1>3 DEF NoteTypeOK

-----------------------------------------------------------------------------
(***************************************************************************)
(* What the sockets show.                                                  *)
(***************************************************************************)

\* A slot from whose count socket s, of u, will hear.
Comes(r, s, u) == r.at \in {"count", "tell"} /\ r.about = u /\ r.target \in {s, Null}

\* A count that nothing overtook is the count as of now.
HeldRight ==
    \A p \in Request : \A u \in Person :
        req[p].at = "tell" /\ ~req[p].overtaken /\ req[p].about = u => req[p].n = CountUnread(u)

\* A socket that is not excused shows the count, or will hear of it.
ToldOrComing ==
    \A s \in Socket, u \in Person :
        owner[s] = u /\ s \notin excused =>
            told[s] = CountUnread(u) \/ \E p \in Request : Comes(req[p], s, u)

LEMMA ComesBefore ==
    ASSUME NEW new, NEW old, AsBefore(new, old), NEW s, NEW u, Comes(old, s, u)
    PROVE  Comes(new, s, u)
  BY DEF AsBefore, Comes

\* Of a step: the counts of all but who stay; of the slots, M move, the others
\* are marked where they hold a count of who; a socket that is not excused hears
\* from M, or was told, or is as before.
CountsStay(who) == \A u \in Person \ who : CountUnread(u)' = CountUnread(u)

OthersMarked(M, who) ==
    \A q \in Request \ M :
        /\ AsBefore(req'[q], req[q])
        /\ req[q].at = "tell" /\ req[q].about \in who => req'[q].overtaken

MovedRight(M) ==
    \A q \in M, u \in Person :
        req'[q].at = "tell" /\ ~req'[q].overtaken /\ req'[q].about = u => req'[q].n = CountUnread(u)'

SocketsServed(M, who) ==
    \A s \in Socket, u \in Person : owner'[s] = u /\ s \notin excused' =>
        \/ \E q \in M : Comes(req'[q], s, u)
        \/ told'[s] = CountUnread(u)'
        \/ /\ owner[s] = u /\ s \notin excused /\ u \notin who /\ told'[s] = told[s]
           /\ \A q \in M : ~Comes(req[q], s, u)

LEMMA BellKept ==
    ASSUME HeldRight, ToldOrComing, NEW who, NEW M, M \subseteq Request,
           CountsStay(who), OthersMarked(M, who), MovedRight(M), SocketsServed(M, who)
    PROVE  HeldRight' /\ ToldOrComing'
<1> USE DEF CountsStay, OthersMarked, MovedRight, SocketsServed
<1>1. ASSUME NEW q \in Request, NEW u \in Person,
             req'[q].at = "tell", ~req'[q].overtaken, req'[q].about = u
      PROVE  req'[q].n = CountUnread(u)'
  <2>1. CASE q \in M
    BY <1>1, <2>1
  <2>2. CASE q \notin M
    <3>1. /\ req[q].at = "tell" /\ ~req[q].overtaken /\ req[q].about = u /\ req'[q].n = req[q].n
          /\ u \notin who
      BY <1>1, <2>2 DEF AsBefore
    <3>2. req[q].n = CountUnread(u)
      BY <3>1 DEF HeldRight
    <3> QED
      BY <3>1, <3>2
  <2> QED
    BY <2>1, <2>2
<1>2. ASSUME NEW s \in Socket, NEW u \in Person, owner'[s] = u, s \notin excused'
      PROVE  told'[s] = CountUnread(u)' \/ \E p \in Request : Comes(req'[p], s, u)
  <2>1. CASE /\ owner[s] = u /\ s \notin excused /\ u \notin who /\ told'[s] = told[s]
             /\ \A q \in M : ~Comes(req[q], s, u)
    <3>1. told[s] = CountUnread(u) \/ \E p \in Request \ M : Comes(req[p], s, u)
      BY <2>1 DEF ToldOrComing
    <3> QED
      BY <2>1, <3>1, ComesBefore
  <2> QED
    BY <1>2, <2>1
<1> QED
  BY <1>1, <1>2 DEF HeldRight, ToldOrComing

\* A step of one slot that leaves the notifications and the connections.
LEMMA BellMoved ==
    ASSUME BellTypeOK, HeldRight, ToldOrComing, NEW p \in Request, NEW x \in NoteRequest,
           UNCHANGED <<notes, owner, told, excused>>,
           NEW slots \in [Request -> NoteRequest], \A q \in Request : AsBefore(slots[q], req[q]),
           req' = [slots EXCEPT ![p] = x],
           x.at # "tell", req[p].at \notin {"count", "tell"}
    PROVE  HeldRight' /\ ToldOrComing'
<1>1. req'[p] = x /\ \A q \in Request \ {p} : AsBefore(req'[q], req[q])
  BY NoteSlots
<1>2. \A u : CountUnread(u)' = CountUnread(u)
  BY DEF CountUnread, UnreadNotes
<1>3. \A s, u : ~Comes(req[p], s, u)
  BY DEF Comes
<1>4. CountsStay({}) /\ OthersMarked({p}, {}) /\ MovedRight({p}) /\ SocketsServed({p}, {})
  BY <1>1, <1>2, <1>3 DEF CountsStay, OthersMarked, MovedRight, SocketsServed
<1> QED
  BY <1>4, BellKept

\* The notifications of v change; the slot of the change, if it has one, comes
\* for the sockets of v that are not excused.
LEMMA BellChanged ==
    ASSUME BellTypeOK, HeldRight, ToldOrComing, NEW v \in Person,
           \A u \in Person \ {v} : CountUnread(u)' = CountUnread(u),
           UNCHANGED <<owner, told>>, excused \subseteq excused',
           \/ req' = Overtaken(v) /\ SocketsOf(v) \subseteq excused'
           \/ \E p \in Request, x \in NoteRequest :
                 /\ req' = [Overtaken(v) EXCEPT ![p] = x]
                 /\ req[p].at \notin {"count", "tell"}
                 /\ x.at = "tell" => x.about = v /\ x.n = CountUnread(v)'
                 /\ \A s \in SocketsOf(v) \ excused' : Comes(x, s, v)
    PROVE  HeldRight' /\ ToldOrComing'
<1>c. CountsStay({v})
  BY DEF CountsStay
<1>o. /\ Overtaken(v) \in [Request -> NoteRequest]
      /\ \A q \in Request : /\ AsBefore(Overtaken(v)[q], req[q])
                            /\ req[q].at = "tell" /\ req[q].about = v => Overtaken(v)[q].overtaken
  BY OvertakenSlots
<1>1. CASE req' = Overtaken(v) /\ SocketsOf(v) \subseteq excused'
  <2>1. OthersMarked({}, {v}) /\ MovedRight({}) /\ SocketsServed({}, {v})
    BY <1>1, <1>o DEF OthersMarked, MovedRight, SocketsServed, SocketsOf
  <2> QED
    BY <1>c, <2>1, BellKept
<1>2. ASSUME NEW p \in Request, NEW x \in NoteRequest, req' = [Overtaken(v) EXCEPT ![p] = x],
             req[p].at \notin {"count", "tell"},
             x.at = "tell" => x.about = v /\ x.n = CountUnread(v)',
             \A s \in SocketsOf(v) \ excused' : Comes(x, s, v)
      PROVE  HeldRight' /\ ToldOrComing'
  <2>1. req'[p] = x /\ \A q \in Request \ {p} : req'[q] = Overtaken(v)[q]
    BY <1>2, <1>o
  <2>2. OthersMarked({p}, {v})
    BY <1>o, <2>1 DEF OthersMarked
  <2>3. MovedRight({p})
    BY <1>2, <2>1 DEF MovedRight
  <2>4. SocketsServed({p}, {v})
    <3>1. \A s, u : ~Comes(req[p], s, u)
      BY <1>2 DEF Comes
    <3>2. \A s \in Socket : owner'[s] = v /\ s \notin excused' => Comes(x, s, v)
      BY <1>2 DEF SocketsOf
    <3> QED
      BY <2>1, <3>1, <3>2 DEF SocketsServed
  <2> QED
    BY <1>c, <2>2, <2>3, <2>4, BellKept
<1> QED
  BY <1>1, <1>2

LEMMA Unmarked ==
    ASSUME BellTypeOK
    PROVE  req \in [Request -> NoteRequest] /\ \A q \in Request : AsBefore(req[q], req[q])
  BY DEF BellTypeOK, NoteRequest, AsBefore

LEMMA BellConnections ==
    ASSUME BellTypeOK, HeldRight, ToldOrComing, Disconnect \/ \E p \in Request : Connect(p) \/ GetCount(p)
    PROVE  HeldRight' /\ ToldOrComing'
<1>1. ASSUME NEW p \in Request, Connect(p)
      PROVE  HeldRight' /\ ToldOrComing'
  <2>1. PICK s \in Socket : \E u \in Person :
             owner' = [owner EXCEPT ![s] = u] /\ req' = [req EXCEPT ![p] = Awaiting(u, s)]
    BY <1>1 DEF Connect
  <2>2. PICK u \in Person :
             owner' = [owner EXCEPT ![s] = u] /\ req' = [req EXCEPT ![p] = Awaiting(u, s)]
    BY <2>1
  <2>3. req'[p] = Awaiting(u, s) /\ \A q \in Request \ {p} : req'[q] = req[q]
    BY <2>2 DEF BellTypeOK
  <2>4. UNCHANGED <<notes, told, excused>> /\ req[p].at = "idle"
    BY <1>1 DEF Connect, At
  <2>5. CountsStay({}) /\ OthersMarked({p}, {}) /\ MovedRight({p})
    BY <2>3, <2>4, Unmarked DEF CountsStay, OthersMarked, MovedRight, CountUnread, UnreadNotes, Awaiting
  <2>6. SocketsServed({p}, {})
    <3>1. Comes(req'[p], s, u) /\ \A t, v : ~Comes(req[p], t, v)
      BY <2>3, <2>4 DEF Comes, Awaiting
    <3>2. owner'[s] = u /\ \A t \in Socket \ {s} : owner'[t] = owner[t]
      BY <2>2 DEF BellTypeOK
    <3> QED
      BY <2>4, <3>1, <3>2 DEF SocketsServed
  <2> QED
    BY <2>5, <2>6, BellKept
<1>2. ASSUME NEW p \in Request, GetCount(p)
      PROVE  HeldRight' /\ ToldOrComing'
  <2>1. PICK u \in Person : \E s \in SocketsOf(u) : req' = [req EXCEPT ![p] = Awaiting(u, s)]
    BY <1>2 DEF GetCount
  <2>2. PICK s \in SocketsOf(u) : req' = [req EXCEPT ![p] = Awaiting(u, s)]
    BY <2>1
  <2>3. Awaiting(u, s) \in NoteRequest /\ Awaiting(u, s).at # "tell"
    BY NoteStarts DEF SocketsOf, Awaiting
  <2>4. UNCHANGED <<notes, owner, told, excused>> /\ req[p].at \notin {"count", "tell"}
    BY <1>2 DEF GetCount, At
  <2> QED
    BY <2>2, <2>3, <2>4, Unmarked, BellMoved
<1>3. ASSUME Disconnect
      PROVE  HeldRight' /\ ToldOrComing'
  <2>1. PICK s \in Socket : /\ owner' = [owner EXCEPT ![s] = Null]
                            /\ told' = [told EXCEPT ![s] = Null] /\ excused' = excused \ {s}
    BY <1>3 DEF Disconnect
  <2>2. UNCHANGED <<notes, req>>
    BY <1>3 DEF Disconnect
  <2>3. CountsStay({}) /\ OthersMarked({}, {}) /\ MovedRight({})
    BY <2>2, Unmarked DEF CountsStay, OthersMarked, MovedRight, CountUnread, UnreadNotes
  <2>4. SocketsServed({}, {})
    <3>1. owner'[s] = Null /\ \A t \in Socket \ {s} : owner'[t] = owner[t] /\ told'[t] = told[t]
      BY <2>1 DEF BellTypeOK
    <3> QED
      BY <2>1, <3>1, NotificationAssumption DEF SocketsServed
  <2> QED
    BY <2>3, <2>4, BellKept
<1> QED
  BY <1>1, <1>2, <1>3

LEMMA BellNotes ==
    ASSUME BellTypeOK, HeldRight, ToldOrComing,
           \/ CreateSilently
           \/ \E p \in Request : Push(p) \/ SocketMarkRead(p) \/ SocketMarkAllRead(p)
           \/ MarkAsRead \/ MarkAllAsRead \/ DeleteNotification \/ Expire
    PROVE  HeldRight' /\ ToldOrComing'
<1>s. notes \in Seq(Note)
  BY DEF BellTypeOK
<1>n. Null \in News \cup {Null}
  OBVIOUS
<1>1. CASE CreateSilently
  <2>1. PICK u \in Person : /\ Created(u, Null) /\ req' = Overtaken(u)
                            /\ excused' = excused \cup SocketsOf(u)
    BY <1>1 DEF CreateSilently
  <2>2. \A v \in Person \ {u} : CountUnread(v)' = CountUnread(v)
    BY <1>s, <1>n, <2>1, CreatedNotes
  <2> QED
    BY <1>1, <2>1, <2>2, BellChanged DEF CreateSilently
<1>2. ASSUME NEW p \in Request, Push(p)
      PROVE  HeldRight' /\ ToldOrComing'
  <2>1. PICK u \in Person : Created(u, Null) /\ req' = [Overtaken(u) EXCEPT ![p] = Awaiting(u, Null)]
    BY <1>2 DEF Push
  <2>2. \A v \in Person \ {u} : CountUnread(v)' = CountUnread(v)
    BY <1>s, <1>n, <2>1, CreatedNotes
  <2>3. /\ Awaiting(u, Null) \in NoteRequest /\ Awaiting(u, Null).at # "tell"
        /\ \A s : Comes(Awaiting(u, Null), s, u)
    BY NoteStarts DEF Awaiting, Comes
  <2>4. UNCHANGED <<owner, told, excused>> /\ req[p].at \notin {"count", "tell"}
    BY <1>2 DEF Push, At
  <2> QED
    BY <2>1, <2>2, <2>3, <2>4, BellChanged
\* What was read was u's.
<1>3. ASSUME NEW u \in Person, NEW ids, NEW status \in {"read", "deleted"}, SetStatus(ids, status),
             \A i \in ids : notes[i].to = u
      PROVE  \A v \in Person \ {u} : CountUnread(v)' = CountUnread(v)
  <2>1. \A v \in Person \ {u} : UnreadNotes(v) \cap ids = {}
    BY <1>3 DEF UnreadNotes
  <2> QED
    BY <1>s, <1>3, <2>1, StatusNotes
<1>4. ASSUME NEW p \in Request, SocketMarkRead(p)
      PROVE  HeldRight' /\ ToldOrComing'
  <2>1. PICK u \in Person : \E s \in SocketsOf(u), i \in UnreadNotes(u) :
              /\ SetStatus({i}, "read") /\ req' = [Overtaken(u) EXCEPT ![p] = Awaiting(u, s)]
              /\ excused' = excused \cup (SocketsOf(u) \ {s})
    BY <1>4 DEF SocketMarkRead
  <2>2. PICK s \in SocketsOf(u), i \in UnreadNotes(u) :
              /\ SetStatus({i}, "read") /\ req' = [Overtaken(u) EXCEPT ![p] = Awaiting(u, s)]
              /\ excused' = excused \cup (SocketsOf(u) \ {s})
    BY <2>1
  <2>3. \A v \in Person \ {u} : CountUnread(v)' = CountUnread(v)
    BY <1>3, <2>2 DEF UnreadNotes
  <2>4. /\ Awaiting(u, s) \in NoteRequest /\ Awaiting(u, s).at # "tell"
        /\ \A t \in SocketsOf(u) \ excused' : Comes(Awaiting(u, s), t, u)
    BY <2>2, NoteStarts DEF Awaiting, Comes, SocketsOf
  <2>5. UNCHANGED <<owner, told>> /\ req[p].at \notin {"count", "tell"} /\ excused \subseteq excused'
    BY <1>4, <2>2 DEF SocketMarkRead, At
  <2> QED
    BY <2>2, <2>3, <2>4, <2>5, BellChanged
<1>5. ASSUME NEW p \in Request, SocketMarkAllRead(p)
      PROVE  HeldRight' /\ ToldOrComing'
  <2>1. PICK u \in Person : \E s \in SocketsOf(u) :
              /\ SetStatus(UnreadNotes(u), "read") /\ req' = [Overtaken(u) EXCEPT ![p] = Holding(u, s, 0)]
              /\ excused' = excused \cup (SocketsOf(u) \ {s})
    BY <1>5 DEF SocketMarkAllRead
  <2>2. PICK s \in SocketsOf(u) :
              /\ SetStatus(UnreadNotes(u), "read") /\ req' = [Overtaken(u) EXCEPT ![p] = Holding(u, s, 0)]
              /\ excused' = excused \cup (SocketsOf(u) \ {s})
    BY <2>1
  <2>3. /\ \A v \in Person \ {u} : CountUnread(v)' = CountUnread(v)
        /\ CountUnread(u)' = 0
    <3>1. \A i \in UnreadNotes(u) : notes[i].to = u
      BY DEF UnreadNotes
    <3>2. CountUnread(u)' = 0
      BY <1>s, <2>2, StatusNotes
    <3> QED
      BY <1>3, <2>2, <3>1, <3>2
  <2>4. /\ Holding(u, s, 0) \in NoteRequest /\ Holding(u, s, 0).about = u /\ Holding(u, s, 0).n = 0
        /\ \A t \in SocketsOf(u) \ excused' : Comes(Holding(u, s, 0), t, u)
    BY <2>2, NoteStarts DEF Holding, Comes, SocketsOf
  <2>5. UNCHANGED <<owner, told>> /\ req[p].at \notin {"count", "tell"} /\ excused \subseteq excused'
    BY <1>5, <2>2 DEF SocketMarkAllRead, At
  <2> QED
    BY <2>2, <2>3, <2>4, <2>5, BellChanged
<1>6. ASSUME NEW u \in Person, NEW ids, NEW status \in {"read", "deleted"}, Silently(u, ids, status),
             \A i \in ids : notes[i].to = u
      PROVE  HeldRight' /\ ToldOrComing'
  <2>1. \A v \in Person \ {u} : CountUnread(v)' = CountUnread(v)
    BY <1>3, <1>6 DEF Silently
  <2> QED
    BY <1>6, <2>1, BellChanged DEF Silently
<1>7. CASE MarkAsRead \/ MarkAllAsRead
  BY <1>6, <1>7 DEF MarkAsRead, MarkAllAsRead, UnreadNotes
<1>8. CASE DeleteNotification
  <2>1. PICK i \in 1..Len(notes) : Silently(notes[i].to, {i}, "deleted")
    BY <1>8 DEF DeleteNotification
  <2>2. notes[i] \in Note
    BY <1>s, ElementOfSeq
  <2>3. notes[i].to \in Person
    BY <2>2 DEF Note
  <2> QED
    BY <1>6, <2>1, <2>3
<1>9. CASE Expire
  <2>1. PICK i \in 1..Len(notes) : notes[i].status = "read" /\ SetStatus({i}, "deleted")
    BY <1>9 DEF Expire
  <2>2. \A u \in Person : UnreadNotes(u) \cap {i} = {}
    BY <2>1 DEF UnreadNotes
  <2>3. CountsStay({})
    BY <1>s, <2>1, <2>2, StatusNotes DEF CountsStay
  <2>4. OthersMarked({}, {}) /\ MovedRight({}) /\ SocketsServed({}, {})
    BY <1>9, Unmarked DEF Expire, OthersMarked, MovedRight, SocketsServed
  <2> QED
    BY <2>3, <2>4, BellKept
<1> QED
  BY <1>1, <1>2, <1>4, <1>5, <1>7, <1>8, <1>9

LEMMA BellCounts ==
    ASSUME BellTypeOK, HeldRight, ToldOrComing, NEW p \in Request, Count(p) \/ Tell(p) \/ CountFails(p)
    PROVE  HeldRight' /\ ToldOrComing'
<1>r. req[p] \in NoteRequest /\ req \in [Request -> NoteRequest]
  BY DEF BellTypeOK, NoteRequest
<1>l. req[p].at # "idle" => req[p].about \in Person /\ req[p].target \in Socket \cup {Null}
  BY <1>r, NoteLocals
<1>n. UNCHANGED <<notes, owner>>
  BY DEF Count, Tell, CountFails
<1>c. CountsStay({}) /\ \A u : CountUnread(u)' = CountUnread(u)
  BY <1>n DEF CountsStay, CountUnread, UnreadNotes
<1>o. OthersMarked({p}, {})
  <2>1. \A q \in Request \ {p} : req'[q] = req[q]
    BY <1>r DEF Count, Tell, CountFails
  <2> QED
    BY <2>1, Unmarked DEF OthersMarked
\* The sockets that hear from p.
<1>t. \A s \in Socket, u \in Person : req[p].at \in {"count", "tell"} =>
         (owner[s] = u /\ Comes(req[p], s, u) <=> owner[s] = u /\ s \in Targets(p))
  BY <1>l DEF Comes, Targets, SocketsOf
<1>1. CASE Count(p)
  <2> DEFINE x == Holding(req[p].about, req[p].target, CountUnread(req[p].about))
  <2>1. req'[p] = x /\ req[p].at = "count" /\ UNCHANGED <<told, excused>>
    BY <1>1, <1>r DEF Count, At
  <2>2. /\ x.at = "tell" /\ x.about = req[p].about /\ x.target = req[p].target
        /\ x.n = CountUnread(req[p].about)
    BY DEF Holding
  <2> HIDE DEF x
  <2>3. MovedRight({p})
    BY <1>c, <2>1, <2>2 DEF MovedRight
  <2>4. SocketsServed({p}, {})
    BY <1>n, <2>1, <2>2 DEF SocketsServed, Comes
  <2> QED
    BY <1>c, <1>o, <2>3, <2>4, BellKept
<1>2. CASE Tell(p)
  <2>1. req'[p] = Idle /\ req[p].at = "tell"
    BY <1>2, <1>r DEF Tell, At
  <2>2. MovedRight({p})
    BY <2>1 DEF MovedRight, Idle
  <2>3. ASSUME NEW s \in Socket, NEW u \in Person, owner'[s] = u, s \notin excused'
        PROVE  \/ told'[s] = CountUnread(u)'
               \/ owner[s] = u /\ s \notin excused /\ told'[s] = told[s] /\ ~Comes(req[p], s, u)
    <3>1. CASE s \in Targets(p)
      <4>1. ~req[p].overtaken /\ req[p].about = u
        BY <1>2, <1>n, <2>3, <3>1 DEF Tell, Targets, SocketsOf
      <4>2. req[p].n = CountUnread(u)
        BY <2>1, <4>1 DEF HeldRight
      <4>3. told'[s] = req[p].n
        BY <1>2, <3>1 DEF Tell
      <4> QED
        BY <1>c, <4>2, <4>3
    <3>2. CASE s \notin Targets(p)
      <4>1. told'[s] = told[s] /\ s \notin excused
        BY <1>2, <2>3, <3>2 DEF Tell
      <4> QED
        BY <1>n, <1>t, <2>1, <2>3, <3>2, <4>1
    <3> QED
      BY <3>1, <3>2
  <2>4. SocketsServed({p}, {})
    BY <2>3 DEF SocketsServed
  <2> QED
    BY <1>c, <1>o, <2>2, <2>4, BellKept
<1>3. CASE CountFails(p)
  <2>1. /\ req'[p] = Idle /\ req[p].at = "count" /\ told' = told
        /\ excused' = excused \cup Targets(p)
    BY <1>3, <1>r DEF CountFails, At
  <2>2. MovedRight({p})
    BY <2>1 DEF MovedRight, Idle
  <2>3. SocketsServed({p}, {})
    BY <1>n, <1>t, <2>1 DEF SocketsServed
  <2> QED
    BY <1>c, <1>o, <2>2, <2>3, BellKept
<1> QED
  BY <1>1, <1>2, <1>3

LEMMA BellInterviews ==
    ASSUME NoteTypeOK, HeldRight, ToldOrComing,
           \/ \E p \in Request : InterviewStep(p)
           \/ updateInterview \/ completeInterview
    PROVE  HeldRight' /\ ToldOrComing'
<1>b. BellTypeOK /\ notes \in Seq(Note) /\ req \in [Request -> NoteRequest]
  BY DEF NoteTypeOK, BellTypeOK, NoteRequest
<1>1. ASSUME NEW p \in Request, scheduleInterview(p)
      PROVE  HeldRight' /\ ToldOrComing'
  <2> DEFINE new == Len(interviews) + 1
  <2>1. PICK u \in Person : \E r \in Round :
             Added(u, r) /\ req' = [req EXCEPT ![p] = NoticeOf(u, new, "scheduled", FALSE)]
    BY <1>1 DEF scheduleInterview, NoticeOf
  <2>2. NoticeOf(u, new, "scheduled", FALSE) \in NoteRequest
    <3>1. new \in Nat /\ "scheduled" \in InterviewStatus /\ FALSE \in BOOLEAN
      BY LenProperties DEF NoteTypeOK, InterviewStatus
    <3> HIDE DEF new
    <3> QED
      BY <3>1, NoteStarts DEF NoticeOf
  <2>3. UNCHANGED <<notes, owner, told, excused>> /\ req[p].at \notin {"count", "tell"}
    BY <1>1 DEF scheduleInterview, At
  <2>4. NoticeOf(u, new, "scheduled", FALSE).at # "tell"
    BY DEF NoticeOf
  <2> HIDE DEF new
  <2> QED
    BY <1>b, <2>1, <2>2, <2>3, <2>4, Unmarked, BellMoved
<1>2. ASSUME NEW p \in Request, rescheduleInterview(p) \/ cancelInterview(p)
      PROVE  HeldRight' /\ ToldOrComing'
  <2>1. PICK i, k \in 1..Len(interviews), status \in InterviewStatus : Announced(p, i, k, status)
    BY <1>2, Announcements
  <2> DEFINE x == NoticeOf(interviews[i].of, k, status, k # i)
  <2>2. x \in NoteRequest /\ req' = [Outdated(i) EXCEPT ![p] = x]
    BY <2>1, AnnouncedSlot
  <2>3. x.at # "tell"
    BY DEF NoticeOf
  <2>4. UNCHANGED <<notes, owner, told, excused>> /\ req[p].at \notin {"count", "tell"}
    BY <1>2, <2>1 DEF Announced, rescheduleInterview, cancelInterview, At
  <2> HIDE DEF x
  <2> QED
    BY <1>b, <2>2, <2>3, <2>4, OutdatedSlots, BellMoved
<1>3. ASSUME NEW i, NEW status, Quietly(i, status)
      PROVE  HeldRight' /\ ToldOrComing'
  <2>1. UNCHANGED <<notes, owner, told, excused>> /\ req' = Outdated(i)
    BY <1>3 DEF Quietly
  <2>2. CountsStay({}) /\ OthersMarked({}, {}) /\ MovedRight({}) /\ SocketsServed({}, {})
    BY <1>b, <2>1, OutdatedSlots
       DEF CountsStay, OthersMarked, MovedRight, SocketsServed, CountUnread, UnreadNotes
  <2> QED
    BY <2>2, BellKept
<1>4. ASSUME NEW p \in Request, createInterviewNotification(p)
      PROVE  HeldRight' /\ ToldOrComing'
  <2>1. PICK u : u = req[p].about
    OBVIOUS
  <2>2. At(p, "notice") /\ u \in Person /\ req[p].says \in News
    BY <1>b, <1>4, <2>1, NoteLocals DEF createInterviewNotification, At
  <2>3. \A v \in Person \ {u} : CountUnread(v)' = CountUnread(v)
    BY <1>b, <1>4, <2>1, <2>2, CreatedNotes DEF createInterviewNotification
  <2>4. /\ Awaiting(u, Null) \in NoteRequest /\ Awaiting(u, Null).at # "tell"
        /\ \A s : Comes(Awaiting(u, Null), s, u)
    BY <2>2, NoteStarts DEF Awaiting, Comes
  <2>5. /\ UNCHANGED <<owner, told, excused>> /\ req[p].at \notin {"count", "tell"}
        /\ req' = [Overtaken(u) EXCEPT ![p] = Awaiting(u, Null)]
    BY <1>4, <2>1, <2>2 DEF createInterviewNotification, At
  <2> QED
    BY <1>b, <2>2, <2>3, <2>4, <2>5, BellChanged
<1>5. ASSUME NEW p \in Request, NoticeFails(p)
      PROVE  HeldRight' /\ ToldOrComing'
  <2>1. UNCHANGED <<notes, owner, told, excused>> /\ req[p].at \notin {"count", "tell"}
    BY <1>5 DEF NoticeFails, At
  <2> QED
    BY <1>b, <1>5, <2>1, NoteStarts, Unmarked, BellMoved DEF NoticeFails
<1> QED
  BY <1>1, <1>2, <1>3, <1>4, <1>5 DEF InterviewStep, updateInterview, completeInterview

-----------------------------------------------------------------------------
(***************************************************************************)
(* What candidates are told of their interviews.                           *)
(***************************************************************************)

\* A notice in flight is of an interview there is.
NoticePlaced == \A p \in Request : req[p].at = "notice" => req[p].says.interview \in 1..Len(interviews)

\* One that is not stale says what the interview is.
NoticeFresh ==
    \A p \in Request : \A i \in 1..Len(interviews) :
        req[p].at = "notice" /\ ~req[p].stale /\ req[p].says.interview = i =>
            req[p].says.status = interviews[i].status

\* A notice of interview i is in flight.
InFlight(i) == \E p \in Request : req[p].at = "notice" /\ req[p].says.interview = i

\* The last notification of interview i says status.
Said(i, status) ==
    \E n \in 1..Len(notes) :
        /\ notes[n].says = [interview |-> i, status |-> status]
        /\ \A m \in (n + 1)..Len(notes) : notes[m].says = Null \/ notes[m].says.interview # i

NoticeInv == NoticePlaced /\ NoticeFresh /\ NoticeAgrees

LEMMA NoticeAgreed ==
    NoticeAgrees <=>
        \A i \in 1..Len(interviews) \ unannounced : InFlight(i) \/ Said(i, interviews[i].status)
  BY DEF NoticeAgrees, InFlight, Said, At

LEMMA NoticeAgreedAfter ==
    ASSUME \A i \in 1..Len(interviews') \ unannounced' :
              InFlight(i)' \/ \E status : interviews'[i].status = status /\ Said(i, status)'
    PROVE  NoticeAgrees'
<1>1. ASSUME NEW i \in 1..Len(interviews') \ unannounced', NEW status,
             interviews'[i].status = status, Said(i, status)'
      PROVE  \E n \in 1..Len(notes') :
                 /\ notes'[n].says = [interview |-> i, status |-> interviews'[i].status]
                 /\ \A m \in (n + 1)..Len(notes') :
                       notes'[m].says = Null \/ notes'[m].says.interview # i
  BY <1>1 DEF Said
<1>2. ASSUME NEW i \in 1..Len(interviews') \ unannounced', InFlight(i)'
      PROVE  \E p \in Request : At(p, "notice")' /\ req'[p].says.interview = i
  BY <1>2 DEF InFlight, At
<1> QED
  BY <1>1, <1>2 DEF NoticeAgrees

\* Notifications that are of nothing new of i.
LEMMA SaidKept ==
    ASSUME Len(notes) \in Nat, NEW i, NEW status, Said(i, status),
           \A n \in 1..Len(notes) : notes'[n].says = notes[n].says,
           \/ Len(notes') = Len(notes)
           \/ /\ Len(notes') = Len(notes) + 1
              /\ notes'[Len(notes) + 1].says = Null \/ notes'[Len(notes) + 1].says.interview # i
    PROVE  Said(i, status)'
<1>1. PICK n \in 1..Len(notes) :
         /\ notes[n].says = [interview |-> i, status |-> status]
         /\ \A m \in (n + 1)..Len(notes) : notes[m].says = Null \/ notes[m].says.interview # i
  BY DEF Said
<1>2. n \in 1..Len(notes') /\ notes'[n].says = [interview |-> i, status |-> status]
  BY <1>1
<1>3. \A m \in (n + 1)..Len(notes') : notes'[m].says = Null \/ notes'[m].says.interview # i
  <2>1. SUFFICES ASSUME NEW m \in (n + 1)..Len(notes')
                 PROVE  notes'[m].says = Null \/ notes'[m].says.interview # i
    OBVIOUS
  <2>2. CASE m \in 1..Len(notes)
    <3>1. notes[m].says = Null \/ notes[m].says.interview # i
      BY <1>1, <2>1, <2>2
    <3> QED
      BY <2>2, <3>1
  <2>3. CASE m \notin 1..Len(notes)
    <3>1. m = Len(notes) + 1 /\ Len(notes') = Len(notes) + 1
      BY <1>1, <2>1, <2>3
    <3> QED
      BY <3>1
  <2> QED
    BY <2>2, <2>3
<1> QED
  BY <1>2, <1>3 DEF Said

\* A slot that is of no interview before or after, or says the same.
SameNotice(new, old) ==
    new.at = "notice" \/ old.at = "notice" =>
        /\ new.at = "notice" /\ old.at = "notice"
        /\ new.says = old.says /\ (~new.stale => ~old.stale)

LEMMA MarkedNotices ==
    ASSUME BellTypeOK
    PROVE  /\ \A q \in Request : SameNotice(req[q], req[q])
           /\ \A u \in Person : \A q \in Request : SameNotice(Overtaken(u)[q], req[q])
           /\ \A i : \A q \in Request : SameNotice(Outdated(i)[q], req[q])
  BY OvertakenSlots, OutdatedSlots DEF SameNotice, AsBefore

\* The operations on notifications are of no interview.
LEMMA BellNotices ==
    ASSUME BellTypeOK, BellNext
    PROVE  \A q \in Request : SameNotice(req'[q], req[q])
<1>r. req \in [Request -> NoteRequest]
  BY DEF BellTypeOK, NoteRequest
<1>1. ASSUME NEW slots \in [Request -> NoteRequest], \A q \in Request : SameNotice(slots[q], req[q]),
             NEW p \in Request, NEW x, req' = [slots EXCEPT ![p] = x],
             x.at # "notice", req[p].at # "notice"
      PROVE  \A q \in Request : SameNotice(req'[q], req[q])
  <2>1. req'[p] = x /\ \A q \in Request \ {p} : req'[q] = slots[q]
    BY <1>1
  <2> QED
    BY <1>1, <2>1 DEF SameNotice
<1>2. ASSUME NEW u \in Person, req' = Overtaken(u)
      PROVE  \A q \in Request : SameNotice(req'[q], req[q])
  BY <1>2, MarkedNotices
<1>3. ASSUME NEW u \in Person, NEW p \in Request, req[p].at # "notice", NEW x, x.at # "notice",
             req' = [Overtaken(u) EXCEPT ![p] = x]
      PROVE  \A q \in Request : SameNotice(req'[q], req[q])
  BY <1>1, <1>3, OvertakenSlots, MarkedNotices
<1>4. ASSUME NEW p \in Request, req[p].at # "notice", NEW x, x.at # "notice", req' = [req EXCEPT ![p] = x]
      PROVE  \A q \in Request : SameNotice(req'[q], req[q])
  BY <1>1, <1>4, <1>r, MarkedNotices
<1>x. /\ Idle.at # "notice"
      /\ \A u, s : Awaiting(u, s).at # "notice" /\ \A k : Holding(u, s, k).at # "notice"
  BY DEF Idle, Awaiting, Holding
<1>5. ASSUME NEW p \in Request, NoteStep(p)
      PROVE  \A q \in Request : SameNotice(req'[q], req[q])
  <2>1. CASE Connect(p) \/ GetCount(p)
    <3>1. PICK u, s : req' = [req EXCEPT ![p] = Awaiting(u, s)]
      BY <2>1 DEF Connect, GetCount
    <3>2. req[p].at # "notice"
      BY <2>1 DEF Connect, GetCount, At
    <3>3. Awaiting(u, s).at # "notice"
      BY <1>x
    <3> QED
      BY <1>4, <3>1, <3>2, <3>3
  <2>2. CASE Push(p) \/ SocketMarkRead(p) \/ SocketMarkAllRead(p)
    <3>1. req[p].at # "notice"
      BY <2>2 DEF Push, SocketMarkRead, SocketMarkAllRead, At
    <3>2. ASSUME Push(p) \/ SocketMarkRead(p)
          PROVE  \E u \in Person : \E s : req' = [Overtaken(u) EXCEPT ![p] = Awaiting(u, s)]
      BY <3>2 DEF Push, SocketMarkRead
    <3>3. CASE SocketMarkAllRead(p)
      <4>1. PICK u \in Person : \E s \in SocketsOf(u) : req' = [Overtaken(u) EXCEPT ![p] = Holding(u, s, 0)]
        BY <3>3 DEF SocketMarkAllRead
      <4>2. PICK s \in SocketsOf(u) : req' = [Overtaken(u) EXCEPT ![p] = Holding(u, s, 0)]
        BY <4>1
      <4>3. Holding(u, s, 0).at # "notice"
        BY <1>x
      <4> QED
        BY <1>3, <3>1, <4>2, <4>3
    <3> QED
      BY <1>3, <1>x, <2>2, <3>1, <3>2, <3>3
  <2>3. CASE Count(p) \/ Tell(p) \/ CountFails(p)
    <3>1. req[p].at # "notice"
      BY <2>3 DEF Count, Tell, CountFails, At
    <3>2. CASE Tell(p) \/ CountFails(p)
      BY <1>4, <1>x, <3>1, <3>2 DEF Tell, CountFails
    <3>3. CASE Count(p)
      <4>1. req' = [req EXCEPT ![p] = Holding(req[p].about, req[p].target, CountUnread(req[p].about))]
        BY <3>3 DEF Count
      <4> QED
        BY <1>4, <1>x, <3>1, <4>1
    <3> QED
      BY <2>3, <3>2, <3>3
  <2> QED
    BY <1>5, <2>1, <2>2, <2>3 DEF NoteStep
<1>6. CASE CreateSilently \/ MarkAsRead \/ MarkAllAsRead
  BY <1>2, <1>6 DEF CreateSilently, MarkAsRead, MarkAllAsRead, Silently
<1>7. CASE DeleteNotification
  <2>1. PICK i \in 1..Len(notes) : Silently(notes[i].to, {i}, "deleted")
    BY <1>7 DEF DeleteNotification
  <2>2. notes[i] \in Note
    BY ElementOfSeq DEF BellTypeOK
  <2>3. notes[i].to \in Person
    BY <2>2 DEF Note
  <2> QED
    BY <1>2, <2>1, <2>3 DEF Silently
<1>8. CASE Disconnect \/ Expire
  BY <1>8, MarkedNotices DEF Disconnect, Expire
<1> QED
  BY <1>5, <1>6, <1>7, <1>8 DEF BellNext

SaysKept ==
    /\ \A n \in 1..Len(notes) : notes'[n].says = notes[n].says
    /\ \/ Len(notes') = Len(notes)
       \/ Len(notes') = Len(notes) + 1 /\ notes'[Len(notes) + 1].says = Null

LEMMA BellSays ==
    ASSUME BellTypeOK, BellNext
    PROVE  SaysKept
<1>s. notes \in Seq(Note) /\ Null \in News \cup {Null}
  BY DEF BellTypeOK
<1>1. ASSUME NEW u \in Person, Created(u, Null)
      PROVE  SaysKept
  BY <1>s, <1>1, CreatedNotes DEF SaysKept
<1>2. ASSUME NEW ids, NEW status \in {"read", "deleted"}, SetStatus(ids, status)
      PROVE  SaysKept
  BY <1>s, <1>2, StatusNotes DEF SaysKept
<1>3. CASE UNCHANGED notes
  BY <1>3 DEF SaysKept
<1>4. ASSUME NEW p \in Request, NoteStep(p)
      PROVE  SaysKept
  BY <1>1, <1>2, <1>3, <1>4
     DEF NoteStep, Connect, Push, GetCount, SocketMarkRead, SocketMarkAllRead, Count, Tell, CountFails
<1>5. CASE Disconnect \/ CreateSilently \/ MarkAsRead \/ MarkAllAsRead \/ DeleteNotification \/ Expire
  BY <1>1, <1>2, <1>3, <1>5
     DEF Disconnect, CreateSilently, MarkAsRead, MarkAllAsRead, DeleteNotification, Expire, Silently
<1> QED
  BY <1>4, <1>5 DEF BellNext

LEMMA NoticeBell ==
    ASSUME NoteTypeOK, NoticeInv, UNCHANGED interviewVars, SaysKept,
           \A q \in Request : SameNotice(req'[q], req[q])
    PROVE  NoticeInv'
<1>i. interviews' = interviews /\ unannounced' = unannounced
  BY DEF interviewVars
<1>l. Len(notes) \in Nat
  BY LenProperties DEF NoteTypeOK, BellTypeOK
<1>1. NoticePlaced'
  BY <1>i DEF NoticeInv, NoticePlaced, SameNotice
<1>2. NoticeFresh'
  BY <1>i DEF NoticeInv, NoticeFresh, SameNotice
<1>3. NoticeAgrees'
  <2>1. ASSUME NEW i \in 1..Len(interviews) \ unannounced
        PROVE  InFlight(i)' \/ \E status : interviews'[i].status = status /\ Said(i, status)'
    <3>1. CASE InFlight(i)
      BY <3>1 DEF InFlight, SameNotice
    <3>2. ASSUME NEW status, interviews[i].status = status, Said(i, status)
          PROVE  Said(i, status)'
      BY <1>l, <3>2, SaidKept DEF SaysKept
    <3>3. InFlight(i) \/ Said(i, interviews[i].status)
      BY <2>1, NoticeAgreed DEF NoticeInv
    <3> QED
      BY <1>i, <3>1, <3>2, <3>3
  <2> QED
    BY <1>i, <2>1, NoticeAgreedAfter
<1> QED
  BY <1>1, <1>2, <1>3 DEF NoticeInv

\* Of a step of an interview that leaves the notifications: interview i alone
\* changes; the slots of M come to hold a notice, none of the others one of i
\* that is not stale; and i, if it is not given up, has a notice in flight.
OneChanges(i) ==
    /\ Len(interviews') \in Nat /\ Len(interviews) <= Len(interviews')
    /\ \A j \in 1..Len(interviews) : j # i => interviews'[j] = interviews[j]
    /\ \A j \in 1..Len(interviews') : j \in 1..Len(interviews) \/ j = i

OthersStale(M, i) ==
    \A q \in Request \ M : /\ SameNotice(req'[q], req[q])
                           /\ req'[q].at = "notice" /\ ~req'[q].stale => req'[q].says.interview # i

NoticesOf(M, i) ==
    \A q \in M : /\ req[q].at # "notice"
                 /\ req'[q].at = "notice" /\ req'[q].says.interview \in 1..Len(interviews')
                 /\ ~req'[q].stale => /\ req'[q].says.interview = i
                                      /\ req'[q].says.status = interviews'[i].status

Followed(i) == unannounced \subseteq unannounced' /\ (i \in unannounced' \/ InFlight(i)')

LEMMA NoticeMoved ==
    ASSUME NoteTypeOK, NoticeInv, UNCHANGED notes, NEW i, NEW M, M \subseteq Request,
           OneChanges(i), OthersStale(M, i), NoticesOf(M, i), Followed(i)
    PROVE  NoticeInv'
<1> USE DEF OneChanges, OthersStale, NoticesOf, Followed
<1>l. Len(notes) \in Nat /\ Len(interviews) \in Nat
  BY LenProperties DEF NoteTypeOK, BellTypeOK
<1>m. 1..Len(interviews) \subseteq 1..Len(interviews')
  BY <1>l
<1>1. NoticePlaced'
  BY <1>m DEF NoticeInv, NoticePlaced, SameNotice
<1>2. ASSUME NEW q \in Request, NEW j \in 1..Len(interviews'),
             req'[q].at = "notice", ~req'[q].stale, req'[q].says.interview = j
      PROVE  req'[q].says.status = interviews'[j].status
  <2>1. CASE q \in M
    BY <1>2, <2>1
  <2>2. CASE q \notin M
    <3>1. req[q].at = "notice" /\ ~req[q].stale /\ req[q].says = req'[q].says /\ j # i
      BY <1>2, <2>2 DEF SameNotice
    <3>2. req[q].says.status = interviews[j].status
      BY <1>2, <3>1 DEF NoticeInv, NoticeFresh
    <3> QED
      BY <1>2, <3>1, <3>2
  <2> QED
    BY <2>1, <2>2
<1>3. ASSUME NEW j \in 1..Len(interviews') \ unannounced'
      PROVE  InFlight(j)' \/ \E status : interviews'[j].status = status /\ Said(j, status)'
  <2>1. CASE j = i
    BY <1>3, <2>1
  <2>2. CASE j # i
    <3>1. j \in 1..Len(interviews) \ unannounced /\ interviews'[j] = interviews[j]
      BY <1>3, <2>2
    <3>2. InFlight(j) \/ Said(j, interviews[j].status)
      BY <3>1, NoticeAgreed DEF NoticeInv
    <3>3. InFlight(j) => InFlight(j)'
      BY DEF InFlight, SameNotice
    <3>4. ASSUME NEW status, Said(j, status)
          PROVE  Said(j, status)'
      BY <1>l, <3>4, SaidKept
    <3> QED
      BY <3>1, <3>2, <3>3, <3>4
  <2> QED
    BY <2>1, <2>2
<1>4. NoticeAgrees'
  BY <1>3, NoticeAgreedAfter
<1> QED
  BY <1>1, <1>2, <1>4 DEF NoticeInv, NoticeFresh

LEMMA NoticeChanges ==
    ASSUME NoteTypeOK, NoticeInv,
           \/ \E p \in Request : scheduleInterview(p) \/ rescheduleInterview(p) \/ cancelInterview(p)
    PROVE  NoticeInv'
<1>b. BellTypeOK /\ req \in [Request -> NoteRequest] /\ Len(interviews) \in Nat
  BY LenProperties DEF NoteTypeOK, BellTypeOK, NoteRequest
<1>1. ASSUME NEW p \in Request, scheduleInterview(p)
      PROVE  NoticeInv'
  <2>n. PICK new \in Nat : new = Len(interviews) + 1
    BY <1>b
  <2>1. PICK u \in Person : \E r \in Round :
             Added(u, r) /\ req' = [req EXCEPT ![p] = NoticeOf(u, new, "scheduled", FALSE)]
    BY <1>1, <2>n DEF scheduleInterview, NoticeOf
  <2>2. PICK r \in Round :
             Added(u, r) /\ req' = [req EXCEPT ![p] = NoticeOf(u, new, "scheduled", FALSE)]
    BY <2>1
  <2>3. /\ Len(interviews') = new
        /\ \A j \in 1..Len(interviews) : interviews'[j] = interviews[j]
        /\ interviews'[new].status = "scheduled"
    BY <2>2, <2>n, AddedTypes
  <2>4. /\ new \in 1..Len(interviews') /\ Len(interviews) <= Len(interviews')
        /\ \A j \in 1..Len(interviews') : j \in 1..Len(interviews) \/ j = new
        /\ new \notin 1..Len(interviews)
    BY <1>b, <2>n, <2>3
  <2> DEFINE x == NoticeOf(u, new, "scheduled", FALSE)
  <2>x. x.at = "notice" /\ x.says.interview = new /\ x.says.status = "scheduled"
    BY DEF NoticeOf
  <2> HIDE DEF x
  <2>5. req'[p] = x /\ \A q \in Request \ {p} : req'[q] = req[q]
    <3>1. req' = [req EXCEPT ![p] = x]
      BY <2>2 DEF x
    <3> QED
      BY <1>b, <3>1
  <2>6. /\ req'[p].at = "notice" /\ req'[p].says.interview = new
        /\ req'[p].says.status = "scheduled"
    BY <2>5, <2>x
  <2>7. UNCHANGED <<notes, unannounced>> /\ req[p].at # "notice"
    BY <1>1 DEF scheduleInterview, At
  <2>8. OthersStale({p}, new)
    BY <2>4, <2>5 DEF OthersStale, SameNotice, NoticeInv, NoticePlaced
  <2>9. OneChanges(new) /\ NoticesOf({p}, new) /\ Followed(new)
    <3>1. OneChanges(new)
      BY <2>3, <2>4, <2>n DEF OneChanges
    <3>2. NoticesOf({p}, new)
      BY <2>3, <2>4, <2>6, <2>7 DEF NoticesOf
    <3>3. Followed(new)
      BY <2>6, <2>7 DEF Followed, InFlight
    <3> QED
      BY <3>1, <3>2, <3>3
  <2> QED
    BY <2>7, <2>8, <2>9, NoticeMoved
<1>2. ASSUME NEW p \in Request, rescheduleInterview(p) \/ cancelInterview(p)
      PROVE  NoticeInv'
  <2>1. PICK i, k \in 1..Len(interviews), status \in InterviewStatus : Announced(p, i, k, status)
    BY <1>2, Announcements
  <2>2. /\ Len(interviews') = Len(interviews) /\ interviews'[i].status = status
        /\ \A j \in 1..Len(interviews) \ {i} : interviews'[j] = interviews[j]
    BY <2>1, UpdatedTypes DEF Announced
  <2> DEFINE x == NoticeOf(interviews[i].of, k, status, k # i)
  <2>3. req'[p] = x /\ \A q \in Request \ {p} : req'[q] = Outdated(i)[q]
    BY <1>b, <2>1, AnnouncedSlot, OutdatedSlots
  <2>4. /\ req'[p].at = "notice" /\ req'[p].says.interview = k /\ req'[p].says.status = status
        /\ ~req'[p].stale => k = i
    <3>1. /\ x.at = "notice" /\ x.says.interview = k /\ x.says.status = status
          /\ x.stale = (k # i)
      BY NoticeFields
    <3> HIDE DEF x
    <3> QED
      BY <2>3, <3>1
  <2> HIDE DEF x
  <2>5. OthersStale({p}, i)
    <3>1. ASSUME NEW q \in Request \ {p}
          PROVE  /\ SameNotice(req'[q], req[q])
                 /\ req'[q].at = "notice" /\ ~req'[q].stale => req'[q].says.interview # i
      <4>1. SameNotice(req'[q], req[q])
        BY <1>b, <2>3, MarkedNotices
      <4> QED
        BY <1>b, <2>3, <4>1, OutdatedSlots DEF SameNotice
    <3> QED
      BY <3>1 DEF OthersStale
  <2>6. i \in unannounced' \/ InFlight(i)'
    <3>1. CASE k = i
      BY <2>4, <3>1 DEF InFlight
    <3>2. CASE k # i
      BY <2>1, <3>2 DEF Announced
    <3> QED
      BY <3>1, <3>2
  <2>7. /\ notes' = notes /\ unannounced \subseteq unannounced'
    BY <2>1 DEF Announced
  <2>8. req[p].at # "notice"
    BY <1>2 DEF rescheduleInterview, cancelInterview, At
  <2>9. OneChanges(i) /\ NoticesOf({p}, i) /\ Followed(i)
    BY <1>b, <2>2, <2>4, <2>6, <2>7, <2>8 DEF OneChanges, NoticesOf, Followed
  <2> QED
    BY <2>5, <2>7, <2>9, NoticeMoved
<1> QED
  BY <1>1, <1>2

LEMMA NoticeQuiet ==
    ASSUME NoteTypeOK, NoticeInv, updateInterview \/ completeInterview
    PROVE  NoticeInv'
<1>b. BellTypeOK /\ Len(interviews) \in Nat
  BY LenProperties DEF NoteTypeOK
<1>1. ASSUME NEW i \in 1..Len(interviews), NEW status \in InterviewStatus, Quietly(i, status)
      PROVE  NoticeInv'
  <2>1. /\ Len(interviews') = Len(interviews)
        /\ \A j \in 1..Len(interviews) \ {i} : interviews'[j] = interviews[j]
    BY <1>1, UpdatedTypes DEF Quietly
  <2>2. OneChanges(i)
    BY <1>b, <2>1 DEF OneChanges
  <2>3. OthersStale({}, i)
    <3>1. \A q \in Request : SameNotice(req'[q], req[q])
      BY <1>b, <1>1, MarkedNotices DEF Quietly
    <3>2. \A q \in Request : req[q].at = "notice" /\ req[q].says.interview = i => req'[q].stale
      BY <1>b, <1>1, OutdatedSlots DEF Quietly
    <3> QED
      BY <3>1, <3>2 DEF OthersStale, SameNotice
  <2>4. NoticesOf({}, i) /\ Followed(i) /\ notes' = notes
    BY <1>1 DEF NoticesOf, Followed, Quietly
  <2> QED
    BY <2>2, <2>3, <2>4, NoticeMoved
<1> QED
  BY <1>1 DEF updateInterview, completeInterview, InterviewStatus

\* What the slot said is the last that is said of its interview.
LEMMA SaidNow ==
    ASSUME Len(notes) \in Nat, Len(notes') = Len(notes) + 1, NEW i, NEW status,
           notes'[Len(notes) + 1].says = [interview |-> i, status |-> status]
    PROVE  Said(i, status)'
<1>1. PICK n : n = Len(notes) + 1
  OBVIOUS
<1>2. /\ n \in 1..Len(notes') /\ (n + 1)..Len(notes') = {}
      /\ notes'[n].says = [interview |-> i, status |-> status]
  BY <1>1
<1> QED
  BY <1>2 DEF Said

LEMMA NoticeEnds ==
    ASSUME NoteTypeOK, NoticeInv, NEW p \in Request, createInterviewNotification(p) \/ NoticeFails(p)
    PROVE  NoticeInv'
<1>b. /\ BellTypeOK /\ notes \in Seq(Note) /\ Len(notes) \in Nat
      /\ req \in [Request -> NoteRequest]
  BY LenProperties DEF NoteTypeOK, BellTypeOK, NoteRequest
<1>r. At(p, "notice") /\ req[p].about \in Person /\ req[p].says \in News
  BY <1>b, NoteLocals DEF createInterviewNotification, NoticeFails, At
<1>i. PICK i : i = req[p].says.interview
  OBVIOUS
<1>k. i \in 1..Len(interviews) /\ interviews' = interviews
  BY <1>r, <1>i DEF NoticeInv, NoticePlaced, At, createInterviewNotification, NoticeFails
<1>1. req'[p].at # "notice" /\ \A q \in Request \ {p} : SameNotice(req'[q], req[q])
  <2>1. CASE createInterviewNotification(p)
    <3>1. req' = [Overtaken(req[p].about) EXCEPT ![p] = Awaiting(req[p].about, Null)]
      BY <2>1 DEF createInterviewNotification
    <3>2. Overtaken(req[p].about) \in [Request -> NoteRequest]
      BY <1>b, <1>r, OvertakenSlots
    <3>3. /\ req'[p] = Awaiting(req[p].about, Null)
          /\ \A q \in Request \ {p} : req'[q] = Overtaken(req[p].about)[q]
      BY <3>1, <3>2
    <3>4. req'[p].at = "count"
      BY <3>3 DEF Awaiting
    <3> QED
      BY <1>b, <1>r, <3>3, <3>4, MarkedNotices
  <2>2. CASE NoticeFails(p)
    <3>1. req'[p] = Idle /\ \A q \in Request \ {p} : req'[q] = req[q]
      BY <1>b, <2>2 DEF NoticeFails
    <3> QED
      BY <1>b, <3>1, MarkedNotices DEF Idle
  <2> QED
    BY <2>1, <2>2
<1>2. NoticePlaced'
  BY <1>1, <1>k DEF NoticeInv, NoticePlaced, SameNotice
<1>3. ASSUME NEW q \in Request, NEW j \in 1..Len(interviews),
             req'[q].at = "notice", ~req'[q].stale, req'[q].says.interview = j
      PROVE  req'[q].says.status = interviews[j].status
  <2>1. req[q].at = "notice" /\ ~req[q].stale /\ req[q].says = req'[q].says
    BY <1>1, <1>3 DEF SameNotice
  <2> QED
    BY <1>3, <2>1 DEF NoticeInv, NoticeFresh
<1>4. NoticeFresh'
  BY <1>3, <1>k DEF NoticeFresh
\* Of an interview other than i nothing was said.
<1>5. ASSUME NEW j \in 1..Len(interviews) \ unannounced', j # i
      PROVE  InFlight(j)' \/ \E status : interviews'[j].status = status /\ Said(j, status)'
  <2>1. j \in 1..Len(interviews) \ unannounced
    BY <1>5, <1>i DEF createInterviewNotification, NoticeFails
  <2>2. CASE InFlight(j)
    BY <2>2, <1>1, <1>5, <1>i DEF InFlight, SameNotice
  <2>3. ASSUME NEW status, Said(j, status)
        PROVE  Said(j, status)'
    <3>1. CASE createInterviewNotification(p)
      <4>1. /\ Len(notes') = Len(notes) + 1 /\ \A n \in 1..Len(notes) : notes'[n] = notes[n]
            /\ notes'[Len(notes) + 1].says = req[p].says
        BY <1>b, <1>r, <3>1, CreatedNotes DEF createInterviewNotification
      <4>2. notes'[Len(notes) + 1].says.interview # j
        BY <1>5, <1>i, <4>1
      <4> QED
        BY <1>b, <2>3, <4>1, <4>2, SaidKept
    <3>2. CASE NoticeFails(p)
      BY <1>b, <2>3, <3>2, SaidKept DEF NoticeFails
    <3> QED
      BY <3>1, <3>2
  <2>4. InFlight(j) \/ Said(j, interviews[j].status)
    BY <2>1, NoticeAgreed DEF NoticeInv
  <2> QED
    BY <1>k, <2>2, <2>3, <2>4
\* Of i its notice was created, and was not stale.
<1>6. ASSUME i \notin unannounced'
      PROVE  \E status : interviews'[i].status = status /\ Said(i, status)'
  <2>1. createInterviewNotification(p) /\ ~req[p].stale
    BY <1>6, <1>i DEF createInterviewNotification, NoticeFails
  <2>2. req[p].says.status = interviews[i].status
    BY <2>1, <1>r, <1>i, <1>k DEF NoticeInv, NoticeFresh, At
  <2>3. Len(notes') = Len(notes) + 1 /\ notes'[Len(notes) + 1].says = req[p].says
    BY <1>b, <1>r, <2>1, CreatedNotes DEF createInterviewNotification
  <2>4. req[p].says = [interview |-> i, status |-> interviews[i].status]
    BY <1>r, <1>i, <2>2 DEF News
  <2>5. PICK status : status = interviews[i].status
    OBVIOUS
  <2>6. Said(i, status)'
    BY <1>b, <2>3, <2>4, <2>5, SaidNow
  <2> QED
    BY <1>k, <2>5, <2>6
<1>7. NoticeAgrees'
  BY <1>5, <1>6, <1>k, NoticeAgreedAfter
<1> QED
  BY <1>2, <1>4, <1>7 DEF NoticeInv

-----------------------------------------------------------------------------
(***************************************************************************)
(* The three properties.                                                   *)
(***************************************************************************)

\* Inductive: what is held and awaited of the counts, and of the notices.
NoteInv == NoteTypeOK /\ HeldRight /\ ToldOrComing /\ NoticeInv

LEMMA NoteInvStarted == NoteInit => NoteInv
<1> SUFFICES ASSUME NoteInit PROVE NoteInv
  OBVIOUS
<1>1. /\ notes = <<>> /\ changes = Len(interviews) /\ excused = {}
      /\ interviews \in Brought /\ unannounced = 1..Len(interviews)
      /\ owner = [s \in Socket |-> Null] /\ told = [s \in Socket |-> Null]
      /\ req = [p \in Request |-> Idle]
  BY DEF NoteInit, BellInit
<1>2. NoteTypeOK
  <2>1. notes \in Seq(Note) /\ interviews \in Seq(Interview)
    BY <1>1, InterviewAssumption, EmptySeq
  <2> QED
    BY <1>1, <2>1 DEF NoteTypeOK, BellTypeOK
<1>3. \A p \in Request : req[p].at = "idle"
  BY <1>1 DEF Idle
<1>4. \A s \in Socket : owner[s] = Null
  BY <1>1
<1>5. HeldRight /\ ToldOrComing
  BY <1>3, <1>4, NotificationAssumption DEF HeldRight, ToldOrComing
<1>6. (1..Len(interviews)) \ unannounced = {}
  BY <1>1
<1>7. NoticeInv
  BY <1>3, <1>6 DEF NoticeInv, NoticePlaced, NoticeFresh, NoticeAgrees
<1> QED
  BY <1>2, <1>5, <1>7 DEF NoteInv

LEMMA NoteInvStep == NoteInv /\ [NoteNext]_noteVars => NoteInv'
<1> SUFFICES ASSUME NoteInv, [NoteNext]_noteVars PROVE NoteInv'
  OBVIOUS
<1>i. NoteTypeOK /\ BellTypeOK /\ HeldRight /\ ToldOrComing /\ NoticeInv
  BY DEF NoteInv, NoteTypeOK
<1>1. CASE BellNext /\ UNCHANGED interviewVars
  <2>1. NoteTypeOK'
    BY <1>1, <1>i, BellTypeStep DEF NoteTypeOK, interviewVars
  <2>2. HeldRight' /\ ToldOrComing'
    BY <1>1, <1>i, BellConnections, BellNotes, BellCounts DEF BellNext, NoteStep
  <2>3. NoticeInv'
    BY <1>1, <1>i, BellNotices, BellSays, NoticeBell
  <2> QED
    BY <2>1, <2>2, <2>3 DEF NoteInv
<1>2. CASE (\E p \in Request : InterviewStep(p)) \/ updateInterview \/ completeInterview
  <2>1. NoteTypeOK'
    BY <1>2, <1>i, InterviewTypes, NoticeTypes DEF InterviewStep, NoticeInv, NoticePlaced, At
  <2>2. HeldRight' /\ ToldOrComing'
    BY <1>2, <1>i, BellInterviews
  <2>3. NoticeInv'
    BY <1>2, <1>i, NoticeChanges, NoticeEnds, NoticeQuiet DEF InterviewStep
  <2> QED
    BY <2>1, <2>2, <2>3 DEF NoteInv
<1>3. CASE UNCHANGED noteVars
  <2>1. UNCHANGED <<notes, owner, told, req, excused, interviews, changes, unannounced>>
    BY <1>3 DEF noteVars, bellVars, interviewVars
  <2>2. NoteTypeOK'
    BY <2>1, <1>i DEF NoteTypeOK, BellTypeOK
  <2>3. HeldRight' /\ ToldOrComing'
    BY <2>1, <1>i DEF HeldRight, ToldOrComing, CountUnread, UnreadNotes
  <2>4. SaysKept /\ \A q \in Request : SameNotice(req'[q], req[q])
    BY <2>1, <1>i, MarkedNotices DEF SaysKept
  <2>5. NoticeInv'
    BY <2>1, <2>4, <1>i, NoticeBell DEF interviewVars
  <2> QED
    BY <2>2, <2>3, <2>5 DEF NoteInv
<1> QED
  BY <1>1, <1>2, <1>3 DEF NoteNext

LEMMA NoteInvAlways == NoteSpec => []NoteInv
  BY NoteInvStarted, NoteInvStep, PTL DEF NoteSpec

LEMMA BellGiven ==
    ASSUME NoteInv
    PROVE  BellAgrees
<1>t. BellTypeOK
  BY DEF NoteInv, NoteTypeOK
<1>1. SUFFICES ASSUME NEW s \in Socket, owner[s] # Null, s \notin excused, Pending(s) = {}
               PROVE  told[s] = CountUnread(owner[s])
  BY DEF BellAgrees
<1>2. owner[s] \in Person
  BY <1>1, <1>t DEF BellTypeOK
<1>3. told[s] = CountUnread(owner[s]) \/ \E p \in Request : Comes(req[p], s, owner[s])
  BY <1>1, <1>2 DEF NoteInv, ToldOrComing
<1>4. \A p \in Request : ~Comes(req[p], s, owner[s])
  BY <1>1 DEF Pending, Comes, Targets, SocketsOf, At
<1> QED
  BY <1>3, <1>4

\* Every variable of the notifications and of the interviews keeps to its type
\* and every slot to the locals of its await.
THEOREM NoteTypesCorrect == NoteSpec => []NoteTypeOK
<1>1. NoteInv => NoteTypeOK
  BY DEF NoteInv
<1> QED
  BY <1>1, NoteInvAlways, PTL

\* However many sockets a person has and however counts, changes and emits
\* interleave, a connected socket that awaits no count and is not excused shows
\* the number of its owner's unread notifications as of now.
THEOREM BellsAgree == NoteSpec => []BellAgrees
<1>1. NoteInv => BellAgrees
  BY BellGiven
<1> QED
  BY <1>1, NoteInvAlways, PTL

\* However many interviews are changed at once, the last notification of one
\* says what became of it, unless it is listed as unannounced or its notice is
\* in flight.
THEOREM NoticesAgree == NoteSpec => []NoticeAgrees
<1>1. NoteInv => NoticeAgrees
  BY DEF NoteInv, NoticeInv
<1> QED
  BY <1>1, NoteInvAlways, PTL
=============================================================================

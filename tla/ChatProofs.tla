----------------------------- MODULE ChatProofs -----------------------------
(***************************************************************************)
(* Type correctness of Messages and its four properties, for any           *)
(* participants, conversations, page size and number of requests in        *)
(* flight.                                                                 *)
(***************************************************************************)
EXTENDS Messages, SequenceTheorems, FiniteSetTheorems, TLAPS

-----------------------------------------------------------------------------
(***************************************************************************)
(* Types.                                                                  *)
(***************************************************************************)

Filed == {"sendLast", "sendCount", "sendNotify"}

\* The locals a slot holds at each await.
LEMMA ChatLocals ==
    ASSUME NEW r \in ChatRequest
    PROVE  /\ (r.at \in Opening => r.subject \in Matter)
           /\ (r.at \in Sending => (r.subject \in Conv /\ r.from \in Person))
           /\ (r.at \in Filed => r.msg \in Nat)
           /\ (r.at \in Reading =>
                 (r.subject \in Conv /\ r.reader \in Person /\ r.ids \subseteq Nat))
           /\ (r.at = "joinMark" => r.ids \subseteq Nat)
  BY DEF ChatRequest, Idle, Opening, Sending, Reading, Filed

\* What a request that starts or moves on puts into its slot.
LEMMA ChatStarts ==
    /\ Idle \in ChatRequest
    /\ \A l \in Opening, x \in Matter : [at |-> l, subject |-> x] \in ChatRequest
    /\ \A c \in Conv, u \in Person :
          [at |-> "sendCreate", subject |-> c, from |-> u] \in ChatRequest
    /\ \A c \in Conv, u \in Person, l \in Filed, m \in Nat :
          [at |-> l, subject |-> c, from |-> u, msg |-> m] \in ChatRequest
    /\ \A c \in Conv, u \in Person, l \in Reading, s \in SUBSET Nat :
          [at |-> l, subject |-> c, reader |-> u, ids |-> s] \in ChatRequest
    /\ \A c \in Conv, s \in SUBSET Nat :
          [at |-> "joinMark", subject |-> c, ids |-> s] \in ChatRequest
  BY DEF ChatRequest, Opening, Sending, Reading, Filed

\* A slot that moves on keeps its locals.
LEMMA ChatMoves ==
    ASSUME NEW r \in ChatRequest
    PROVE  /\ (r.at = "openAgain" =>
                 /\ [r EXCEPT !.at = "openInsert"] \in ChatRequest
                 /\ [r EXCEPT !.at = "openInsert"] = [at |-> "openInsert", subject |-> r.subject])
           /\ (r.at \in Filed =>
                 \A l \in Filed :
                    /\ [r EXCEPT !.at = l] \in ChatRequest
                    /\ [r EXCEPT !.at = l] =
                          [at |-> l, subject |-> r.subject, from |-> r.from, msg |-> r.msg])
           /\ (r.at = "readMark" =>
                 /\ [r EXCEPT !.at = "readReset"] \in ChatRequest
                 /\ [r EXCEPT !.at = "readReset"] =
                       [at |-> "readReset", subject |-> r.subject, reader |-> r.reader,
                        ids |-> r.ids])
<1>1. ASSUME r.at = "openAgain"
      PROVE  /\ [r EXCEPT !.at = "openInsert"] \in ChatRequest
             /\ [r EXCEPT !.at = "openInsert"] = [at |-> "openInsert", subject |-> r.subject]
  <2>1. r \in [at: Opening, subject: Matter]
    BY <1>1 DEF ChatRequest, Idle, Sending, Reading
  <2>2. [r EXCEPT !.at = "openInsert"] = [at |-> "openInsert", subject |-> r.subject]
    BY <2>1
  <2> QED
    BY <2>1, <2>2, ChatStarts DEF Opening
<1>2. ASSUME r.at \in Filed, NEW l \in Filed
      PROVE  /\ [r EXCEPT !.at = l] \in ChatRequest
             /\ [r EXCEPT !.at = l] =
                   [at |-> l, subject |-> r.subject, from |-> r.from, msg |-> r.msg]
  <2>1. r \in [at: Sending \ {"sendCreate"}, subject: Conv, from: Person, msg: Nat]
    BY <1>2 DEF ChatRequest, Idle, Opening, Reading, Filed
  <2>2. [r EXCEPT !.at = l] = [at |-> l, subject |-> r.subject, from |-> r.from, msg |-> r.msg]
    BY <2>1
  <2>3. r.subject \in Conv /\ r.from \in Person /\ r.msg \in Nat
    BY <2>1
  <2>4. [at |-> l, subject |-> r.subject, from |-> r.from, msg |-> r.msg] \in ChatRequest
    BY <2>3, ChatStarts
  <2> QED
    BY <2>2, <2>4
<1>3. ASSUME r.at = "readMark"
      PROVE  /\ [r EXCEPT !.at = "readReset"] \in ChatRequest
             /\ [r EXCEPT !.at = "readReset"] =
                   [at |-> "readReset", subject |-> r.subject, reader |-> r.reader, ids |-> r.ids]
  <2>1. r \in [at: Reading, subject: Conv, reader: Person, ids: SUBSET Nat]
    BY <1>3 DEF ChatRequest, Idle, Opening, Sending
  <2>2. [r EXCEPT !.at = "readReset"] =
           [at |-> "readReset", subject |-> r.subject, reader |-> r.reader, ids |-> r.ids]
    BY <2>1
  <2>3. r.subject \in Conv /\ r.reader \in Person /\ r.ids \in SUBSET Nat
    BY <2>1
  <2>4. [at |-> "readReset", subject |-> r.subject, reader |-> r.reader, ids |-> r.ids] \in ChatRequest
    BY <2>3, ChatStarts DEF Reading
  <2> QED
    BY <2>2, <2>4
<1> QED
  BY <1>1, <1>2, <1>3

LEMMA ChatSlots ==
    ASSUME req \in [Request -> ChatRequest], NEW p \in Request, NEW x, Goto(p, x)
    PROVE  /\ req'[p] = x
           /\ \A q \in Request \ {p} : req'[q] = req[q]
           /\ (x \in ChatRequest => req' \in [Request -> ChatRequest])
  BY DEF Goto

\* The participants of a conversation differ, and it is not the empty one.
LEMMA ConversationProps ==
    ASSUME NEW x \in Conversation
    PROVE  /\ x # NoConv
           /\ x.about \in Matter
           /\ x.about[1] \in Person /\ x.about[2] \in Person /\ x.about[1] # x.about[2]
           /\ \A n \in Nat : /\ [x EXCEPT !.last = n] \in Conversation
                             /\ [x EXCEPT !.last = n].about = x.about
                             /\ [x EXCEPT !.last = n].last = n
           /\ \A u \in Person, n \in Nat :
                 /\ [x EXCEPT !.unreadCount[u] = n] \in Conversation
                 /\ [x EXCEPT !.unreadCount[u] = n].about = x.about
                 /\ [x EXCEPT !.unreadCount[u] = n].last = x.last
           /\ \A u \in Person : x.unreadCount[u] \in Nat
<1>1. x # NoConv
  BY DEF Conversation, NoConv
<1>2. x.about \in Matter /\ x.unreadCount \in [Person -> Nat]
  BY DEF Conversation
<1>3. x.about[1] \in Person /\ x.about[2] \in Person /\ x.about[1] # x.about[2]
  BY <1>2, ChatAssumption DEF Matter, Person
<1>4. ASSUME NEW u \in Person, NEW n \in Nat
      PROVE  /\ [x EXCEPT !.unreadCount[u] = n] \in Conversation
             /\ [x EXCEPT !.unreadCount[u] = n].about = x.about
             /\ [x EXCEPT !.unreadCount[u] = n].last = x.last
  <2>1. [x.unreadCount EXCEPT ![u] = n] \in [Person -> Nat]
    BY <1>2
  <2>2. [x EXCEPT !.unreadCount[u] = n] = [x EXCEPT !.unreadCount = [x.unreadCount EXCEPT ![u] = n]]
    OBVIOUS
  <2> QED
    BY <2>1, <2>2 DEF Conversation
<1>5. ASSUME NEW n \in Nat
      PROVE  /\ [x EXCEPT !.last = n] \in Conversation
             /\ [x EXCEPT !.last = n].about = x.about
             /\ [x EXCEPT !.last = n].last = n
  BY DEF Conversation
<1> QED
  BY <1>1, <1>2, <1>3, <1>4, <1>5

LEMMA FreshConversation ==
    ASSUME NEW x \in Matter
    PROVE  /\ NewConversation(x) \in Conversation
           /\ NewConversation(x).about = x /\ NewConversation(x).last = 0
  BY DEF NewConversation, Conversation

LEMMA OpenedProps ==
    ASSUME ChatTypeOK, NEW c \in Opened
    PROVE  /\ c \in Conv /\ convs[c] \in Conversation
           /\ \A u \in Participants(c) : /\ u \in Person
                                         /\ Other(c, u) \in Participants(c)
                                         /\ Other(c, u) \in Person
<1>1. c \in Conv /\ convs[c] \in Conversation
  BY DEF ChatTypeOK, Opened
<1>2. /\ convs[c].about[1] \in Person /\ convs[c].about[2] \in Person
      /\ convs[c].about[1] # convs[c].about[2]
  BY <1>1, ConversationProps
<1>3. ASSUME NEW u \in Participants(c)
      PROVE  Other(c, u) \in Participants(c)
  <2>1. \E v \in Participants(c) : v # u
    BY <1>2 DEF Participants
  <2> QED
    BY <2>1 DEF Other
<1> QED
  BY <1>1, <1>2, <1>3 DEF Participants

-----------------------------------------------------------------------------
(***************************************************************************)
(* What a slot is about exists, and what a step leaves of the documents.   *)
(***************************************************************************)

Known(r) ==
    /\ (r.at \in Sending \cup Reading => r.subject \in Opened)
    /\ (r.at = "sendCreate" => r.from \in Participants(r.subject))
    /\ (r.at \in Filed => (r.msg \in 1..Len(msgs) /\ msgs[r.msg].conv = r.subject))

SlotsKnown == \A p \in Request : Known(req[p])

MessagesFiled == \A i \in 1..Len(msgs) : msgs[i].conv \in Opened

LEMMA ConvsMove ==
    ASSUME ChatTypeOK, NEW c \in Opened, NEW y \in Conversation, y.about = convs[c].about,
           convs' = [convs EXCEPT ![c] = y]
    PROVE  /\ convs' \in [Conv -> Conversation \cup {NoConv}]
           /\ Opened' = Opened
           /\ convs'[c] = y
           /\ \A d \in Opened \ {c} : convs'[d] = convs[d]
           /\ \A d \in Opened : convs'[d].about = convs[d].about
<1>1. /\ c \in Conv /\ convs \in [Conv -> Conversation \cup {NoConv}]
      /\ y # NoConv /\ convs[c] # NoConv
  BY ConversationProps DEF ChatTypeOK, Opened
<1> QED
  BY <1>1 DEF Opened

\* The three writes to a conversation that exists.
LEMMA HeaderWrites ==
    ASSUME ChatTypeOK, SlotsKnown, NEW p \in Request, SendLast(p) \/ SendCount(p) \/ ReadReset(p)
    PROVE  /\ convs' \in [Conv -> Conversation \cup {NoConv}]
           /\ Opened' = Opened
           /\ \A d \in Opened : convs'[d].about = convs[d].about
           /\ \A d \in Opened : convs'[d].last =
                 IF SendLast(p) /\ d = req[p].subject THEN req[p].msg ELSE convs[d].last
<1> DEFINE c == req[p].subject
<1>t. req[p] \in ChatRequest /\ Known(req[p]) /\ msgs \in Seq(Message)
  BY DEF ChatTypeOK, SlotsKnown
<1>c. c \in Opened /\ c \in Conv /\ convs[c] \in Conversation
  BY <1>t, OpenedProps DEF Known, SendLast, SendCount, ReadReset, At, Sending, Reading
<1> HIDE DEF c
<1>1. CASE SendLast(p)
  <2>1. /\ req[p].msg \in Nat
        /\ convs' = [convs EXCEPT ![c] = [convs[c] EXCEPT !.last = req[p].msg]]
    BY <1>1, <1>t, ChatLocals DEF SendLast, At, c, Filed
  <2>2. /\ [convs[c] EXCEPT !.last = req[p].msg] \in Conversation
        /\ [convs[c] EXCEPT !.last = req[p].msg].about = convs[c].about
        /\ [convs[c] EXCEPT !.last = req[p].msg].last = req[p].msg
    BY <1>c, <2>1, ConversationProps
  <2>3. /\ convs' \in [Conv -> Conversation \cup {NoConv}]
        /\ Opened' = Opened
        /\ convs'[c] = [convs[c] EXCEPT !.last = req[p].msg]
        /\ \A d \in Opened \ {c} : convs'[d] = convs[d]
        /\ \A d \in Opened : convs'[d].about = convs[d].about
    BY <1>c, <2>1, <2>2, ConvsMove
  <2>4. \A d \in Opened : convs'[d].last = IF d = c THEN req[p].msg ELSE convs[d].last
    BY <2>2, <2>3
  <2> QED
    BY <1>1, <2>3, <2>4 DEF c
<1>2. CASE SendCount(p) \/ ReadReset(p)
  <2>1. ~SendLast(p)
    BY <1>2 DEF SendLast, SendCount, ReadReset, At
  <2>2. PICK u \in Person, n \in Nat :
           convs' = [convs EXCEPT ![c] = [convs[c] EXCEPT !.unreadCount[u] = n]]
    <3>1. CASE SendCount(p)
      <4>1. req[p].msg \in 1..Len(msgs)
        BY <3>1, <1>t DEF SendCount, At, Known, Filed
      <4>2. msgs[req[p].msg] \in Message
        BY <4>1, <1>t, ElementOfSeq
      <4>3. msgs[req[p].msg].to \in Person
        BY <4>2 DEF Message
      <4>4. convs[c].unreadCount[msgs[req[p].msg].to] + 1 \in Nat
        BY <4>3, <1>c, ConversationProps
      <4>5. convs' = [convs EXCEPT ![c] = [convs[c] EXCEPT !.unreadCount[msgs[req[p].msg].to] =
                         convs[c].unreadCount[msgs[req[p].msg].to] + 1]]
        BY <3>1 DEF SendCount, c
      <4> QED
        BY <4>3, <4>4, <4>5
    <3>2. CASE ReadReset(p)
      <4>1. req[p].reader \in Person
        BY <3>2, <1>t, ChatLocals DEF ReadReset, At, Reading
      <4>2. convs' = [convs EXCEPT ![c] = [convs[c] EXCEPT !.unreadCount[req[p].reader] = 0]]
        BY <3>2 DEF ReadReset, c
      <4> QED
        BY <4>1, <4>2
    <3> QED
      BY <1>2, <3>1, <3>2
  <2>3. /\ [convs[c] EXCEPT !.unreadCount[u] = n] \in Conversation
        /\ [convs[c] EXCEPT !.unreadCount[u] = n].about = convs[c].about
        /\ [convs[c] EXCEPT !.unreadCount[u] = n].last = convs[c].last
    BY <1>c, ConversationProps
  <2>4. /\ convs' \in [Conv -> Conversation \cup {NoConv}]
        /\ Opened' = Opened
        /\ convs'[c] = [convs[c] EXCEPT !.unreadCount[u] = n]
        /\ \A d \in Opened \ {c} : convs'[d] = convs[d]
        /\ \A d \in Opened : convs'[d].about = convs[d].about
    BY <1>c, <2>2, <2>3, ConvsMove
  <2>5. \A d \in Opened : convs'[d].last = convs[d].last
    BY <2>3, <2>4
  <2> QED
    BY <2>1, <2>4, <2>5
<1> QED
  BY <1>1, <1>2

LEMMA ConversationAdded ==
    ASSUME ChatTypeOK, NEW p \in Request, OpenInsert(p)
    PROVE  /\ convs' \in [Conv -> Conversation \cup {NoConv}]
           /\ \E c \in Conv \ Opened :
                 /\ Opened' = Opened \cup {c}
                 /\ convs'[c].about = req[p].subject /\ convs'[c].last = 0
           /\ \A d \in Opened : convs'[d] = convs[d]
<1>1. req[p].subject \in Matter /\ convs \in [Conv -> Conversation \cup {NoConv}]
  BY ChatLocals DEF ChatTypeOK, OpenInsert, At, Opening
<1>2. PICK c \in Conv \ Opened : convs' = [convs EXCEPT ![c] = NewConversation(req[p].subject)]
  BY DEF OpenInsert
<1>3. /\ NewConversation(req[p].subject) \in Conversation
      /\ NewConversation(req[p].subject).about = req[p].subject
      /\ NewConversation(req[p].subject).last = 0
      /\ NewConversation(req[p].subject) # NoConv
  BY <1>1, FreshConversation, ConversationProps
<1>4. /\ convs' \in [Conv -> Conversation \cup {NoConv}]
      /\ \A d \in Conv \ {c} : convs'[d] = convs[d]
      /\ convs'[c] = NewConversation(req[p].subject)
  BY <1>1, <1>2, <1>3
<1>5. Opened' = Opened \cup {c}
  BY <1>3, <1>4 DEF Opened
<1> QED
  BY <1>3, <1>4, <1>5 DEF Opened

\* Only these write to conversations.
LEMMA ConvsKept ==
    ASSUME [ChatNext]_chatVars
    PROVE  \/ \E p \in Request : OpenInsert(p)
           \/ \E p \in Request : SendLast(p) \/ SendCount(p) \/ ReadReset(p)
           \/ UNCHANGED convs
  BY DEF ChatNext, MessageStep, OpenStep, SendStep, ReadStep, OpenFind, OpenAgain, SendStart,
         SendCreate, SendNotify, ReadPage, ReadMark, JoinPage, JoinMark, RequestFails,
         Acknowledge, Delete, chatVars

LEMMA StatusSet ==
    ASSUME msgs \in Seq(Message), NEW ids, NEW s \in MessageStatus, SetStatus(ids, s)
    PROVE  /\ msgs' \in Seq(Message) /\ Len(msgs') = Len(msgs)
           /\ \A i \in 1..Len(msgs) :
                 /\ msgs'[i].conv = msgs[i].conv /\ msgs'[i].to = msgs[i].to
                 /\ msgs'[i].isDeleted = msgs[i].isDeleted
                 /\ msgs'[i].status = IF i \in ids THEN s ELSE msgs[i].status
<1>1. \A i \in 1..Len(msgs) : msgs[i] \in Message
  BY ElementOfSeq
<1>2. \A i \in 1..Len(msgs) :
         /\ [msgs[i] EXCEPT !.status = s] \in Message
         /\ [msgs[i] EXCEPT !.status = s].conv = msgs[i].conv
         /\ [msgs[i] EXCEPT !.status = s].to = msgs[i].to
         /\ [msgs[i] EXCEPT !.status = s].isDeleted = msgs[i].isDeleted
         /\ [msgs[i] EXCEPT !.status = s].status = s
  BY <1>1 DEF Message
<1>3. msgs' = [i \in 1..Len(msgs) |->
                  IF i \in ids THEN [msgs[i] EXCEPT !.status = s] ELSE msgs[i]]
  BY DEF SetStatus
<1>4. msgs' \in [1..Len(msgs) -> Message]
  BY <1>1, <1>2, <1>3
<1>5. Len(msgs) \in Nat
  OBVIOUS
<1>6. msgs' \in Seq(Message) /\ Len(msgs') = Len(msgs)
  BY <1>4, <1>5, SeqDef
<1> QED
  BY <1>2, <1>3, <1>6

\* Messages are only added, and none goes back on what it went through.
LEMMA MessagesGoOn ==
    ASSUME ChatTypeOK, SlotsKnown, [ChatNext]_chatVars
    PROVE  /\ msgs' \in Seq(Message)
           /\ (Len(msgs') = Len(msgs) \/ \E p \in Request : SendCreate(p))
           /\ Len(msgs) <= Len(msgs')
           /\ \A i \in 1..Len(msgs) :
                 /\ msgs'[i].conv = msgs[i].conv
                 /\ Rank[msgs[i].status] <= Rank[msgs'[i].status]
                 /\ (msgs[i].isDeleted => msgs'[i].isDeleted)
<1>t. msgs \in Seq(Message) /\ Len(msgs) \in Nat
  BY DEF ChatTypeOK
<1>m. \A i \in 1..Len(msgs) : msgs[i] \in Message /\ msgs[i].status \in MessageStatus
  <2>1. \A i \in 1..Len(msgs) : msgs[i] \in Message
    BY <1>t, ElementOfSeq
  <2> QED
    BY <2>1 DEF Message
<1>r. /\ Rank["sent"] = 0 /\ Rank["delivered"] = 1 /\ Rank["read"] = 2
      /\ \A s \in MessageStatus : Rank[s] <= Rank[s] /\ Rank[s] <= Rank["read"]
  BY DEF Rank, MessageStatus
<1>d. ASSUME NEW ids, MarkAsDelivered(ids)
      PROVE  /\ msgs' \in Seq(Message) /\ Len(msgs') = Len(msgs)
             /\ \A i \in 1..Len(msgs) :
                   /\ msgs'[i].conv = msgs[i].conv
                   /\ Rank[msgs[i].status] <= Rank[msgs'[i].status]
                   /\ (msgs[i].isDeleted => msgs'[i].isDeleted)
  <2>1. /\ "delivered" \in MessageStatus
        /\ SetStatus({i \in ids : msgs[i].status = "sent"}, "delivered")
    BY <1>d DEF MarkAsDelivered, MessageStatus
  <2>2. /\ msgs' \in Seq(Message) /\ Len(msgs') = Len(msgs)
        /\ \A i \in 1..Len(msgs) :
              /\ msgs'[i].conv = msgs[i].conv
              /\ msgs'[i].isDeleted = msgs[i].isDeleted
              /\ msgs'[i].status = IF i \in {j \in ids : msgs[j].status = "sent"}
                                   THEN "delivered" ELSE msgs[i].status
    BY <1>t, <2>1, StatusSet
  <2>3. \A i \in 1..Len(msgs) : \/ msgs'[i].status = msgs[i].status
                                \/ msgs[i].status = "sent" /\ msgs'[i].status = "delivered"
    BY <2>2
  <2> QED
    BY <2>2, <2>3, <1>m, <1>r
<1>1. CASE UNCHANGED msgs
  BY <1>1, <1>t, <1>m, <1>r
<1>2. ASSUME NEW p \in Request, SendCreate(p)
      PROVE  /\ msgs' \in Seq(Message) /\ Len(msgs') = Len(msgs) + 1
             /\ \A i \in 1..Len(msgs) : msgs'[i] = msgs[i]
  <2>1. req[p].subject \in Opened /\ req[p].from \in Participants(req[p].subject)
    BY <1>2 DEF SlotsKnown, Known, SendCreate, At, Sending
  <2>2. [conv |-> req[p].subject, from |-> req[p].from, to |-> Other(req[p].subject, req[p].from),
         status |-> "sent", isDeleted |-> FALSE] \in Message
    BY <2>1, OpenedProps DEF Message, MessageStatus
  <2>3. msgs' = Append(msgs, [conv |-> req[p].subject, from |-> req[p].from,
                              to |-> Other(req[p].subject, req[p].from),
                              status |-> "sent", isDeleted |-> FALSE])
    BY <1>2 DEF SendCreate
  <2> QED
    BY <1>t, <2>2, <2>3, AppendProperties
<1>3. ASSUME NEW p \in Request, ReadMark(p)
      PROVE  /\ msgs' \in Seq(Message) /\ Len(msgs') = Len(msgs)
             /\ \A i \in 1..Len(msgs) :
                   /\ msgs'[i].conv = msgs[i].conv
                   /\ Rank[msgs[i].status] <= Rank[msgs'[i].status]
                   /\ (msgs[i].isDeleted => msgs'[i].isDeleted)
  <2>1. "read" \in MessageStatus /\ SetStatus(req[p].ids, "read")
    BY <1>3 DEF ReadMark, MessageStatus
  <2> QED
    BY <2>1, <1>t, <1>m, <1>r, StatusSet
<1>4. ASSUME NEW p \in Request, JoinMark(p)
      PROVE  MarkAsDelivered(req[p].ids)
  BY <1>4 DEF JoinMark
<1>5. CASE Acknowledge
  <2>1. PICK ids \in SUBSET {i \in 1..Len(msgs) : msgs[i].status = "sent"} : MarkAsDelivered(ids)
    BY <1>5 DEF Acknowledge
  <2> QED
    BY <2>1, <1>d, <1>t
<1>6. CASE Delete
  <2>1. PICK i \in 1..Len(msgs) : msgs' = [msgs EXCEPT ![i].isDeleted = TRUE]
    BY <1>6 DEF Delete, Visible, MessagesOf
  <2>2. msgs[i] \in Message
    BY <1>m
  <2> DEFINE y == [msgs[i] EXCEPT !.isDeleted = TRUE]
  <2>3. /\ y \in Message /\ y.conv = msgs[i].conv
        /\ y.status = msgs[i].status /\ y.isDeleted = TRUE
    BY <2>2 DEF Message
  <2>4. msgs' = [msgs EXCEPT ![i] = y]
    BY <2>1
  <2> HIDE DEF y
  <2>5. /\ msgs' \in Seq(Message) /\ Len(msgs') = Len(msgs) /\ msgs'[i] = y
        /\ \A j \in 1..Len(msgs) : j # i => msgs'[j] = msgs[j]
    BY <1>t, <2>2, <2>3, <2>4
  <2>6. \A j \in 1..Len(msgs) :
           /\ msgs'[j].conv = msgs[j].conv /\ msgs'[j].status = msgs[j].status
           /\ (msgs[j].isDeleted => msgs'[j].isDeleted)
    BY <2>3, <2>5
  <2> QED
    BY <2>5, <2>6, <1>m, <1>r, <1>t
<1>7. \/ UNCHANGED msgs \/ Acknowledge \/ Delete
      \/ \E p \in Request : SendCreate(p) \/ ReadMark(p) \/ JoinMark(p)
  BY DEF ChatNext, MessageStep, OpenStep, SendStep, ReadStep, OpenFind, OpenAgain, OpenInsert,
         SendStart, SendLast, SendCount, SendNotify, ReadPage, ReadReset, JoinPage,
         RequestFails, chatVars
<1>8. CASE \E p \in Request : SendCreate(p)
  BY <1>8, <1>2, <1>t, <1>m, <1>r
<1>9. CASE \E p \in Request : ReadMark(p) \/ JoinMark(p)
  BY <1>9, <1>3, <1>4, <1>d, <1>t
<1> QED
  BY <1>1, <1>5, <1>6, <1>7, <1>8, <1>9

LEMMA ConvsGoOn ==
    ASSUME ChatTypeOK, SlotsKnown, [ChatNext]_chatVars
    PROVE  /\ convs' \in [Conv -> Conversation \cup {NoConv}]
           /\ Opened \subseteq Opened'
           /\ \A d \in Opened : convs'[d].about = convs[d].about
<1>1. CASE \E p \in Request : OpenInsert(p)
  BY <1>1, ConversationAdded
<1>2. CASE \E p \in Request : SendLast(p) \/ SendCount(p) \/ ReadReset(p)
  BY <1>2, HeaderWrites
<1>3. CASE UNCHANGED convs
  BY <1>3 DEF ChatTypeOK, Opened
<1> QED
  BY <1>1, <1>2, <1>3, ConvsKept

LEMMA KnownKept ==
    ASSUME ChatTypeOK, SlotsKnown, [ChatNext]_chatVars, NEW r, Known(r)
    PROVE  Known(r)'
<1>1. /\ Opened \subseteq Opened'
      /\ \A d \in Opened : convs'[d].about = convs[d].about
  BY ConvsGoOn
<1>2. /\ Len(msgs) <= Len(msgs') /\ Len(msgs) \in Nat /\ Len(msgs') \in Nat
      /\ \A i \in 1..Len(msgs) : msgs'[i].conv = msgs[i].conv
  BY MessagesGoOn DEF ChatTypeOK
<1>3. Sending' = Sending /\ Reading' = Reading /\ Filed' = Filed
  BY DEF Sending, Reading, Filed
<1>4. (r.at \in Sending \cup Reading)' => r.subject \in Opened'
  BY <1>1, <1>3 DEF Known
<1>5. r.at = "sendCreate" => r.from \in Participants(r.subject)'
  BY <1>1 DEF Known, Participants, Sending
<1>6. r.at \in Filed => (r.msg \in 1..Len(msgs') /\ msgs'[r.msg].conv = r.subject)
  BY <1>2 DEF Known
<1> QED
  BY <1>3, <1>4, <1>5, <1>6 DEF Known

\* A reader takes a page of messages, or goes straight to the counter.
LEMMA PageTaken ==
    ASSUME ChatTypeOK, NEW p \in Request, ReadPage(p)
    PROVE  \E c \in Opened, u \in Person, ids \in SUBSET (1..Len(msgs)), l \in Reading :
              Goto(p, [at |-> l, subject |-> c, reader |-> u, ids |-> ids])
<1>1. PICK c \in Opened : \E u \in Participants(c) :
         LET ids == FirstPage(c, PageSize) \cap UnreadOf(c, u)
         IN Goto(p, [at |-> IF ids = {} THEN "readReset" ELSE "readMark",
                     subject |-> c, reader |-> u, ids |-> ids])
  BY DEF ReadPage
<1>2. PICK u \in Participants(c) :
         LET ids == FirstPage(c, PageSize) \cap UnreadOf(c, u)
         IN Goto(p, [at |-> IF ids = {} THEN "readReset" ELSE "readMark",
                     subject |-> c, reader |-> u, ids |-> ids])
  BY <1>1
<1> DEFINE ids == FirstPage(c, PageSize) \cap UnreadOf(c, u)
           l == IF ids = {} THEN "readReset" ELSE "readMark"
<1>3. u \in Person
  BY OpenedProps
<1>4. ids \in SUBSET (1..Len(msgs)) /\ l \in Reading
  BY DEF UnreadOf, MessagesOf, Reading
<1>5. Goto(p, [at |-> l, subject |-> c, reader |-> u, ids |-> ids])
  BY <1>2
<1> HIDE DEF ids, l
<1> QED
  BY <1>3, <1>4, <1>5

\* Every step of a slot leaves it with locals of their types, and known.
LEMMA SlotGoes ==
    ASSUME ChatTypeOK, SlotsKnown, NEW p \in Request, MessageStep(p)
    PROVE  \E x \in ChatRequest : Goto(p, x) /\ Known(x)'
<1>t. req[p] \in ChatRequest /\ Known(req[p]) /\ msgs \in Seq(Message) /\ Len(msgs) \in Nat
  BY DEF ChatTypeOK, SlotsKnown
<1>n. [ChatNext]_chatVars
  BY DEF ChatNext
<1>k. \A r : Known(r) => Known(r)'
  BY <1>n, KnownKept
<1>i. Idle \in ChatRequest /\ Known(Idle)
  BY ChatStarts DEF Idle, Known, Sending, Reading, Filed
<1>u. \A r : r.at \in Opening \cup {"joinMark"} => Known(r)
  BY DEF Known, Opening, Sending, Reading, Filed
<1>1. CASE \/ OpenInsert(p) \/ SendNotify(p) \/ ReadReset(p) \/ JoinMark(p) \/ RequestFails(p)
  BY <1>1, <1>i, <1>k DEF OpenInsert, SendNotify, ReadReset, JoinMark, RequestFails, Done
<1>2. CASE OpenFind(p)
  <2>1. PICK x \in Matter : Goto(p, [at |-> "openAgain", subject |-> x])
    BY <1>2 DEF OpenFind
  <2>2. [at |-> "openAgain", subject |-> x] \in ChatRequest
    BY ChatStarts DEF Opening
  <2>3. Known([at |-> "openAgain", subject |-> x])
    BY <1>u DEF Opening
  <2> QED
    BY <2>1, <2>2, <2>3, <1>k
<1>3. CASE OpenAgain(p)
  <2> DEFINE y == [req[p] EXCEPT !.at = "openInsert"]
  <2>1. y \in ChatRequest /\ y.at = "openInsert"
    <3>1. y \in ChatRequest /\ y = [at |-> "openInsert", subject |-> req[p].subject]
      BY <1>3, <1>t, ChatMoves DEF OpenAgain, At
    <3> HIDE DEF y
    <3> QED
      BY <3>1
  <2>2. Goto(p, y) \/ Goto(p, Idle)
    BY <1>3 DEF OpenAgain, Move, Done
  <2> HIDE DEF y
  <2>3. Known(y)
    BY <2>1, <1>u DEF Opening
  <2> QED
    BY <2>1, <2>2, <2>3, <1>i, <1>k
<1>4. CASE SendStart(p)
  <2>1. PICK c \in Opened, u \in Person :
           /\ u \in Participants(c)
           /\ Goto(p, [at |-> "sendCreate", subject |-> c, from |-> u])
    BY <1>4, OpenedProps DEF SendStart
  <2> DEFINE y == [at |-> "sendCreate", subject |-> c, from |-> u]
  <2>2. y \in ChatRequest
    BY ChatStarts DEF Opened
  <2>3. Known(y)
    BY <2>1 DEF Known, Filed
  <2> HIDE DEF y
  <2>4. Goto(p, y)
    BY <2>1 DEF y
  <2> QED
    BY <2>2, <2>3, <2>4, <1>k
<1>5. CASE SendCreate(p)
  <2>1. PICK y, m :
           /\ y = [at |-> "sendLast", subject |-> req[p].subject, from |-> req[p].from,
                   msg |-> Len(msgs) + 1]
           /\ m = [conv |-> req[p].subject, from |-> req[p].from,
                   to |-> Other(req[p].subject, req[p].from),
                   status |-> "sent", isDeleted |-> FALSE]
    OBVIOUS
  <2>2. /\ req[p].subject \in Opened /\ req[p].subject \in Conv /\ req[p].from \in Person
        /\ req[p].from \in Participants(req[p].subject)
    BY <1>5, <1>t, ChatLocals DEF Known, Sending, SendCreate, At
  <2>3. y \in ChatRequest
    <3>1. Len(msgs) + 1 \in Nat /\ "sendLast" \in Filed
      BY <1>t DEF Filed
    <3> QED
      BY <2>1, <2>2, <3>1, ChatStarts
  <2>4. m \in Message /\ m.conv = req[p].subject
    BY <2>1, <2>2, OpenedProps DEF Message, MessageStatus
  <2>5. y.at = "sendLast" /\ y.subject = req[p].subject /\ y.msg = Len(msgs) + 1
    BY <2>1
  <2>6. Goto(p, y) /\ msgs' = Append(msgs, m) /\ UNCHANGED convs
    BY <1>5, <2>1 DEF SendCreate
  <2>7. Len(msgs') = Len(msgs) + 1 /\ msgs'[Len(msgs) + 1] = m
    BY <2>4, <2>6, <1>t, AppendProperties
  <2>8. Known(y)'
    <3>1. y.subject \in Opened'
      BY <2>2, <2>5, <2>6 DEF Opened
    <3>2. y.msg \in 1..Len(msgs') /\ msgs'[y.msg].conv = y.subject
      BY <2>4, <2>5, <2>7, <1>t
    <3> QED
      BY <3>1, <3>2, <2>5 DEF Known
  <2> QED
    BY <2>3, <2>6, <2>8
<1>6. CASE SendLast(p) \/ SendCount(p)
  <2>1. PICK l \in {"sendCount", "sendNotify"} : Goto(p, [req[p] EXCEPT !.at = l])
    BY <1>6 DEF SendLast, SendCount, Move
  <2> DEFINE y == [req[p] EXCEPT !.at = l]
  <2>2. req[p].at \in Filed /\ l \in Filed
    BY <1>6 DEF SendLast, SendCount, At, Filed
  <2>3. /\ y \in ChatRequest
        /\ y = [at |-> l, subject |-> req[p].subject, from |-> req[p].from, msg |-> req[p].msg]
    BY <2>2, <1>t, ChatMoves
  <2>4. y.at = l /\ y.subject = req[p].subject /\ y.msg = req[p].msg
    BY <2>3
  <2> HIDE DEF y
  <2>5. Known(y)
    BY <2>2, <2>4, <1>t DEF Known, Sending, Filed
  <2>6. Goto(p, y)
    BY <2>1 DEF y
  <2> QED
    BY <2>3, <2>5, <2>6, <1>k
<1>7. CASE ReadPage(p)
  <2>1. PICK c \in Opened, u \in Person, ids \in SUBSET (1..Len(msgs)), l \in Reading :
           Goto(p, [at |-> l, subject |-> c, reader |-> u, ids |-> ids])
    BY <1>7, PageTaken
  <2> DEFINE y == [at |-> l, subject |-> c, reader |-> u, ids |-> ids]
  <2>2. y \in ChatRequest
    <3>1. ids \in SUBSET Nat /\ c \in Conv
      BY <1>t DEF Opened
    <3> QED
      BY <3>1, ChatStarts
  <2>3. Known(y)
    BY DEF Known, Filed, Reading
  <2> HIDE DEF y
  <2>4. Goto(p, y)
    BY <2>1 DEF y
  <2> QED
    BY <2>2, <2>3, <2>4, <1>k
<1>8. CASE ReadMark(p)
  <2> DEFINE y == [req[p] EXCEPT !.at = "readReset"]
  <2>1. /\ y \in ChatRequest
        /\ y = [at |-> "readReset", subject |-> req[p].subject, reader |-> req[p].reader,
                ids |-> req[p].ids]
    BY <1>8, <1>t, ChatMoves DEF ReadMark, At
  <2>2. y.at = "readReset" /\ y.subject = req[p].subject
    BY <2>1
  <2>3. Goto(p, y) /\ req[p].at = "readMark"
    BY <1>8 DEF ReadMark, Move, At
  <2> HIDE DEF y
  <2>4. Known(y)
    BY <2>2, <2>3, <1>t DEF Known, Filed, Reading
  <2> QED
    BY <2>1, <2>3, <2>4, <1>k
<1>9. CASE JoinPage(p)
  <2>1. PICK c \in Conv, ids \in SUBSET Nat :
           Goto(p, [at |-> "joinMark", subject |-> c, ids |-> ids])
    <3>1. PICK c \in Opened : \E u \in Participants(c) :
             LET ids == {i \in FirstPage(c, JoinSize) : msgs[i].to = u /\ msgs[i].status = "sent"}
             IN Goto(p, [at |-> "joinMark", subject |-> c, ids |-> ids])
      BY <1>9 DEF JoinPage
    <3>2. PICK u \in Participants(c) :
             LET ids == {i \in FirstPage(c, JoinSize) : msgs[i].to = u /\ msgs[i].status = "sent"}
             IN Goto(p, [at |-> "joinMark", subject |-> c, ids |-> ids])
      BY <3>1
    <3> DEFINE ids == {i \in FirstPage(c, JoinSize) : msgs[i].to = u /\ msgs[i].status = "sent"}
    <3>3. ids \in SUBSET Nat /\ c \in Conv
      BY <1>t DEF FirstPage, Visible, MessagesOf, Opened
    <3>4. Goto(p, [at |-> "joinMark", subject |-> c, ids |-> ids])
      BY <3>2
    <3> HIDE DEF ids
    <3> QED
      BY <3>3, <3>4
  <2> DEFINE y == [at |-> "joinMark", subject |-> c, ids |-> ids]
  <2>2. y \in ChatRequest /\ y.at = "joinMark"
    BY ChatStarts
  <2> HIDE DEF y
  <2>3. Known(y) /\ Goto(p, y)
    BY <2>1, <2>2, <1>u DEF y
  <2> QED
    BY <2>2, <2>3, <1>k
<1> QED
  BY <1>1, <1>2, <1>3, <1>4, <1>5, <1>6, <1>7, <1>8, <1>9
     DEF MessageStep, OpenStep, SendStep, ReadStep

LEMMA ChatTypes ==
    ASSUME ChatTypeOK, SlotsKnown, MessagesFiled, [ChatNext]_chatVars
    PROVE  ChatTypeOK' /\ SlotsKnown' /\ MessagesFiled'
<1>1. /\ convs' \in [Conv -> Conversation \cup {NoConv}]
      /\ Opened \subseteq Opened'
  BY ConvsGoOn
<1>2. /\ msgs' \in Seq(Message) /\ Len(msgs) <= Len(msgs')
      /\ Len(msgs) \in Nat /\ Len(msgs') \in Nat
      /\ (Len(msgs') = Len(msgs) \/ \E p \in Request : SendCreate(p))
      /\ \A i \in 1..Len(msgs) : msgs'[i].conv = msgs[i].conv
  BY MessagesGoOn DEF ChatTypeOK
<1>3. req' \in [Request -> ChatRequest] /\ SlotsKnown'
  <2>1. ASSUME NEW p \in Request, MessageStep(p)
        PROVE  req' \in [Request -> ChatRequest] /\ SlotsKnown'
    <3>1. PICK x \in ChatRequest : Goto(p, x) /\ Known(x)'
      BY <2>1, SlotGoes
    <3>2. /\ req' \in [Request -> ChatRequest] /\ req'[p] = x
          /\ \A q \in Request \ {p} : req'[q] = req[q]
      BY <3>1, ChatSlots DEF ChatTypeOK
    <3>3. \A q \in Request : Known(req[q])
      BY DEF SlotsKnown
    <3>4. \A q \in Request \ {p} : Known(req'[q])
      BY <3>2, <3>3
    <3>5. ASSUME NEW q \in Request
          PROVE  Known(req[q])'
      <4>1. CASE q = p
        BY <4>1, <3>1, <3>2 DEF Known
      <4>2. CASE q # p
        <5>1. Known(req[q])
          BY <3>3
        <5>2. PICK r : r = req[q]
          OBVIOUS
        <5>3. Known(r)'
          BY <5>1, <5>2, KnownKept
        <5> QED
          BY <5>2, <5>3, <4>2, <3>2 DEF Known
      <4> QED
        BY <4>1, <4>2
    <3> QED
      BY <3>2, <3>5 DEF SlotsKnown
  <2>2. CASE UNCHANGED req
    <3>1. ASSUME NEW q \in Request
          PROVE  Known(req[q])'
      <4>1. PICK r : r = req[q]
        OBVIOUS
      <4>2. Known(r)'
        BY <4>1, KnownKept DEF SlotsKnown
      <4> QED
        BY <4>1, <4>2, <2>2 DEF Known
    <3> QED
      BY <2>2, <3>1 DEF SlotsKnown, ChatTypeOK
  <2> QED
    BY <2>1, <2>2 DEF ChatNext, Acknowledge, Delete, chatVars
<1>4. notified' \subseteq 1..Len(msgs')
  <2>1. notified \subseteq 1..Len(msgs')
    BY <1>2 DEF ChatTypeOK
  <2>2. ASSUME NEW p \in Request, SendNotify(p)
        PROVE  notified' \subseteq 1..Len(msgs')
    <3>1. req[p].msg \in 1..Len(msgs)
      BY <2>2 DEF SendNotify, At, SlotsKnown, Known, Filed
    <3> QED
      BY <2>1, <2>2, <3>1, <1>2 DEF SendNotify
  <2>3. notified' = notified \/ \E p \in Request : SendNotify(p)
    BY DEF ChatNext, MessageStep, OpenStep, SendStep, ReadStep, OpenFind, OpenAgain, OpenInsert,
           SendStart, SendCreate, SendLast, SendCount, ReadPage, ReadMark, ReadReset, JoinPage,
           JoinMark, RequestFails, Acknowledge, Delete, chatVars
  <2> QED
    BY <2>1, <2>2, <2>3
<1>5. fails' \in Nat
  <2>1. (\E p \in Request : RequestFails(p)) => fails' = fails + 1
    BY DEF RequestFails
  <2>2. fails' = fails \/ \E p \in Request : RequestFails(p)
    BY DEF ChatNext, MessageStep, OpenStep, SendStep, ReadStep, OpenFind, OpenAgain, OpenInsert,
           SendStart, SendCreate, SendLast, SendCount, SendNotify, ReadPage, ReadMark, ReadReset,
           JoinPage, JoinMark, Acknowledge, Delete, chatVars
  <2> QED
    BY <2>1, <2>2 DEF ChatTypeOK
<1>6. disturbed' \subseteq Matter \cup Header
  <2>1. CASE UNCHANGED disturbed
    BY <2>1 DEF ChatTypeOK
  <2>2. ASSUME NEW p \in Request, OpenFind(p)
        PROVE  disturbed' \subseteq Matter \cup Header
    BY <2>2 DEF OpenFind, ChatTypeOK
  <2>3. ASSUME NEW p \in Request, SendStart(p) \/ ReadPage(p)
        PROVE  disturbed' \subseteq Matter \cup Header
    <3>1. PICK c \in Opened :
             disturbed' \subseteq disturbed \cup {<<c, "last">>, <<c, "count">>}
      BY <2>3 DEF SendStart, ReadPage
    <3> QED
      BY <3>1 DEF ChatTypeOK, Opened, Header
  <2>4. ASSUME NEW p \in Request, RequestFails(p)
        PROVE  disturbed' \subseteq Matter \cup Header
    <3>1. req[p].at \in Sending \cup Reading => req[p].subject \in Conv
      BY ChatLocals DEF ChatTypeOK
    <3> QED
      BY <2>4, <3>1 DEF RequestFails, ChatTypeOK, Header
  <2> QED
    BY <2>1, <2>2, <2>3, <2>4
       DEF ChatNext, MessageStep, OpenStep, SendStep, ReadStep, OpenAgain, OpenInsert,
           SendCreate, SendLast, SendCount, SendNotify, ReadMark, ReadReset, JoinPage,
           JoinMark, Acknowledge, Delete, chatVars
<1>7. MessagesFiled'
  <2>1. \A i \in 1..Len(msgs) : msgs'[i].conv \in Opened'
    BY <1>1, <1>2 DEF MessagesFiled
  <2>2. ASSUME NEW p \in Request, SendCreate(p)
        PROVE  Len(msgs') = Len(msgs) + 1 /\ msgs'[Len(msgs) + 1].conv \in Opened'
    <3> DEFINE m == [conv |-> req[p].subject, from |-> req[p].from,
                     to |-> Other(req[p].subject, req[p].from),
                     status |-> "sent", isDeleted |-> FALSE]
    <3>1. req[p].subject \in Opened /\ msgs' = Append(msgs, m) /\ m.conv = req[p].subject
      BY <2>2 DEF SendCreate, At, SlotsKnown, Known, Sending
    <3> HIDE DEF m
    <3>2. Len(msgs') = Len(msgs) + 1 /\ msgs'[Len(msgs) + 1] = m
      BY <3>1 DEF ChatTypeOK
    <3> QED
      BY <3>1, <3>2, <1>1
  <2> QED
    BY <2>1, <2>2, <1>2 DEF MessagesFiled
<1> QED
  BY <1>1, <1>2, <1>3, <1>4, <1>5, <1>6, <1>7 DEF ChatTypeOK

-----------------------------------------------------------------------------
(***************************************************************************)
(* Opening: about a matter nothing raced about, a slot that is about to    *)
(* insert is alone, and there is no conversation yet.                      *)
(***************************************************************************)

OpeningsRecorded ==
    \A p, q \in Request :
        (/\ p # q
         /\ req[p].at \in Opening /\ req[q].at \in Opening
         /\ req[p].subject = req[q].subject) => req[p].subject \in disturbed

InsertsAlone ==
    \A p \in Request :
        (req[p].at = "openInsert" /\ req[p].subject \notin disturbed) =>
            FindByParticipants(req[p].subject) = {}

OpenInv == OpeningsRecorded /\ InsertsAlone /\ OneConversationUnlessRaced

LEMMA OpenFrame ==
    ASSUME OpenInv, Opened' = Opened, disturbed \subseteq disturbed',
           \A d \in Opened : convs'[d].about = convs[d].about,
           \A q \in Request : req'[q] = req[q] \/ req'[q].at \notin Opening
    PROVE  OpenInv'
<1>1. \A q \in Request : req'[q].at \in Opening => (req'[q] = req[q] /\ req[q].at \in Opening)
  OBVIOUS
<1>2. Opening' = Opening
  BY DEF Opening
<1>3. OpeningsRecorded'
  BY <1>1, <1>2 DEF OpenInv, OpeningsRecorded
<1>4. InsertsAlone'
  BY <1>1 DEF OpenInv, InsertsAlone, FindByParticipants, Opening
<1>5. OneConversationUnlessRaced'
  BY DEF OpenInv, OneConversationUnlessRaced
<1> QED
  BY <1>3, <1>4, <1>5 DEF OpenInv

LEMMA OpenKept ==
    ASSUME ChatTypeOK, SlotsKnown, OpenInv, [ChatNext]_chatVars
    PROVE  OpenInv'
<1>t. req \in [Request -> ChatRequest]
  BY DEF ChatTypeOK
<1>a. disturbed \subseteq disturbed'
  BY DEF ChatNext, MessageStep, OpenStep, SendStep, ReadStep, OpenFind, OpenAgain, OpenInsert,
         SendStart, SendCreate, SendLast, SendCount, SendNotify, ReadPage, ReadMark, ReadReset,
         JoinPage, JoinMark, RequestFails, Acknowledge, Delete, chatVars
<1>b. Opening' = Opening
  BY DEF Opening
<1>1. ASSUME NEW p \in Request, OpenFind(p)
      PROVE  OpenInv'
  <2>1. PICK x \in Matter :
           /\ Goto(p, [at |-> "openAgain", subject |-> x])
           /\ disturbed' = IF Doing(Opening, x) = {} THEN disturbed ELSE disturbed \cup {x}
    BY <1>1 DEF OpenFind
  <2>2. /\ req'[p].at = "openAgain" /\ req'[p].subject = x
        /\ \A q \in Request \ {p} : req'[q] = req[q]
    BY <2>1, <1>t, ChatSlots
  <2>3. x \in disturbed' \/ \A q \in Request : req[q].at \in Opening => req[q].subject # x
    BY <2>1 DEF Doing
  <2>4. UNCHANGED convs
    BY <1>1 DEF OpenFind
  <2>5. OpeningsRecorded'
    BY <2>2, <2>3, <1>a, <1>b DEF OpenInv, OpeningsRecorded
  <2>6. InsertsAlone'
    BY <2>2, <2>4, <1>a DEF OpenInv, InsertsAlone, FindByParticipants, Opened
  <2>7. OneConversationUnlessRaced'
    BY <2>4, <1>a DEF OpenInv, OneConversationUnlessRaced, Opened
  <2> QED
    BY <2>5, <2>6, <2>7 DEF OpenInv
<1>2. ASSUME NEW p \in Request, OpenAgain(p)
      PROVE  OpenInv'
  <2>1. UNCHANGED <<convs, disturbed>> /\ req[p].at = "openAgain"
    BY <1>2 DEF OpenAgain, At
  <2>2. CASE FindByParticipants(req[p].subject) = {}
    <3>1. /\ req'[p].at = "openInsert" /\ req'[p].subject = req[p].subject
          /\ \A q \in Request \ {p} : req'[q] = req[q]
      <4>1. [req[p] EXCEPT !.at = "openInsert"] = [at |-> "openInsert", subject |-> req[p].subject]
        BY <2>1, <1>t, ChatMoves
      <4> QED
        BY <1>2, <2>2, <4>1, <1>t, ChatSlots DEF OpenAgain, Move
    <3>2. OpeningsRecorded'
      BY <3>1, <2>1, <1>b DEF OpenInv, OpeningsRecorded, Opening
    <3>3. InsertsAlone'
      BY <3>1, <2>1, <2>2 DEF OpenInv, InsertsAlone, FindByParticipants, Opened
    <3>4. OneConversationUnlessRaced'
      BY <2>1 DEF OpenInv, OneConversationUnlessRaced, Opened
    <3> QED
      BY <3>2, <3>3, <3>4 DEF OpenInv
  <2>3. CASE FindByParticipants(req[p].subject) # {}
    <3>1. \A q \in Request : req'[q] = req[q] \/ req'[q].at \notin Opening
      BY <1>2, <2>3, <1>t, ChatSlots DEF OpenAgain, Done, Idle, Opening
    <3> QED
      BY <3>1, <2>1, <1>a, OpenFrame DEF Opened
  <2> QED
    BY <2>2, <2>3
<1>3. ASSUME NEW p \in Request, OpenInsert(p)
      PROVE  OpenInv'
  <2>1. UNCHANGED disturbed /\ req[p].at = "openInsert"
    BY <1>3 DEF OpenInsert, At
  <2>2. PICK c \in Conv \ Opened : Opened' = Opened \cup {c} /\ convs'[c].about = req[p].subject
    BY <1>3, ConversationAdded
  <2>3. \A d \in Opened : convs'[d] = convs[d]
    BY <1>3, ConversationAdded
  <2>4. \A q \in Request : req'[q].at \in Opening =>
           (q # p /\ req'[q] = req[q] /\ req[q].at \in Opening)
    BY <1>3, <1>t, ChatSlots DEF OpenInsert, Done, Idle, Opening
  <2>5. req[p].subject \in disturbed \/
           (/\ \A d \in Opened : convs[d].about # req[p].subject
            /\ \A q \in Request \ {p} : req[q].at \in Opening => req[q].subject # req[p].subject)
    BY <2>1 DEF OpenInv, InsertsAlone, FindByParticipants, OpeningsRecorded, Opening
  <2>6. OpeningsRecorded'
    BY <2>1, <2>4, <1>b DEF OpenInv, OpeningsRecorded
  <2>7. InsertsAlone'
    <3> SUFFICES ASSUME NEW q \in Request, req'[q].at = "openInsert", req'[q].subject \notin disturbed',
                        NEW d \in Opened', convs'[d].about = req'[q].subject
                 PROVE  FALSE
      BY DEF InsertsAlone, FindByParticipants
    <3>1. q # p /\ req'[q] = req[q] /\ req[q].at = "openInsert"
      BY <2>4 DEF Opening
    <3>2. CASE d = c
      BY <3>1, <3>2, <2>1, <2>2, <2>5 DEF Opening
    <3>3. CASE d # c
      BY <3>1, <3>3, <2>1, <2>2, <2>3 DEF OpenInv, InsertsAlone, FindByParticipants
    <3> QED
      BY <3>2, <3>3
  <2>8. OneConversationUnlessRaced'
    <3> SUFFICES ASSUME NEW d \in Opened', NEW f \in Opened', d # f, convs'[d].about = convs'[f].about
                 PROVE  convs'[d].about \in disturbed
      BY <2>1 DEF OneConversationUnlessRaced
    <3>1. CASE d # c /\ f # c
      BY <3>1, <2>2, <2>3 DEF OpenInv, OneConversationUnlessRaced
    <3>2. CASE d = c \/ f = c
      BY <3>2, <2>2, <2>3, <2>5
    <3> QED
      BY <3>1, <3>2
  <2> QED
    BY <2>6, <2>7, <2>8 DEF OpenInv
<1>4. CASE ~\E p \in Request : OpenFind(p) \/ OpenAgain(p) \/ OpenInsert(p)
  <2>1. /\ Opened' = Opened
        /\ \A d \in Opened : convs'[d].about = convs[d].about
    <3>1. CASE \E p \in Request : SendLast(p) \/ SendCount(p) \/ ReadReset(p)
      BY <3>1, HeaderWrites
    <3>2. CASE UNCHANGED convs
      BY <3>2 DEF Opened
    <3> QED
      BY <1>4, <3>1, <3>2, ConvsKept
  <2>2. \A q \in Request : req'[q] = req[q] \/ req'[q].at \notin Opening
    <3>1. CASE UNCHANGED req
      BY <3>1
    <3>2. ASSUME NEW p \in Request, MessageStep(p)
          PROVE  \E x : Goto(p, x) /\ x.at \notin Opening
      <4>r. req[p] \in ChatRequest
        BY <1>t
      <4>1. CASE SendNotify(p) \/ ReadReset(p) \/ JoinMark(p) \/ RequestFails(p)
        BY <4>1 DEF SendNotify, ReadReset, JoinMark, RequestFails, Done, Idle, Opening
      <4>2. CASE SendStart(p)
        BY <4>2 DEF SendStart, Opening
      <4>3. CASE SendCreate(p)
        BY <4>3 DEF SendCreate, Opening
      <4>4. CASE SendLast(p) \/ SendCount(p)
        <5>1. PICK l \in {"sendCount", "sendNotify"} : Goto(p, [req[p] EXCEPT !.at = l])
          BY <4>4 DEF SendLast, SendCount, Move
        <5>2. req[p].at \in Filed /\ l \in Filed
          BY <4>4 DEF SendLast, SendCount, At, Filed
        <5>3. [req[p] EXCEPT !.at = l] =
                 [at |-> l, subject |-> req[p].subject, from |-> req[p].from, msg |-> req[p].msg]
          BY <5>2, <4>r, ChatMoves
        <5>4. [req[p] EXCEPT !.at = l].at = l
          BY <5>3
        <5> QED
          BY <5>1, <5>4 DEF Opening
      <4>5. CASE ReadPage(p)
        <5>1. PICK c \in Opened, u \in User \cup Company, ids \in SUBSET (1..Len(msgs)), l \in Reading :
                 Goto(p, [at |-> l, subject |-> c, reader |-> u, ids |-> ids])
          BY <4>5, PageTaken DEF Person
        <5> QED
          BY <5>1 DEF Opening, Reading
      <4>6. CASE ReadMark(p)
        <5>1. [req[p] EXCEPT !.at = "readReset"].at = "readReset"
          BY <4>6, <4>r, ChatMoves DEF ReadMark, At
        <5> QED
          BY <4>6, <5>1 DEF ReadMark, Move, Opening
      <4>7. CASE JoinPage(p)
        BY <4>7 DEF JoinPage, Opening
      <4> QED
        BY <1>4, <3>2, <4>1, <4>2, <4>3, <4>4, <4>5, <4>6, <4>7
           DEF MessageStep, OpenStep, SendStep, ReadStep
    <3>3. CASE \E p \in Request : MessageStep(p)
      <4>1. PICK p \in Request : MessageStep(p)
        BY <3>3
      <4>2. PICK x : Goto(p, x) /\ x.at \notin Opening
        BY <4>1, <3>2
      <4> QED
        BY <4>2, <1>t, ChatSlots
    <3> QED
      BY <3>1, <3>3 DEF ChatNext, Acknowledge, Delete, chatVars
  <2> QED
    BY <2>1, <2>2, <1>a, OpenFrame
<1> QED
  BY <1>1, <1>2, <1>3, <1>4

-----------------------------------------------------------------------------
(***************************************************************************)
(* The last message: of a conversation nothing overlapped in, a send in    *)
(* flight carries the newest message, and all others were notified of.     *)
(***************************************************************************)

SendsRecorded ==
    \A p, q \in Request :
        (/\ p # q
         /\ req[p].at \in Sending /\ req[q].at \in Sending
         /\ req[p].subject = req[q].subject) => <<req[p].subject, "last">> \in disturbed

\* The conversation a filed message of a slot is about, and nothing overlapped.
Carrying(p, c) == req[p].at \in Filed /\ req[p].subject = c

NewestCarried ==
    \A p \in Request : \A c \in Opened : (Carrying(p, c) /\ <<c, "last">> \notin disturbed) =>
        /\ \A i \in MessagesOf(c) : i <= req[p].msg /\ (i = req[p].msg \/ i \in notified)
        /\ (req[p].at # "sendLast" => convs[c].last = req[p].msg)

SettledAt(c) ==
    /\ \A i \in MessagesOf(c) : i <= convs[c].last /\ i \in notified
    /\ MessagesOf(c) # {} => convs[c].last \in MessagesOf(c)

Settled ==
    \A c \in Opened :
        (<<c, "last">> \notin disturbed /\ \A p \in Request : ~Carrying(p, c)) => SettledAt(c)

LastInv == SendsRecorded /\ NewestCarried /\ Settled

\* Nothing is sent and no header written; a send ends only with its header
\* marked.
LEMMA LastFrame ==
    ASSUME SlotsKnown, MessagesFiled, LastInv, disturbed \subseteq disturbed', notified' = notified,
           Opened \subseteq Opened', \A d \in Opened : convs'[d].last = convs[d].last,
           Len(msgs') = Len(msgs), \A i \in 1..Len(msgs) : msgs'[i].conv = msgs[i].conv,
           \A q \in Request :
              \/ req'[q] = req[q]
              \/ /\ req'[q].at \notin Sending
                 /\ (req[q].at \in Sending => <<req[q].subject, "last">> \in disturbed')
    PROVE  LastInv'
<1>1. \A q \in Request : req'[q].at \in Sending => (req'[q] = req[q] /\ req[q].at \in Sending)
  OBVIOUS
<1>2. Sending' = Sending /\ Filed' = Filed /\ Filed \subseteq Sending
  BY DEF Sending, Filed
<1>3. /\ \A c : MessagesOf(c)' = MessagesOf(c)
      /\ \A c : c \notin Opened => MessagesOf(c) = {}
  BY DEF MessagesOf, MessagesFiled
<1>4. SendsRecorded'
  BY <1>1, <1>2 DEF LastInv, SendsRecorded
<1>5. ASSUME NEW q \in Request, NEW c, Carrying(q, c)'
      PROVE  Carrying(q, c) /\ req'[q] = req[q]
  BY <1>1, <1>2, <1>5 DEF Carrying
<1>6. NewestCarried'
  <2> SUFFICES ASSUME NEW q \in Request, NEW c \in Opened', Carrying(q, c)', <<c, "last">> \notin disturbed'
               PROVE  /\ \A i \in MessagesOf(c) : i <= req'[q].msg /\ (i = req'[q].msg \/ i \in notified)
                      /\ (req'[q].at # "sendLast" => convs'[c].last = req'[q].msg)
    BY <1>3 DEF NewestCarried
  <2>1. Carrying(q, c) /\ req'[q] = req[q]
    BY <1>5
  <2>2. CASE c \in Opened
    BY <2>1, <2>2 DEF LastInv, NewestCarried
  <2>3. CASE c \notin Opened
    BY <2>3, <2>1, <1>2 DEF SlotsKnown, Known, Carrying
  <2> QED
    BY <2>2, <2>3
<1>7. Settled'
  <2> SUFFICES ASSUME NEW c \in Opened', <<c, "last">> \notin disturbed', \A q \in Request : ~Carrying(q, c)'
               PROVE  /\ \A i \in MessagesOf(c) : i <= convs'[c].last /\ i \in notified
                      /\ MessagesOf(c) # {} => convs'[c].last \in MessagesOf(c)
    BY <1>3 DEF Settled, SettledAt
  <2>1. CASE c \notin Opened
    BY <2>1, <1>3
  <2>2. CASE c \in Opened
    <3>1. \A q \in Request : ~Carrying(q, c)
      BY <1>2 DEF Carrying
    <3> QED
      BY <3>1, <2>2 DEF LastInv, Settled, SettledAt
  <2> QED
    BY <2>1, <2>2
<1> QED
  BY <1>4, <1>6, <1>7 DEF LastInv

LEMMA LastStarted ==
    ASSUME ChatTypeOK, SlotsKnown, LastInv, NEW p \in Request, SendStart(p)
    PROVE  LastInv'
<1>1. PICK c \in Opened, u \in Person :
         /\ Goto(p, [at |-> "sendCreate", subject |-> c, from |-> u])
         /\ disturbed' = disturbed
                \cup {<<c, "last">> : q \in Doing(Sending, c)}
                \cup {<<c, "count">> : q \in Doing(Reading, c)}
  BY OpenedProps DEF SendStart
<1>2. /\ req'[p].at = "sendCreate" /\ req'[p].subject = c
      /\ \A q \in Request \ {p} : req'[q] = req[q]
      /\ req[p].at = "idle" /\ UNCHANGED <<convs, msgs, notified>>
  BY <1>1, ChatSlots DEF ChatTypeOK, SendStart, At
<1>3. /\ disturbed \subseteq disturbed'
      /\ (<<c, "last">> \in disturbed'
            \/ \A q \in Request : req[q].at \in Sending => req[q].subject # c)
  BY <1>1 DEF Doing
<1>4. Sending' = Sending /\ Filed' = Filed
  BY DEF Sending, Filed
<1>5. \A q \in Request : \A d : (Carrying(q, d)' <=> Carrying(q, d)) /\ (Carrying(q, d) => req'[q] = req[q])
  BY <1>2 DEF Carrying, Filed
<1>6. SendsRecorded'
  BY <1>2, <1>3, <1>4 DEF LastInv, SendsRecorded
<1>7. NewestCarried'
  <2>1. \A d : MessagesOf(d)' = MessagesOf(d)
    BY <1>2 DEF MessagesOf
  <2> QED
    BY <2>1, <1>2, <1>3, <1>5 DEF LastInv, NewestCarried, Opened
<1>8. Settled'
  BY <1>2, <1>3, <1>5 DEF LastInv, Settled, SettledAt, Opened, MessagesOf
<1> QED
  BY <1>6, <1>7, <1>8 DEF LastInv

LEMMA LastCreated ==
    ASSUME ChatTypeOK, SlotsKnown, LastInv, NEW p \in Request, SendCreate(p)
    PROVE  LastInv'
<1>t. /\ req \in [Request -> ChatRequest] /\ msgs \in Seq(Message) /\ Len(msgs) \in Nat
      /\ req[p].at = "sendCreate"
  BY DEF ChatTypeOK, SendCreate, At
<1>1. PICK c, n : c = req[p].subject /\ n = Len(msgs) + 1
  OBVIOUS
<1>2. /\ req'[p].at = "sendLast" /\ req'[p].subject = c /\ req'[p].msg = n
      /\ \A q \in Request \ {p} : req'[q] = req[q]
  BY <1>t, <1>1, ChatSlots DEF SendCreate
<1>3. /\ Len(msgs') = n /\ msgs'[n].conv = c
      /\ \A i \in 1..Len(msgs) : msgs'[i] = msgs[i]
  <2> DEFINE m == [conv |-> c, from |-> req[p].from, to |-> Other(c, req[p].from),
                   status |-> "sent", isDeleted |-> FALSE]
  <2>1. msgs' = Append(msgs, m) /\ m.conv = c
    BY <1>1 DEF SendCreate
  <2> HIDE DEF m
  <2> QED
    BY <2>1, <1>t, <1>1
<1>4. UNCHANGED <<convs, notified, disturbed>>
  BY DEF SendCreate
<1>5. /\ MessagesOf(c)' = MessagesOf(c) \cup {n}
      /\ \A d : d # c => MessagesOf(d)' = MessagesOf(d)
      /\ \A d : MessagesOf(d) \subseteq 1..Len(msgs)
  BY <1>1, <1>3, <1>t DEF MessagesOf
<1>6. Sending' = Sending /\ Filed' = Filed
  BY DEF Sending, Filed
<1>7. <<c, "last">> \notin disturbed =>
         \A q \in Request : (q # p /\ req[q].at \in Sending) => req[q].subject # c
  BY <1>t, <1>1 DEF LastInv, SendsRecorded, Sending
<1>8. <<c, "last">> \notin disturbed => \A q \in Request : ~Carrying(q, c)
  BY <1>t, <1>7 DEF Carrying, Filed, Sending
<1>9. \A q \in Request \ {p} : \A d : (Carrying(q, d)' <=> Carrying(q, d)) /\ req'[q] = req[q]
  BY <1>2, <1>6 DEF Carrying
<1>10. Carrying(p, c)' /\ \A d : Carrying(p, d)' => d = c
  BY <1>2, <1>6 DEF Carrying, Filed
<1>11. SendsRecorded'
  BY <1>2, <1>4, <1>6, <1>t, <1>1 DEF LastInv, SendsRecorded, Sending
<1>12. NewestCarried'
  <2> SUFFICES ASSUME NEW q \in Request, NEW d \in Opened, Carrying(q, d)', <<d, "last">> \notin disturbed
               PROVE  /\ \A i \in MessagesOf(d)' : i <= req'[q].msg /\ (i = req'[q].msg \/ i \in notified)
                      /\ (req'[q].at # "sendLast" => convs[d].last = req'[q].msg)
    BY <1>4 DEF NewestCarried, Opened
  <2>1. CASE q = p
    <3>1. d = c /\ \A r \in Request : ~Carrying(r, c)
      BY <2>1, <1>8, <1>10
    <3>2. \A i \in MessagesOf(c) : i \in notified
      BY <3>1 DEF LastInv, Settled, SettledAt
    <3> QED
      BY <2>1, <3>1, <3>2, <1>1, <1>2, <1>5, <1>t
  <2>2. CASE q # p
    <3>1. d # c /\ Carrying(q, d) /\ req'[q] = req[q]
      BY <2>2, <1>8, <1>9
    <3> QED
      BY <3>1, <1>5 DEF LastInv, NewestCarried
  <2> QED
    BY <2>1, <2>2
<1>13. Settled'
  <2> SUFFICES ASSUME NEW d \in Opened, <<d, "last">> \notin disturbed, \A q \in Request : ~Carrying(q, d)'
               PROVE  /\ \A i \in MessagesOf(d)' : i <= convs[d].last /\ i \in notified
                      /\ MessagesOf(d)' # {} => convs[d].last \in MessagesOf(d)'
    BY <1>4 DEF Settled, SettledAt, Opened
  <2>1. d # c
    BY <1>10
  <2>2. \A q \in Request : ~Carrying(q, d)
    BY <2>1, <1>9, <1>t DEF Carrying, Filed
  <2> QED
    BY <2>1, <2>2, <1>5 DEF LastInv, Settled, SettledAt
<1> QED
  BY <1>11, <1>12, <1>13 DEF LastInv

\* The header is written: the message, then the receiver's counter.
LEMMA LastWritten ==
    ASSUME ChatTypeOK, SlotsKnown, LastInv, NEW p \in Request, SendLast(p) \/ SendCount(p)
    PROVE  LastInv'
<1>t. /\ req \in [Request -> ChatRequest] /\ req[p].at \in Filed
      /\ (req[p].at = "sendLast" <=> SendLast(p))
  BY DEF ChatTypeOK, SendLast, SendCount, At, Filed
<1>1. PICK c, n : c = req[p].subject /\ n = req[p].msg
  OBVIOUS
<1>2. /\ req'[p].at \in {"sendCount", "sendNotify"} /\ req'[p].subject = c /\ req'[p].msg = n
      /\ \A q \in Request \ {p} : req'[q] = req[q]
  <2>1. PICK l \in {"sendCount", "sendNotify"} : Goto(p, [req[p] EXCEPT !.at = l])
    BY DEF SendLast, SendCount, Move
  <2>2. [req[p] EXCEPT !.at = l] = [at |-> l, subject |-> c, from |-> req[p].from, msg |-> n]
    BY <1>t, <1>1, ChatMoves DEF Filed
  <2> QED
    BY <1>t, <2>1, <2>2, ChatSlots
<1>3. /\ UNCHANGED <<msgs, notified, disturbed>>
      /\ \A d : MessagesOf(d)' = MessagesOf(d)
  BY DEF SendLast, SendCount, MessagesOf
<1>4. /\ Opened' = Opened
      /\ \A d \in Opened : convs'[d].last = IF SendLast(p) /\ d = c THEN n ELSE convs[d].last
  BY <1>1, HeaderWrites
<1>5. Sending' = Sending /\ Filed' = Filed
  BY DEF Sending, Filed
<1>6. /\ \A q \in Request : \A d : Carrying(q, d)' <=> Carrying(q, d)
      /\ Carrying(p, c) /\ \A d : Carrying(p, d) => d = c
  BY <1>1, <1>2, <1>5, <1>t DEF Carrying, Filed
<1>7. <<c, "last">> \notin disturbed => \A q \in Request \ {p} : ~Carrying(q, c)
  BY <1>t, <1>1 DEF LastInv, SendsRecorded, Sending, Carrying, Filed
<1>8. SendsRecorded'
  BY <1>1, <1>2, <1>3, <1>5, <1>t DEF LastInv, SendsRecorded, Sending, Filed
<1>9. NewestCarried'
  <2> SUFFICES ASSUME NEW q \in Request, NEW d \in Opened, Carrying(q, d), <<d, "last">> \notin disturbed
               PROVE  /\ \A i \in MessagesOf(d) : i <= req'[q].msg /\ (i = req'[q].msg \/ i \in notified)
                      /\ (req'[q].at # "sendLast" => convs'[d].last = req'[q].msg)
    BY <1>3, <1>4, <1>6 DEF NewestCarried
  <2>1. CASE q = p
    <3>1. d = c
      BY <2>1, <1>6
    <3>2. /\ \A i \in MessagesOf(c) : i <= n /\ (i = n \/ i \in notified)
          /\ (req[p].at # "sendLast" => convs[c].last = n)
      BY <2>1, <3>1, <1>1 DEF LastInv, NewestCarried
    <3>3. convs'[c].last = n
      BY <3>1, <3>2, <1>4, <1>t
    <3> QED
      BY <2>1, <3>1, <3>2, <3>3, <1>2
  <2>2. CASE q # p
    <3>1. d # c /\ req'[q] = req[q]
      BY <2>2, <1>2, <1>7
    <3> QED
      BY <3>1, <1>4 DEF LastInv, NewestCarried
  <2> QED
    BY <2>1, <2>2
<1>10. Settled'
  <2> SUFFICES ASSUME NEW d \in Opened, <<d, "last">> \notin disturbed, \A q \in Request : ~Carrying(q, d)
               PROVE  /\ \A i \in MessagesOf(d) : i <= convs'[d].last /\ i \in notified
                      /\ MessagesOf(d) # {} => convs'[d].last \in MessagesOf(d)
    BY <1>3, <1>4, <1>6 DEF Settled, SettledAt
  <2>1. d # c
    BY <1>6
  <2> QED
    BY <2>1, <1>4 DEF LastInv, Settled, SettledAt
<1> QED
  BY <1>8, <1>9, <1>10 DEF LastInv

LEMMA LastNotified ==
    ASSUME ChatTypeOK, SlotsKnown, LastInv, NEW p \in Request, SendNotify(p)
    PROVE  LastInv'
<1>t. req \in [Request -> ChatRequest] /\ req[p].at = "sendNotify"
  BY DEF ChatTypeOK, SendNotify, At
<1>1. PICK c, n : c = req[p].subject /\ n = req[p].msg
  OBVIOUS
<1>2. /\ req'[p] = Idle /\ \A q \in Request \ {p} : req'[q] = req[q]
  BY <1>t, ChatSlots DEF SendNotify, Done
<1>3. /\ UNCHANGED <<convs, msgs, disturbed>> /\ notified' = notified \cup {n}
      /\ \A d : MessagesOf(d)' = MessagesOf(d)
      /\ Opened' = Opened
  BY <1>1 DEF SendNotify, MessagesOf, Opened
<1>4. Sending' = Sending /\ Filed' = Filed
  BY DEF Sending, Filed
<1>5. /\ \A q \in Request \ {p} : \A d : Carrying(q, d)' <=> Carrying(q, d)
      /\ \A d : ~Carrying(p, d)'
      /\ Carrying(p, c) /\ \A d : Carrying(p, d) => d = c
  BY <1>1, <1>2, <1>4, <1>t DEF Carrying, Filed, Idle
<1>6. SendsRecorded'
  BY <1>2, <1>3, <1>4 DEF LastInv, SendsRecorded, Sending, Idle
<1>7. NewestCarried'
  <2> SUFFICES ASSUME NEW q \in Request, NEW d \in Opened, Carrying(q, d)', <<d, "last">> \notin disturbed
               PROVE  /\ \A i \in MessagesOf(d) : i <= req'[q].msg /\ (i = req'[q].msg \/ i \in notified')
                      /\ (req'[q].at # "sendLast" => convs[d].last = req'[q].msg)
    BY <1>3 DEF NewestCarried
  <2>1. q # p /\ Carrying(q, d) /\ req'[q] = req[q]
    BY <1>2, <1>5
  <2> QED
    BY <2>1, <1>3 DEF LastInv, NewestCarried
<1>8. Settled'
  <2> SUFFICES ASSUME NEW d \in Opened, <<d, "last">> \notin disturbed, \A q \in Request : ~Carrying(q, d)'
               PROVE  /\ \A i \in MessagesOf(d) : i <= convs[d].last /\ i \in notified'
                      /\ MessagesOf(d) # {} => convs[d].last \in MessagesOf(d)
    BY <1>3 DEF Settled, SettledAt
  <2>1. CASE d = c
    <3>1. /\ \A i \in MessagesOf(c) : i <= n /\ (i = n \/ i \in notified)
          /\ convs[c].last = n
      BY <2>1, <1>1, <1>5, <1>t DEF LastInv, NewestCarried
    <3>2. n \in MessagesOf(c)
      BY <1>1, <1>t DEF SlotsKnown, Known, MessagesOf, Filed
    <3> QED
      BY <2>1, <3>1, <3>2, <1>3
  <2>2. CASE d # c
    <3>1. \A q \in Request : ~Carrying(q, d)
      BY <2>2, <1>5
    <3> QED
      BY <3>1, <1>3 DEF LastInv, Settled, SettledAt
  <2> QED
    BY <2>1, <2>2
<1> QED
  BY <1>6, <1>7, <1>8 DEF LastInv

LEMMA LastKept ==
    ASSUME ChatTypeOK, SlotsKnown, MessagesFiled, LastInv, [ChatNext]_chatVars
    PROVE  LastInv'
<1>t. req \in [Request -> ChatRequest]
  BY DEF ChatTypeOK
<1>1. CASE \E p \in Request : SendStart(p) \/ SendCreate(p) \/ SendLast(p) \/ SendCount(p) \/ SendNotify(p)
  BY <1>1, LastStarted, LastCreated, LastWritten, LastNotified
<1>2. CASE ~\E p \in Request : SendStart(p) \/ SendCreate(p) \/ SendLast(p) \/ SendCount(p) \/ SendNotify(p)
  <2>1. disturbed \subseteq disturbed' /\ notified' = notified
    BY <1>2 DEF ChatNext, MessageStep, OpenStep, SendStep, ReadStep, OpenFind, OpenAgain,
         OpenInsert, ReadPage, ReadMark, ReadReset, JoinPage, JoinMark, RequestFails,
         Acknowledge, Delete, chatVars
  <2>2. /\ Opened \subseteq Opened'
        /\ \A d \in Opened : convs'[d].last = convs[d].last
    <3>1. CASE \E p \in Request : OpenInsert(p)
      BY <3>1, ConversationAdded
    <3>2. CASE \E p \in Request : ReadReset(p)
      BY <1>2, <3>2, HeaderWrites
    <3>3. CASE UNCHANGED convs
      BY <3>3 DEF Opened
    <3> QED
      BY <1>2, <3>1, <3>2, <3>3, ConvsKept
  <2>3. /\ Len(msgs') = Len(msgs)
        /\ \A i \in 1..Len(msgs) : msgs'[i].conv = msgs[i].conv
    BY <1>2, MessagesGoOn
  <2>4. \A q \in Request :
           \/ req'[q] = req[q]
           \/ /\ req'[q].at \notin Sending
              /\ (req[q].at \in Sending => <<req[q].subject, "last">> \in disturbed')
    <3>i. Idle.at \notin Sending
      BY DEF Idle, Sending
    <3>1. CASE UNCHANGED req
      BY <3>1
    <3>2. CASE \E p \in Request : RequestFails(p)
      <4>1. PICK p \in Request : RequestFails(p)
        BY <3>2
      <4>2. req'[p] = Idle /\ \A q \in Request \ {p} : req'[q] = req[q]
        BY <4>1, <1>t, ChatSlots DEF RequestFails, Done
      <4>3. req[p].at \in Sending => <<req[p].subject, "last">> \in disturbed'
        BY <4>1 DEF RequestFails
      <4> QED
        BY <4>2, <4>3, <3>i
    <3>3. ASSUME NEW p \in Request, OpenStep(p) \/ ReadStep(p) \/ JoinPage(p) \/ JoinMark(p)
          PROVE  req[p].at \notin Sending /\ \E x : Goto(p, x) /\ x.at \notin Sending
      <4>r. req[p] \in ChatRequest
        BY <1>t
      <4>0. req[p].at \notin Sending
        BY <3>3 DEF OpenStep, ReadStep, OpenFind, OpenAgain, OpenInsert, ReadPage, ReadMark,
                    ReadReset, JoinPage, JoinMark, At, Sending
      <4>1. CASE OpenInsert(p) \/ ReadReset(p) \/ JoinMark(p)
        BY <4>0, <4>1, <3>i DEF OpenInsert, ReadReset, JoinMark, Done
      <4>2. CASE OpenFind(p)
        BY <4>0, <4>2 DEF OpenFind, Sending
      <4>3. CASE OpenAgain(p)
        <5>1. [req[p] EXCEPT !.at = "openInsert"] = [at |-> "openInsert", subject |-> req[p].subject]
          BY <4>3, <4>r, ChatMoves DEF OpenAgain, At
        <5>2. [req[p] EXCEPT !.at = "openInsert"].at = "openInsert"
          BY <5>1
        <5> QED
          BY <4>0, <4>3, <5>2, <3>i DEF OpenAgain, Move, Done, Sending
      <4>4. CASE ReadPage(p)
        <5>1. PICK c \in Opened, u \in Person, ids \in SUBSET (1..Len(msgs)), l \in Reading :
                 Goto(p, [at |-> l, subject |-> c, reader |-> u, ids |-> ids])
          BY <4>4, PageTaken
        <5> QED
          BY <4>0, <5>1 DEF Sending, Reading
      <4>5. CASE ReadMark(p)
        <5>1. [req[p] EXCEPT !.at = "readReset"] =
                 [at |-> "readReset", subject |-> req[p].subject, reader |-> req[p].reader,
                  ids |-> req[p].ids]
          BY <4>5, <4>r, ChatMoves DEF ReadMark, At
        <5>2. [req[p] EXCEPT !.at = "readReset"].at = "readReset"
          BY <5>1
        <5> QED
          BY <4>0, <4>5, <5>2 DEF ReadMark, Move, Sending
      <4>6. CASE JoinPage(p)
        BY <4>0, <4>6 DEF JoinPage, Sending
      <4> QED
        BY <3>3, <4>1, <4>2, <4>3, <4>4, <4>5, <4>6 DEF OpenStep, ReadStep
    <3>4. CASE \E p \in Request : OpenStep(p) \/ ReadStep(p) \/ JoinPage(p) \/ JoinMark(p)
      <4>1. PICK p \in Request : OpenStep(p) \/ ReadStep(p) \/ JoinPage(p) \/ JoinMark(p)
        BY <3>4
      <4>2. PICK x : Goto(p, x) /\ x.at \notin Sending
        BY <4>1, <3>3
      <4>3. req'[p] = x /\ \A q \in Request \ {p} : req'[q] = req[q]
        BY <4>2, <1>t, ChatSlots
      <4> QED
        BY <4>1, <4>2, <4>3, <3>3
    <3> QED
      BY <1>2, <3>1, <3>2, <3>4 DEF ChatNext, MessageStep, SendStep, Acknowledge, Delete, chatVars
  <2> QED
    BY <2>1, <2>2, <2>3, <2>4, LastFrame
<1> QED
  BY <1>1, <1>2

-----------------------------------------------------------------------------
(***************************************************************************)
(* The counters.  What a counter is a copy of is the unread messages less  *)
(* those whose send has yet to raise it, so the invariant compares the two *)
(* at every await; a counter that a reader is about to reset is excused.   *)
(***************************************************************************)

Owing == {"sendLast", "sendCount"}

Sends(p, c) == req[p].at \in Sending /\ req[p].subject = c

Reads(p, c) == req[p].at \in Reading /\ req[p].subject = c

\* A message of the slot is filed, and its receiver's counter not yet raised.
Owes(p, c) == req[p].at \in Owing /\ req[p].subject = c

Owed(c, u) ==
    {i \in MessagesOf(c) : msgs[i].to = u /\ \E p \in Request : Owes(p, c) /\ req[p].msg = i}

\* The unread messages a counter has been raised for.
Counted(c, u) == UnreadOf(c, u) \ Owed(c, u)

Resets(c, u) == \E p \in Request : Reads(p, c) /\ req[p].at = "readReset" /\ req[p].reader = u

\* A page a reader holds is of messages to that reader.
PagesFiled ==
    \A p \in Request : req[p].at \in Reading =>
        \A i \in req[p].ids : i \in MessagesOf(req[p].subject) /\ msgs[i].to = req[p].reader

Apart(c) == \A p, q \in Request : ~(Sends(p, c) /\ Reads(q, c))

OwedOnce(c) ==
    /\ \A p, q \in Request : (p # q /\ Owes(p, c) /\ Owes(q, c)) => req[p].msg # req[q].msg
    /\ \A u \in Person : Owed(c, u) \subseteq UnreadOf(c, u)

NeverAbove(c) ==
    \A u \in Person : convs[c].unreadCount[u] <= Cardinality(Counted(c, u)) \/ Resets(c, u)

\* A reader at the counter has left nothing visible unread, one before that
\* leaves only its page.
MarksAll(p, c) ==
    UnreadOf(c, req[p].reader) \cap Visible(c)
        \subseteq (IF req[p].at = "readMark" THEN req[p].ids ELSE {})

\* While a page holds every message, the reader's counter is reset rightly.
NeverBelow(c) ==
    Cardinality(MessagesOf(c)) <= PageSize =>
        /\ \A u \in Person :
              Cardinality(Counted(c, u) \cap Visible(c)) <= convs[c].unreadCount[u]
        /\ \A p \in Request : Reads(p, c) => MarksAll(p, c)

CountsAt(c) == Apart(c) /\ OwedOnce(c) /\ NeverAbove(c) /\ NeverBelow(c)

CountInv == \A c \in Opened : <<c, "count">> \notin disturbed => CountsAt(c)

\* Sets of messages are finite.
LEMMA MessagesFinite ==
    ASSUME Len(msgs) \in Nat, NEW c
    PROVE  /\ IsFiniteSet(MessagesOf(c))
           /\ \A S \in SUBSET MessagesOf(c) :
                 /\ IsFiniteSet(S) /\ Cardinality(S) \in Nat
                 /\ Cardinality(S) <= Cardinality(MessagesOf(c))
                 /\ \A T \in SUBSET S : Cardinality(T) \in Nat /\ Cardinality(T) <= Cardinality(S)
<1>1. IsFiniteSet(1..Len(msgs))
  BY FS_Interval
<1>2. MessagesOf(c) \subseteq 1..Len(msgs)
  BY DEF MessagesOf
<1>3. IsFiniteSet(MessagesOf(c))
  BY <1>1, <1>2, FS_Subset
<1>4. ASSUME NEW S \in SUBSET MessagesOf(c)
      PROVE  /\ IsFiniteSet(S) /\ Cardinality(S) \in Nat
             /\ Cardinality(S) <= Cardinality(MessagesOf(c))
             /\ \A T \in SUBSET S : Cardinality(T) \in Nat /\ Cardinality(T) <= Cardinality(S)
  <2>1. IsFiniteSet(S) /\ Cardinality(S) <= Cardinality(MessagesOf(c))
    BY <1>3, FS_Subset
  <2>2. Cardinality(S) \in Nat
    BY <2>1, FS_CardinalityType
  <2>3. ASSUME NEW T \in SUBSET S
        PROVE  Cardinality(T) \in Nat /\ Cardinality(T) <= Cardinality(S)
    BY <2>1, FS_Subset, FS_CardinalityType
  <2> QED
    BY <2>1, <2>2, <2>3
<1> QED
  BY <1>3, <1>4

\* The sets the counters are about are sets of the conversation's messages.
LEMMA CountsOverMessages ==
    ASSUME NEW c, NEW u
    PROVE  /\ UnreadOf(c, u) \subseteq MessagesOf(c) /\ Visible(c) \subseteq MessagesOf(c)
           /\ Owed(c, u) \subseteq MessagesOf(c) /\ Counted(c, u) \subseteq UnreadOf(c, u)
  BY DEF UnreadOf, Visible, Owed, Counted

\* Whom a message is to never changes, and only a reader marks it read.
LEMMA MarksGoOn ==
    ASSUME ChatTypeOK, [ChatNext]_chatVars, ~\E p \in Request : SendCreate(p)
    PROVE  /\ Len(msgs') = Len(msgs)
           /\ \A i \in 1..Len(msgs) :
                 /\ msgs'[i].conv = msgs[i].conv /\ msgs'[i].to = msgs[i].to
                 /\ (msgs[i].isDeleted => msgs'[i].isDeleted)
                 /\ ((~\E p \in Request : ReadMark(p)) =>
                        (msgs'[i].status = "read" <=> msgs[i].status = "read"))
<1>t. msgs \in Seq(Message) /\ Len(msgs) \in Nat
  BY DEF ChatTypeOK
<1>1. ASSUME NEW ids, MarkAsDelivered(ids)
      PROVE  /\ Len(msgs') = Len(msgs)
             /\ \A i \in 1..Len(msgs) :
                   /\ msgs'[i].conv = msgs[i].conv /\ msgs'[i].to = msgs[i].to
                   /\ msgs'[i].isDeleted = msgs[i].isDeleted
                   /\ (msgs'[i].status = "read" <=> msgs[i].status = "read")
  <2> DEFINE marked == {i \in ids : msgs[i].status = "sent"}
  <2>1. "delivered" \in MessageStatus /\ SetStatus(marked, "delivered")
    BY <1>1 DEF MarkAsDelivered, MessageStatus
  <2>2. \A i \in marked : msgs[i].status = "sent"
    OBVIOUS
  <2> HIDE DEF marked
  <2> QED
    BY <1>t, <2>1, <2>2, StatusSet
<1>2. CASE UNCHANGED msgs
  BY <1>2
<1>3. CASE \E p \in Request : ReadMark(p)
  <2>1. PICK p \in Request : SetStatus(req[p].ids, "read")
    BY <1>3 DEF ReadMark
  <2>2. "read" \in MessageStatus
    BY DEF MessageStatus
  <2> QED
    BY <1>3, <1>t, <2>1, <2>2, StatusSet
<1>4. CASE Acknowledge \/ \E p \in Request : JoinMark(p)
  <2>1. \E ids : MarkAsDelivered(ids)
    BY <1>4 DEF Acknowledge, JoinMark
  <2> QED
    BY <2>1, <1>1
<1>5. CASE Delete
  <2>1. PICK i \in 1..Len(msgs) : msgs' = [msgs EXCEPT ![i].isDeleted = TRUE]
    BY <1>5 DEF Delete, Visible, MessagesOf
  <2>2. msgs[i] \in Message
    BY <1>t, ElementOfSeq
  <2> DEFINE y == [msgs[i] EXCEPT !.isDeleted = TRUE]
  <2>3. /\ y \in Message /\ y.conv = msgs[i].conv /\ y.to = msgs[i].to
        /\ y.status = msgs[i].status /\ y.isDeleted = TRUE
    BY <2>2 DEF Message
  <2>4. msgs' = [msgs EXCEPT ![i] = y]
    BY <2>1
  <2> HIDE DEF y
  <2>5. /\ Len(msgs') = Len(msgs) /\ msgs'[i] = y
        /\ \A j \in 1..Len(msgs) : j # i => msgs'[j] = msgs[j]
    BY <1>t, <2>2, <2>3, <2>4
  <2> QED
    BY <2>3, <2>5
<1> QED
  BY <1>2, <1>3, <1>4, <1>5
     DEF ChatNext, MessageStep, OpenStep, SendStep, ReadStep, OpenFind, OpenAgain, OpenInsert,
         SendStart, SendLast, SendCount, SendNotify, ReadPage, ReadReset, JoinPage,
         RequestFails, chatVars

\* What a slot may do to the counters of a conversation without touching them.
Aside(p, c) ==
    \/ req'[p] = req[p]
    \/ /\ ~Reads(p, c) /\ ~Reads(p, c)'
       /\ Sends(p, c)' => (Sends(p, c) \/ \A q \in Request : ~Reads(q, c))
       /\ Owes(p, c)' <=> Owes(p, c)
       /\ Owes(p, c) => req'[p].msg = req[p].msg

\* A step that leaves a conversation's counters and unread messages alone.
LEMMA CountFrame ==
    ASSUME ChatTypeOK, NEW c \in Opened, CountsAt(c),
           convs'[c].unreadCount = convs[c].unreadCount,
           MessagesOf(c)' = MessagesOf(c),
           \A i \in MessagesOf(c) : /\ msgs'[i].to = msgs[i].to
                                    /\ (msgs'[i].status = "read" <=> msgs[i].status = "read")
                                    /\ (msgs[i].isDeleted => msgs'[i].isDeleted),
           \A p \in Request : Aside(p, c)
    PROVE  CountsAt(c)'
<1>t. Len(msgs) \in Nat
  BY DEF ChatTypeOK
<1>c. Sending' = Sending /\ Reading' = Reading /\ Owing' = Owing
  BY DEF Sending, Reading, Owing
<1>u. \A u \in Person : convs[c].unreadCount[u] \in Nat
  BY OpenedProps, ConversationProps
<1>1. \A p \in Request :
         /\ Reads(p, c)' <=> Reads(p, c)
         /\ Reads(p, c) => req'[p] = req[p]
         /\ Owes(p, c)' <=> Owes(p, c)
         /\ Owes(p, c) => req'[p].msg = req[p].msg
         /\ Sends(p, c)' => (Sends(p, c) \/ \A q \in Request : ~Reads(q, c))
  BY <1>c DEF Aside, Reads, Owes, Sends
<1>2. /\ \A u : UnreadOf(c, u)' = UnreadOf(c, u)
      /\ \A u : Owed(c, u)' = Owed(c, u)
      /\ Visible(c)' \subseteq Visible(c)
  <2>1. ASSUME NEW u
        PROVE  UnreadOf(c, u)' = UnreadOf(c, u)
    BY DEF UnreadOf
  <2>2. ASSUME NEW u
        PROVE  Owed(c, u)' = Owed(c, u)
    BY <1>1 DEF Owed
  <2>3. Visible(c)' \subseteq Visible(c)
    BY DEF Visible
  <2> QED
    BY <2>1, <2>2, <2>3
<1>3. \A u : Counted(c, u)' = Counted(c, u)
  BY <1>2 DEF Counted
<1>4. \A u : Resets(c, u)' <=> Resets(c, u)
  BY <1>1 DEF Resets
<1>5. Apart(c)'
  BY <1>1 DEF CountsAt, Apart
<1>6. OwedOnce(c)'
  BY <1>1, <1>2 DEF CountsAt, OwedOnce
<1>7. NeverAbove(c)'
  BY <1>3, <1>4 DEF CountsAt, NeverAbove
<1>8. NeverBelow(c)'
  <2> SUFFICES ASSUME Cardinality(MessagesOf(c)) <= PageSize
               PROVE  /\ \A u \in Person :
                            Cardinality(Counted(c, u)' \cap Visible(c)') <= convs'[c].unreadCount[u]
                      /\ \A p \in Request : Reads(p, c)' => MarksAll(p, c)'
    BY DEF NeverBelow
  <2>1. ASSUME NEW u \in Person
        PROVE  Cardinality(Counted(c, u)' \cap Visible(c)') <= convs'[c].unreadCount[u]
    <3> DEFINE S == Counted(c, u) \cap Visible(c)
               T == Counted(c, u) \cap Visible(c)'
    <3>1. S \in SUBSET MessagesOf(c) /\ T \in SUBSET S
      BY <1>2, CountsOverMessages
    <3>2. Cardinality(T) \in Nat /\ Cardinality(S) \in Nat /\ Cardinality(T) <= Cardinality(S)
      BY <3>1, <1>t, MessagesFinite
    <3>3. Cardinality(S) <= convs[c].unreadCount[u]
      BY DEF CountsAt, NeverBelow
    <3>4. Counted(c, u)' \cap Visible(c)' = T
      BY <1>3
    <3> HIDE DEF S, T
    <3> QED
      BY <3>2, <3>3, <3>4, <1>u
  <2>2. ASSUME NEW p \in Request, Reads(p, c)'
        PROVE  MarksAll(p, c)'
    <3>1. Reads(p, c) /\ req'[p] = req[p]
      BY <2>2, <1>1
    <3>2. MarksAll(p, c)
      BY <3>1 DEF CountsAt, NeverBelow
    <3>3. UnreadOf(c, req[p].reader)' = UnreadOf(c, req'[p].reader)
      BY <3>1, <1>2
    <3> QED
      BY <3>1, <3>2, <1>2 DEF MarksAll
  <2> QED
    BY <2>1, <2>2
<1> QED
  BY <1>5, <1>6, <1>7, <1>8 DEF CountsAt

\* A slot's move beside every sender and reader of a conversation.
LEMMA StepsAside ==
    ASSUME ChatTypeOK, NEW c, NEW p \in Request, NEW x, Goto(p, x),
           ~Reads(p, c), ~(x.at \in Reading /\ x.subject = c),
           (x.at \in Sending /\ x.subject = c) =>
               (Sends(p, c) \/ \A q \in Request : ~Reads(q, c)),
           (x.at \in Owing /\ x.subject = c) <=> Owes(p, c),
           Owes(p, c) => x.msg = req[p].msg
    PROVE  \A q \in Request : Aside(q, c)
<1>1. req'[p] = x /\ \A q \in Request \ {p} : req'[q] = req[q]
  BY ChatSlots DEF ChatTypeOK
<1>2. Sending' = Sending /\ Reading' = Reading /\ Owing' = Owing
  BY DEF Sending, Reading, Owing
<1>3. /\ ~Reads(p, c)'
      /\ Sends(p, c)' => (Sends(p, c) \/ \A q \in Request : ~Reads(q, c))
      /\ Owes(p, c)' <=> Owes(p, c)
      /\ Owes(p, c) => req'[p].msg = req[p].msg
  BY <1>1, <1>2 DEF Reads, Sends, Owes
<1>4. Aside(p, c)
  BY <1>3 DEF Aside
<1>5. \A q \in Request \ {p} : Aside(q, c)
  BY <1>1 DEF Aside
<1> QED
  BY <1>4, <1>5

\* Opening and joining neither send nor read.
LEMMA QuietSteps ==
    ASSUME ChatTypeOK, NEW p \in Request, OpenStep(p) \/ JoinPage(p) \/ JoinMark(p)
    PROVE  /\ req[p].at \notin Sending \cup Reading
           /\ \E x : Goto(p, x) /\ x.at \notin Sending \cup Reading
<1>r. req[p] \in ChatRequest
  BY DEF ChatTypeOK
<1>0. req[p].at \notin Sending \cup Reading
  BY DEF OpenStep, OpenFind, OpenAgain, OpenInsert, JoinPage, JoinMark, At, Sending, Reading
<1>i. Idle.at \notin Sending \cup Reading
  BY DEF Idle, Sending, Reading
<1>1. CASE OpenInsert(p) \/ JoinMark(p)
  BY <1>0, <1>1, <1>i DEF OpenInsert, JoinMark, Done
<1>2. CASE OpenFind(p)
  BY <1>0, <1>2 DEF OpenFind, Sending, Reading
<1>3. CASE OpenAgain(p)
  <2>1. [req[p] EXCEPT !.at = "openInsert"] = [at |-> "openInsert", subject |-> req[p].subject]
    BY <1>3, <1>r, ChatMoves DEF OpenAgain, At
  <2>2. [req[p] EXCEPT !.at = "openInsert"].at = "openInsert"
    BY <2>1
  <2> QED
    BY <1>0, <1>3, <2>2, <1>i DEF OpenAgain, Move, Done, Sending, Reading
<1>4. CASE JoinPage(p)
  BY <1>0, <1>4 DEF JoinPage, Sending, Reading
<1> QED
  BY <1>1, <1>2, <1>3, <1>4 DEF OpenStep

\* A filed message moves on with its conversation.
LEMMA FiledMoves ==
    ASSUME ChatTypeOK, NEW p \in Request, SendLast(p) \/ SendCount(p)
    PROVE  Goto(p, [at |-> IF SendLast(p) THEN "sendCount" ELSE "sendNotify",
                    subject |-> req[p].subject, from |-> req[p].from, msg |-> req[p].msg])
<1>1. req[p] \in ChatRequest /\ req[p].at \in Filed
  BY DEF ChatTypeOK, SendLast, SendCount, At, Filed
<1>2. \A l \in Filed : [req[p] EXCEPT !.at = l] =
         [at |-> l, subject |-> req[p].subject, from |-> req[p].from, msg |-> req[p].msg]
  BY <1>1, ChatMoves
<1>3. CASE SendLast(p)
  BY <1>2, <1>3 DEF SendLast, Move, Filed
<1>4. CASE SendCount(p) /\ ~SendLast(p)
  BY <1>2, <1>4 DEF SendCount, Move, Filed
<1> QED
  BY <1>3, <1>4

\* A reader keeps its page when it has marked it.
LEMMA ReaderMoves ==
    ASSUME ChatTypeOK, NEW p \in Request, ReadMark(p)
    PROVE  Goto(p, [at |-> "readReset", subject |-> req[p].subject, reader |-> req[p].reader,
                    ids |-> req[p].ids])
<1>1. req[p] \in ChatRequest /\ req[p].at = "readMark"
  BY DEF ChatTypeOK, ReadMark, At
<1> QED
  BY <1>1, ChatMoves DEF ReadMark, Move

\* A message is filed at the end, to the other participant.
LEMMA MessageFiled ==
    ASSUME ChatTypeOK, SlotsKnown, NEW p \in Request, SendCreate(p)
    PROVE  /\ req[p].subject \in Opened
           /\ Len(msgs') = Len(msgs) + 1
           /\ \A i \in 1..Len(msgs) : msgs'[i] = msgs[i]
           /\ \E m \in Message : /\ msgs'[Len(msgs) + 1] = m
                                 /\ m.conv = req[p].subject
                                 /\ m.status = "sent" /\ m.isDeleted = FALSE
           /\ Goto(p, [at |-> "sendLast", subject |-> req[p].subject, from |-> req[p].from,
                       msg |-> Len(msgs) + 1])
<1>t. msgs \in Seq(Message) /\ Len(msgs) \in Nat
  BY DEF ChatTypeOK
<1>1. req[p].subject \in Opened /\ req[p].from \in Participants(req[p].subject)
  BY DEF SlotsKnown, Known, SendCreate, At, Sending
<1> DEFINE m == [conv |-> req[p].subject, from |-> req[p].from,
                 to |-> Other(req[p].subject, req[p].from), status |-> "sent", isDeleted |-> FALSE]
<1>2. m \in Message
  BY <1>1, OpenedProps DEF Message, MessageStatus
<1>3. m.conv = req[p].subject /\ m.status = "sent" /\ m.isDeleted = FALSE
  OBVIOUS
<1>4. msgs' = Append(msgs, m)
  BY DEF SendCreate
<1> HIDE DEF m
<1>5. /\ Len(msgs') = Len(msgs) + 1
      /\ msgs'[Len(msgs) + 1] = m
      /\ \A i \in 1..Len(msgs) : msgs'[i] = msgs[i]
  BY <1>t, <1>2, <1>4, AppendProperties
<1> QED
  BY <1>1, <1>2, <1>3, <1>5 DEF SendCreate

\* A page keeps to messages of its conversation that are to its reader.
LEMMA PagesKept ==
    ASSUME ChatTypeOK, SlotsKnown, PagesFiled, [ChatNext]_chatVars
    PROVE  PagesFiled'
<1>t. req \in [Request -> ChatRequest] /\ Len(msgs) \in Nat
  BY DEF ChatTypeOK
<1>c. Reading' = Reading
  BY DEF Reading
<1>1. /\ Len(msgs') \in Nat /\ Len(msgs) <= Len(msgs')
      /\ \A i \in 1..Len(msgs) : msgs'[i].conv = msgs[i].conv /\ msgs'[i].to = msgs[i].to
  <2>1. CASE \E p \in Request : SendCreate(p)
    <3>1. PICK p \in Request : SendCreate(p)
      BY <2>1
    <3>2. /\ Len(msgs') = Len(msgs) + 1
          /\ \A i \in 1..Len(msgs) : msgs'[i] = msgs[i]
      BY <3>1, MessageFiled
    <3> QED
      BY <3>2, <1>t
  <2>2. CASE ~\E p \in Request : SendCreate(p)
    BY <2>2, <1>t, MarksGoOn
  <2> QED
    BY <2>1, <2>2
<1>2. \A c : MessagesOf(c) \subseteq MessagesOf(c)'
  BY <1>1, <1>t DEF MessagesOf
<1>p. \A c : \A i \in MessagesOf(c) : i \in MessagesOf(c)' /\ msgs'[i].to = msgs[i].to
  BY <1>1, <1>2 DEF MessagesOf
<1> DEFINE Paged(x) == \A i \in x.ids : i \in MessagesOf(x.subject) /\ msgs[i].to = x.reader
           Keeps(x) == x.at \in Reading => Paged(x)
<1>3. ASSUME NEW p \in Request, MessageStep(p)
      PROVE  \E x : Goto(p, x) /\ Keeps(x)
  <2>i. Idle.at \notin Reading
    BY DEF Idle, Reading
  <2>1. CASE OpenStep(p) \/ JoinPage(p) \/ JoinMark(p)
    BY <2>1, QuietSteps
  <2>2. CASE SendStart(p)
    BY <2>2 DEF SendStart, Reading
  <2>3. CASE SendCreate(p)
    BY <2>3 DEF SendCreate, Reading
  <2>4. CASE SendLast(p) \/ SendCount(p)
    <3> DEFINE x == [at |-> IF SendLast(p) THEN "sendCount" ELSE "sendNotify",
                     subject |-> req[p].subject, from |-> req[p].from, msg |-> req[p].msg]
    <3>1. Goto(p, x)
      BY <2>4, FiledMoves
    <3>2. x.at \notin Reading
      BY DEF Reading
    <3> QED
      BY <3>1, <3>2
  <2>5. CASE SendNotify(p) \/ ReadReset(p) \/ RequestFails(p)
    BY <2>5, <2>i DEF SendNotify, ReadReset, RequestFails, Done
  <2>6. CASE ReadPage(p)
    <3>1. PICK c \in Opened : \E u \in Participants(c) :
             LET ids == FirstPage(c, PageSize) \cap UnreadOf(c, u)
             IN Goto(p, [at |-> IF ids = {} THEN "readReset" ELSE "readMark",
                         subject |-> c, reader |-> u, ids |-> ids])
      BY <2>6 DEF ReadPage
    <3>2. PICK u : LET ids == FirstPage(c, PageSize) \cap UnreadOf(c, u)
                   IN Goto(p, [at |-> IF ids = {} THEN "readReset" ELSE "readMark",
                               subject |-> c, reader |-> u, ids |-> ids])
      BY <3>1
    <3> DEFINE ids == FirstPage(c, PageSize) \cap UnreadOf(c, u)
               x == [at |-> IF ids = {} THEN "readReset" ELSE "readMark",
                     subject |-> c, reader |-> u, ids |-> ids]
    <3>3. \A i \in ids : i \in MessagesOf(c) /\ msgs[i].to = u
      BY DEF UnreadOf
    <3>4. Goto(p, x)
      BY <3>2
    <3>5. Keeps(x)
      BY <3>3
    <3> QED
      BY <3>4, <3>5
  <2>7. CASE ReadMark(p)
    <3> DEFINE x == [at |-> "readReset", subject |-> req[p].subject, reader |-> req[p].reader,
                     ids |-> req[p].ids]
    <3>1. Goto(p, x)
      BY <2>7, ReaderMoves
    <3>2. Paged(x)
      BY <2>7 DEF PagesFiled, ReadMark, At, Reading
    <3> QED
      BY <3>1, <3>2
  <2> QED
    BY <1>3, <2>1, <2>2, <2>3, <2>4, <2>5, <2>6, <2>7 DEF MessageStep, SendStep, ReadStep
<1>4. \A q \in Request : Keeps(req'[q])
  <2>0. \A q \in Request : Keeps(req[q])
    BY DEF PagesFiled
  <2>1. CASE \E p \in Request : MessageStep(p)
    <3>1. PICK p \in Request : MessageStep(p)
      BY <2>1
    <3>2. PICK x : Goto(p, x) /\ Keeps(x)
      BY <3>1, <1>3
    <3>3. req'[p] = x /\ \A q \in Request \ {p} : req'[q] = req[q]
      BY <3>2, <1>t, ChatSlots
    <3> HIDE DEF Keeps
    <3> QED
      BY <2>0, <3>2, <3>3
  <2>2. CASE UNCHANGED req
    <3> HIDE DEF Keeps
    <3> QED
      BY <2>0, <2>2
  <2> QED
    BY <2>1, <2>2 DEF ChatNext, Acknowledge, Delete, chatVars
<1> QED
  BY <1>4, <1>p, <1>c DEF PagesFiled

\* What a step with a slot writes to the counters.
LEMMA CountsWritten ==
    ASSUME ChatTypeOK, SlotsKnown, NEW p \in Request, MessageStep(p), NEW c \in Opened
    PROVE  /\ c \in Opened'
           /\ convs'[c] \in Conversation
           /\ \A u \in Person :
                 convs'[c].unreadCount[u] =
                    IF c = req[p].subject /\ SendCount(p) /\ u = msgs[req[p].msg].to
                      THEN convs[c].unreadCount[u] + 1
                    ELSE IF c = req[p].subject /\ ReadReset(p) /\ u = req[p].reader
                      THEN 0
                    ELSE convs[c].unreadCount[u]
           /\ (~(c = req[p].subject /\ (SendCount(p) \/ ReadReset(p)))) =>
                 convs'[c].unreadCount = convs[c].unreadCount
<1>t. /\ req[p] \in ChatRequest /\ Known(req[p]) /\ msgs \in Seq(Message)
      /\ convs \in [Conv -> Conversation \cup {NoConv}]
      /\ c \in Conv /\ convs[c] \in Conversation /\ convs[c].unreadCount \in [Person -> Nat]
  BY OpenedProps DEF ChatTypeOK, SlotsKnown, Conversation
<1>n. [ChatNext]_chatVars
  BY DEF ChatNext
<1>o. c \in Opened' /\ convs'[c] \in Conversation
  BY <1>n, <1>t, ConvsGoOn DEF Opened, NoConv, Conversation
<1>1. CASE SendCount(p)
  <2>1. ~ReadReset(p)
    BY <1>1 DEF SendCount, ReadReset, At
  <2>2. convs' = [convs EXCEPT ![req[p].subject].unreadCount[msgs[req[p].msg].to] = @ + 1]
    BY <1>1 DEF SendCount
  <2>3. CASE c = req[p].subject
    <3>1. convs'[c] = [convs[c] EXCEPT !.unreadCount[msgs[req[p].msg].to] = @ + 1]
      BY <1>t, <2>2, <2>3
    <3>2. convs'[c].unreadCount = [convs[c].unreadCount EXCEPT ![msgs[req[p].msg].to] = @ + 1]
      BY <1>t, <3>1 DEF Conversation
    <3> QED
      BY <1>o, <1>t, <1>1, <2>1, <2>3, <3>2
  <2>4. CASE c # req[p].subject
    BY <1>o, <1>t, <2>2, <2>4
  <2> QED
    BY <2>3, <2>4
<1>2. CASE ReadReset(p)
  <2>1. ~SendCount(p)
    BY <1>2 DEF SendCount, ReadReset, At
  <2>2. convs' = [convs EXCEPT ![req[p].subject].unreadCount[req[p].reader] = 0]
    BY <1>2 DEF ReadReset
  <2>3. CASE c = req[p].subject
    <3>1. convs'[c] = [convs[c] EXCEPT !.unreadCount[req[p].reader] = 0]
      BY <1>t, <2>2, <2>3
    <3>2. convs'[c].unreadCount = [convs[c].unreadCount EXCEPT ![req[p].reader] = 0]
      BY <1>t, <3>1 DEF Conversation
    <3> QED
      BY <1>o, <1>t, <1>2, <2>1, <2>3, <3>2
  <2>4. CASE c # req[p].subject
    BY <1>o, <1>t, <2>2, <2>4
  <2> QED
    BY <2>3, <2>4
<1>3. CASE SendLast(p)
  <2>1. ~SendCount(p) /\ ~ReadReset(p)
    BY <1>3 DEF SendLast, SendCount, ReadReset, At
  <2>2. convs' = [convs EXCEPT ![req[p].subject].last = req[p].msg]
    BY <1>3 DEF SendLast
  <2>3. convs'[c] = IF c = req[p].subject THEN [convs[c] EXCEPT !.last = req[p].msg] ELSE convs[c]
    BY <1>t, <2>2
  <2>4. convs'[c].unreadCount = convs[c].unreadCount
    BY <1>t, <2>3 DEF Conversation
  <2> QED
    BY <1>o, <2>1, <2>4
<1>4. CASE OpenInsert(p)
  <2>1. ~SendCount(p) /\ ~ReadReset(p)
    BY <1>4 DEF OpenInsert, SendCount, ReadReset, At
  <2>2. convs'[c] = convs[c]
    BY <1>4, ConversationAdded
  <2> QED
    BY <1>o, <2>1, <2>2
<1>5. CASE UNCHANGED convs /\ ~SendCount(p) /\ ~ReadReset(p)
  BY <1>5, <1>o
<1> QED
  BY <1>1, <1>2, <1>3, <1>4, <1>5
     DEF MessageStep, OpenStep, SendStep, ReadStep, OpenFind, OpenAgain, SendStart,
         SendCreate, SendNotify, ReadPage, ReadMark, JoinPage, JoinMark, RequestFails

\* A message is sent: it is unread, and its counter is owed it.
LEMMA CountsCreated ==
    ASSUME ChatTypeOK, SlotsKnown, NEW c \in Opened, CountsAt(c),
           NEW p \in Request, SendCreate(p), req[p].subject = c
    PROVE  CountsAt(c)'
<1>t. /\ req \in [Request -> ChatRequest] /\ Len(msgs) \in Nat /\ req[p].at = "sendCreate"
      /\ PageSize \in Nat /\ Sending' = Sending /\ Reading' = Reading /\ Owing' = Owing
  BY ChatAssumption DEF ChatTypeOK, SendCreate, At, Sending, Reading, Owing
<1>1. PICK n : n = Len(msgs) + 1
  OBVIOUS
<1>2. /\ Len(msgs') = n
      /\ \A i \in 1..Len(msgs) : msgs'[i] = msgs[i]
      /\ msgs'[n].conv = c /\ msgs'[n].status # "read"
  BY <1>1, MessageFiled
<1>3. /\ req'[p].at = "sendLast" /\ req'[p].subject = c /\ req'[p].msg = n
      /\ \A q \in Request \ {p} : req'[q] = req[q]
  <2>1. Goto(p, [at |-> "sendLast", subject |-> req[p].subject, from |-> req[p].from,
                 msg |-> Len(msgs) + 1])
    BY MessageFiled
  <2> QED
    BY <1>t, <1>1, <2>1, ChatSlots
<1>4. UNCHANGED convs
  BY DEF SendCreate
<1>5. /\ \A q \in Request : ~Reads(q, c) /\ ~Reads(q, c)'
      /\ \A u : ~Resets(c, u)
  <2>1. Sends(p, c)
    BY <1>t DEF Sends, Sending
  <2>2. \A q \in Request : ~Reads(q, c)
    BY <2>1 DEF CountsAt, Apart
  <2>3. \A q \in Request \ {p} : ~Reads(q, c)'
    BY <2>2, <1>3, <1>t DEF Reads
  <2>4. ~Reads(p, c)'
    BY <1>3, <1>t DEF Reads, Reading
  <2> QED
    BY <2>2, <2>3, <2>4 DEF Resets
<1>6. /\ \A q \in Request \ {p} : (Owes(q, c)' <=> Owes(q, c)) /\ req'[q] = req[q]
      /\ ~Owes(p, c) /\ Owes(p, c)'
      /\ \A q \in Request : Owes(q, c) => req[q].msg \in 1..Len(msgs)
  BY <1>3, <1>t DEF Owes, Owing, SlotsKnown, Known, Filed
<1>7. /\ MessagesOf(c)' = MessagesOf(c) \cup {n} /\ MessagesOf(c) \subseteq 1..Len(msgs)
      /\ n \notin 1..Len(msgs)
  BY <1>1, <1>2, <1>t DEF MessagesOf
<1>8. /\ \A u : UnreadOf(c, u)' = UnreadOf(c, u) \cup (IF msgs'[n].to = u THEN {n} ELSE {})
      /\ \A u : Owed(c, u)' = Owed(c, u) \cup (IF msgs'[n].to = u THEN {n} ELSE {})
  <2>1. ASSUME NEW u
        PROVE  UnreadOf(c, u)' = UnreadOf(c, u) \cup (IF msgs'[n].to = u THEN {n} ELSE {})
    BY <1>2, <1>7 DEF UnreadOf
  <2>2. ASSUME NEW u
        PROVE  Owed(c, u)' = Owed(c, u) \cup (IF msgs'[n].to = u THEN {n} ELSE {})
    <3>1. \A i \in 1..Len(msgs) :
             (\E q \in Request : Owes(q, c)' /\ req'[q].msg = i)
                <=> (\E q \in Request : Owes(q, c) /\ req[q].msg = i)
      BY <1>3, <1>6, <1>7
    <3>2. \E q \in Request : Owes(q, c)' /\ req'[q].msg = n
      BY <1>3, <1>6
    <3> QED
      BY <3>1, <3>2, <1>2, <1>7 DEF Owed
  <2> QED
    BY <2>1, <2>2
<1>9. \A u : Counted(c, u)' = Counted(c, u)
  <2>1. \A u : n \notin UnreadOf(c, u) /\ n \notin Owed(c, u)
    BY <1>7 DEF UnreadOf, Owed
  <2> QED
    BY <2>1, <1>8 DEF Counted
<1>10. \A u : Counted(c, u)' \cap Visible(c)' = Counted(c, u) \cap Visible(c)
  <2>1. \A i \in MessagesOf(c) : i \in Visible(c)' <=> i \in Visible(c)
    BY <1>2, <1>7 DEF Visible
  <2>2. \A u : Counted(c, u) \subseteq MessagesOf(c)
    BY CountsOverMessages
  <2> QED
    BY <2>1, <2>2, <1>9
<1>11. Apart(c)'
  BY <1>5 DEF Apart
<1>12. OwedOnce(c)'
  <2>1. \A q, r \in Request : (q # r /\ Owes(q, c)' /\ Owes(r, c)') => req'[q].msg # req'[r].msg
    BY <1>3, <1>6, <1>7 DEF CountsAt, OwedOnce
  <2>2. \A u \in Person : Owed(c, u)' \subseteq UnreadOf(c, u)'
    BY <1>8 DEF CountsAt, OwedOnce
  <2> QED
    BY <2>1, <2>2 DEF OwedOnce
<1>13. NeverAbove(c)'
  BY <1>4, <1>5, <1>9 DEF CountsAt, NeverAbove
<1>14. NeverBelow(c)'
  <2>1. Cardinality(MessagesOf(c)') <= PageSize => Cardinality(MessagesOf(c)) <= PageSize
    <3>1. /\ IsFiniteSet(MessagesOf(c)) /\ Cardinality(MessagesOf(c)) \in Nat
      BY <1>t, MessagesFinite
    <3>2. Cardinality(MessagesOf(c) \cup {n}) =
             IF n \in MessagesOf(c) THEN Cardinality(MessagesOf(c)) ELSE Cardinality(MessagesOf(c)) + 1
      BY <3>1, FS_AddElement
    <3> QED
      BY <3>1, <3>2, <1>7, <1>t
  <2> QED
    BY <2>1, <1>4, <1>5, <1>10 DEF CountsAt, NeverBelow
<1> QED
  BY <1>11, <1>12, <1>13, <1>14 DEF CountsAt

\* The counter is raised: the message is no longer owed to it.
LEMMA CountsRaised ==
    ASSUME ChatTypeOK, SlotsKnown, NEW c \in Opened, CountsAt(c),
           NEW p \in Request, SendCount(p), req[p].subject = c
    PROVE  CountsAt(c)'
<1>t. /\ req \in [Request -> ChatRequest] /\ msgs \in Seq(Message) /\ Len(msgs) \in Nat
      /\ req[p].at = "sendCount"
      /\ Sending' = Sending /\ Reading' = Reading /\ Owing' = Owing
  BY DEF ChatTypeOK, SendCount, At, Sending, Reading, Owing
<1>1. PICK n, v : n = req[p].msg /\ v = msgs[n].to
  OBVIOUS
<1>2. n \in MessagesOf(c) /\ v \in Person
  <2>1. n \in 1..Len(msgs) /\ msgs[n].conv = c
    BY <1>t, <1>1 DEF SlotsKnown, Known, Filed
  <2>2. msgs[n] \in Message
    BY <2>1, <1>t, ElementOfSeq
  <2> QED
    BY <2>1, <2>2, <1>1 DEF MessagesOf, Message
<1>3. /\ req'[p].at = "sendNotify"
      /\ \A q \in Request \ {p} : req'[q] = req[q]
  <2>1. ~SendLast(p)
    BY <1>t DEF SendLast, At
  <2>2. Goto(p, [at |-> "sendNotify", subject |-> req[p].subject, from |-> req[p].from,
                 msg |-> req[p].msg])
    BY <2>1, FiledMoves
  <2> QED
    BY <1>t, <2>2, ChatSlots
<1>4. /\ UNCHANGED msgs
      /\ \A u \in Person : convs[c].unreadCount[u] \in Nat
      /\ \A u \in Person : convs'[c].unreadCount[u] =
            IF u = v THEN convs[c].unreadCount[u] + 1 ELSE convs[c].unreadCount[u]
  <2>1. MessageStep(p) /\ UNCHANGED msgs
    BY DEF MessageStep, SendStep, SendCount
  <2>2. \A u \in Person : convs[c].unreadCount[u] \in Nat
    BY OpenedProps, ConversationProps
  <2>3. ~ReadReset(p)
    BY <1>t DEF ReadReset, At
  <2> QED
    BY <2>1, <2>2, <2>3, <1>1, CountsWritten
<1>5. /\ \A u : UnreadOf(c, u)' = UnreadOf(c, u)
      /\ MessagesOf(c)' = MessagesOf(c) /\ Visible(c)' = Visible(c)
  BY <1>4 DEF UnreadOf, MessagesOf, Visible
<1>6. /\ \A q \in Request : ~Reads(q, c) /\ ~Reads(q, c)'
      /\ \A u : ~Resets(c, u)
  <2>1. Sends(p, c)
    BY <1>t DEF Sends, Sending
  <2>2. \A q \in Request : ~Reads(q, c)
    BY <2>1 DEF CountsAt, Apart
  <2>3. \A q \in Request \ {p} : ~Reads(q, c)'
    BY <2>2, <1>3, <1>t DEF Reads
  <2>4. ~Reads(p, c)'
    BY <1>3, <1>t DEF Reads, Reading
  <2> QED
    BY <2>2, <2>3, <2>4 DEF Resets
<1>7. /\ \A q \in Request \ {p} : (Owes(q, c)' <=> Owes(q, c)) /\ req'[q] = req[q]
      /\ Owes(p, c) /\ ~Owes(p, c)'
      /\ \A q \in Request \ {p} : Owes(q, c) => req[q].msg # n
  <2>1. /\ \A q \in Request \ {p} : (Owes(q, c)' <=> Owes(q, c)) /\ req'[q] = req[q]
        /\ Owes(p, c) /\ ~Owes(p, c)'
    BY <1>3, <1>t DEF Owes, Owing
  <2> QED
    BY <2>1, <1>1 DEF CountsAt, OwedOnce
<1>8. /\ \A u : Owed(c, u)' = Owed(c, u) \ {n}
      /\ \A u : n \in Owed(c, u) <=> u = v
  <2>1. \A i : (\E q \in Request : Owes(q, c)' /\ req'[q].msg = i)
                  <=> (i # n /\ \E q \in Request : Owes(q, c) /\ req[q].msg = i)
    BY <1>1, <1>7
  <2>2. ASSUME NEW u
        PROVE  Owed(c, u)' = Owed(c, u) \ {n}
    BY <2>1, <1>4, <1>5 DEF Owed
  <2>3. ASSUME NEW u
        PROVE  n \in Owed(c, u) <=> u = v
    BY <1>1, <1>2, <1>7 DEF Owed
  <2> QED
    BY <2>2, <2>3
<1>9. /\ \A u \in Person \ {v} : Counted(c, u)' = Counted(c, u)
      /\ Counted(c, v)' = Counted(c, v) \cup {n} /\ n \notin Counted(c, v)
  <2>1. \A u \in Person \ {v} : Counted(c, u)' = Counted(c, u)
    BY <1>5, <1>8 DEF Counted
  <2>2. n \in UnreadOf(c, v) /\ n \in Owed(c, v)
    BY <1>2, <1>8 DEF CountsAt, OwedOnce
  <2> QED
    BY <2>1, <2>2, <1>5, <1>8 DEF Counted
<1>10. /\ Cardinality(Counted(c, v)') = Cardinality(Counted(c, v)) + 1
       /\ Cardinality(Counted(c, v)) \in Nat
  <2>1. Counted(c, v) \in SUBSET MessagesOf(c)
    BY CountsOverMessages
  <2>2. IsFiniteSet(Counted(c, v)) /\ Cardinality(Counted(c, v)) \in Nat
    BY <2>1, <1>t, MessagesFinite
  <2> QED
    BY <2>2, <1>9, FS_AddElement
<1>11. /\ Cardinality(Counted(c, v)' \cap Visible(c)) <= Cardinality(Counted(c, v) \cap Visible(c)) + 1
       /\ Cardinality(Counted(c, v)' \cap Visible(c)) \in Nat
       /\ Cardinality(Counted(c, v) \cap Visible(c)) \in Nat
  <2> DEFINE S == Counted(c, v) \cap Visible(c)
             T == Counted(c, v)' \cap Visible(c)
  <2>1. S \in SUBSET MessagesOf(c)
    BY CountsOverMessages
  <2>2. IsFiniteSet(S) /\ Cardinality(S) \in Nat
    BY <2>1, <1>t, MessagesFinite
  <2>3. T = S \/ T = S \cup {n}
    BY <1>9
  <2>4. Cardinality(S \cup {n}) = IF n \in S THEN Cardinality(S) ELSE Cardinality(S) + 1
    BY <2>2, FS_AddElement
  <2> HIDE DEF S, T
  <2>5. Cardinality(T) <= Cardinality(S) + 1 /\ Cardinality(T) \in Nat
    <3>1. CASE T = S
      BY <3>1, <2>2
    <3>2. CASE T = S \cup {n}
      BY <3>2, <2>2, <2>4
    <3> QED
      BY <2>3, <3>1, <3>2
  <2> QED
    BY <2>2, <2>5 DEF S, T
<1>12. Apart(c)'
  BY <1>6 DEF Apart
<1>13. OwedOnce(c)'
  <2>1. \A q, r \in Request : (q # r /\ Owes(q, c)' /\ Owes(r, c)') => req'[q].msg # req'[r].msg
    BY <1>7 DEF CountsAt, OwedOnce
  <2>2. \A u \in Person : Owed(c, u)' \subseteq UnreadOf(c, u)'
    BY <1>5, <1>8 DEF CountsAt, OwedOnce
  <2> QED
    BY <2>1, <2>2 DEF OwedOnce
<1>14. NeverAbove(c)'
  <2>1. \A u \in Person : convs[c].unreadCount[u] <= Cardinality(Counted(c, u))
    BY <1>6 DEF CountsAt, NeverAbove
  <2>2. ASSUME NEW u \in Person
        PROVE  convs'[c].unreadCount[u] <= Cardinality(Counted(c, u)')
    <3>1. CASE u = v
      BY <3>1, <2>1, <1>4, <1>10, <1>2
    <3>2. CASE u # v
      BY <3>2, <2>1, <1>4, <1>9
    <3> QED
      BY <3>1, <3>2
  <2> QED
    BY <2>2 DEF NeverAbove
<1>15. NeverBelow(c)'
  <2> SUFFICES ASSUME Cardinality(MessagesOf(c)) <= PageSize, NEW u \in Person
               PROVE  Cardinality(Counted(c, u)' \cap Visible(c)) <= convs'[c].unreadCount[u]
    BY <1>5, <1>6 DEF NeverBelow
  <2>1. Cardinality(Counted(c, u) \cap Visible(c)) <= convs[c].unreadCount[u]
    BY DEF CountsAt, NeverBelow
  <2>2. CASE u = v
    BY <2>1, <2>2, <1>4, <1>11
  <2>3. CASE u # v
    BY <2>1, <2>3, <1>4, <1>9
  <2> QED
    BY <2>2, <2>3
<1> QED
  BY <1>12, <1>13, <1>14, <1>15 DEF CountsAt

\* A reader takes a page; when it holds every message, nothing is left outside.
LEMMA CountsPaged ==
    ASSUME ChatTypeOK, SlotsKnown, NEW c \in Opened, CountsAt(c),
           NEW p \in Request, ReadPage(p), <<c, "count">> \notin disturbed'
    PROVE  CountsAt(c)'
<1>t. /\ req \in [Request -> ChatRequest] /\ Len(msgs) \in Nat /\ req[p].at = "idle"
      /\ PageSize \in Nat
      /\ Sending' = Sending /\ Reading' = Reading /\ Owing' = Owing
  BY ChatAssumption DEF ChatTypeOK, ReadPage, At, Sending, Reading, Owing
<1>1. PICK d \in Opened : \E u \in Participants(d) :
         /\ LET ids == FirstPage(d, PageSize) \cap UnreadOf(d, u)
            IN Goto(p, [at |-> IF ids = {} THEN "readReset" ELSE "readMark",
                        subject |-> d, reader |-> u, ids |-> ids])
         /\ disturbed' = disturbed \cup {<<d, "count">> : q \in Doing(Sending, d)}
  BY DEF ReadPage
<1>2. PICK u \in Participants(d) :
         /\ LET ids == FirstPage(d, PageSize) \cap UnreadOf(d, u)
            IN Goto(p, [at |-> IF ids = {} THEN "readReset" ELSE "readMark",
                        subject |-> d, reader |-> u, ids |-> ids])
         /\ disturbed' = disturbed \cup {<<d, "count">> : q \in Doing(Sending, d)}
  BY <1>1
<1> DEFINE ids == FirstPage(d, PageSize) \cap UnreadOf(d, u)
           x == [at |-> IF ids = {} THEN "readReset" ELSE "readMark",
                 subject |-> d, reader |-> u, ids |-> ids]
<1>3. Goto(p, x)
  BY <1>2
<1>4. UNCHANGED <<convs, msgs>>
  BY DEF ReadPage
<1>5. ~Reads(p, c) /\ ~Sends(p, c) /\ ~Owes(p, c)
  BY <1>t DEF Reads, Sends, Owes, Reading, Sending, Owing
<1>6. /\ x.at \in Reading /\ x.at \notin Sending /\ x.at \notin Owing
      /\ x.subject = d /\ x.reader = u
      /\ (x.at = "readMark" => x.ids = ids)
      /\ (x.at # "readMark" => ids = {})
  BY DEF Reading, Sending, Owing
<1>7. /\ MessagesOf(c)' = MessagesOf(c) /\ Visible(c)' = Visible(c)
      /\ \A v : UnreadOf(c, v)' = UnreadOf(c, v)
  BY <1>4 DEF MessagesOf, Visible, UnreadOf
<1>8. CASE d # c
  <2> HIDE DEF x
  <2>1. \A q \in Request : Aside(q, c)
    BY <1>3, <1>5, <1>6, <1>8, StepsAside
  <2> QED
    BY <2>1, <1>4, <1>7, CountFrame
<1>9. CASE d = c
  <2> HIDE DEF x, ids
  <2>1. req'[p] = x /\ \A q \in Request \ {p} : req'[q] = req[q]
    BY <1>3, <1>t, ChatSlots
  <2>2. \A q \in Request : ~Sends(q, c)
    BY <1>2, <1>9 DEF Sends, Doing
  <2>3. \A q \in Request : ~Sends(q, c)'
    BY <2>1, <2>2, <1>6, <1>t DEF Sends
  <2>4. \A q \in Request : ~Owes(q, c) /\ ~Owes(q, c)'
    BY <2>2, <2>3, <1>t DEF Owes, Sends, Owing, Sending
  <2>5. \A v : Owed(c, v) = {} /\ Owed(c, v)' = {}
    BY <2>4 DEF Owed
  <2>6. \A v : Counted(c, v)' = Counted(c, v)
    BY <2>5, <1>7 DEF Counted
  <2>7. \A v : Resets(c, v) => Resets(c, v)'
    <3>1. \A q \in Request : Reads(q, c) => (Reads(q, c)' /\ req'[q] = req[q])
      BY <2>1, <1>5, <1>t DEF Reads
    <3> QED
      BY <3>1 DEF Resets
  <2>8. Apart(c)'
    BY <2>3 DEF Apart
  <2>9. OwedOnce(c)'
    BY <2>4, <2>5 DEF OwedOnce
  <2>10. NeverAbove(c)'
    BY <2>6, <2>7, <1>4 DEF CountsAt, NeverAbove
  <2>11. NeverBelow(c)'
    <3> SUFFICES ASSUME Cardinality(MessagesOf(c)) <= PageSize
                 PROVE  /\ \A v \in Person :
                              Cardinality(Counted(c, v) \cap Visible(c)) <= convs[c].unreadCount[v]
                        /\ \A q \in Request : Reads(q, c)' => MarksAll(q, c)'
      BY <2>6, <1>4, <1>7 DEF NeverBelow
    <3>1. FirstPage(c, PageSize) = Visible(c)
      <4> SUFFICES ASSUME NEW i \in Visible(c)
                   PROVE  Cardinality({j \in Visible(c) : j > i}) < PageSize
        BY DEF FirstPage
      <4> DEFINE M == MessagesOf(c)
                 S == M \ {i}
                 T == {j \in Visible(c) : j > i}
      <4>1. i \in M /\ i \in Nat
        BY DEF Visible, MessagesOf
      <4>2. IsFiniteSet(M) /\ Cardinality(M) \in Nat
        BY <1>t, MessagesFinite
      <4>3. Cardinality(S) = Cardinality(M) - 1
        BY <4>1, <4>2, FS_RemoveElement
      <4>4. S \in SUBSET MessagesOf(c) /\ T \in SUBSET S
        BY <4>1 DEF Visible, MessagesOf
      <4>5. Cardinality(T) \in Nat /\ Cardinality(T) <= Cardinality(S)
        BY <4>4, <1>t, MessagesFinite
      <4>6. Cardinality(M) <= PageSize
        OBVIOUS
      <4> HIDE DEF M, S, T
      <4>7. Cardinality(T) < PageSize
        BY <4>2, <4>3, <4>5, <4>6, <1>t
      <4> QED
        BY <4>7 DEF T
    <3>2. UnreadOf(c, u) \cap Visible(c) \subseteq ids
      BY <3>1, <1>9 DEF ids
    <3>3. MarksAll(p, c)'
      BY <3>2, <2>1, <1>6, <1>7 DEF MarksAll
    <3>4. ASSUME NEW q \in Request \ {p}, Reads(q, c)'
          PROVE  MarksAll(q, c)'
      <4>1. Reads(q, c) /\ req'[q] = req[q]
        BY <3>4, <2>1, <1>t DEF Reads
      <4>2. MarksAll(q, c)
        BY <4>1 DEF CountsAt, NeverBelow
      <4> QED
        BY <4>1, <4>2, <1>7 DEF MarksAll
    <3>5. \A v \in Person : Cardinality(Counted(c, v) \cap Visible(c)) <= convs[c].unreadCount[v]
      BY DEF CountsAt, NeverBelow
    <3> QED
      BY <3>3, <3>4, <3>5
  <2> QED
    BY <2>8, <2>9, <2>10, <2>11 DEF CountsAt
<1> QED
  BY <1>8, <1>9

\* A reader marks its page.
LEMMA CountsMarked ==
    ASSUME ChatTypeOK, SlotsKnown, PagesFiled, NEW c \in Opened, CountsAt(c),
           NEW p \in Request, ReadMark(p), req[p].subject = c
    PROVE  CountsAt(c)'
<1>t. /\ req \in [Request -> ChatRequest] /\ req[p] \in ChatRequest /\ req[p].at = "readMark"
      /\ msgs \in Seq(Message) /\ Len(msgs) \in Nat
      /\ Sending' = Sending /\ Reading' = Reading /\ Owing' = Owing
  BY DEF ChatTypeOK, ReadMark, At, Sending, Reading, Owing
<1>1. PICK u, ids : u = req[p].reader /\ ids = req[p].ids
  OBVIOUS
<1>2. /\ req'[p].at = "readReset" /\ req'[p].subject = c /\ req'[p].reader = u
      /\ \A q \in Request \ {p} : req'[q] = req[q]
  <2>1. Goto(p, [at |-> "readReset", subject |-> req[p].subject, reader |-> req[p].reader,
                 ids |-> req[p].ids])
    BY ReaderMoves
  <2> QED
    BY <2>1, <1>1, <1>t, ChatSlots
<1>3. \A i \in ids : i \in MessagesOf(c) /\ msgs[i].to = u
  BY <1>1, <1>t DEF PagesFiled, Reading
<1>4. /\ UNCHANGED convs /\ Len(msgs') = Len(msgs)
      /\ \A i \in 1..Len(msgs) :
            /\ msgs'[i].conv = msgs[i].conv /\ msgs'[i].to = msgs[i].to
            /\ msgs'[i].isDeleted = msgs[i].isDeleted
            /\ msgs'[i].status = IF i \in ids THEN "read" ELSE msgs[i].status
  <2>1. "read" \in MessageStatus /\ SetStatus(ids, "read") /\ UNCHANGED convs
    BY <1>1 DEF ReadMark, MessageStatus
  <2> QED
    BY <2>1, <1>t, StatusSet
<1>5. MessagesOf(c)' = MessagesOf(c) /\ Visible(c)' = Visible(c)
  <2>1. MessagesOf(c)' = MessagesOf(c)
    BY <1>4 DEF MessagesOf
  <2> QED
    BY <2>1, <1>4 DEF Visible, MessagesOf
<1>6. \A v : UnreadOf(c, v)' = UnreadOf(c, v) \ ids
  BY <1>4, <1>5 DEF UnreadOf, MessagesOf
<1>7. \A v : v # u => UnreadOf(c, v)' = UnreadOf(c, v)
  BY <1>3, <1>6 DEF UnreadOf
<1>8. Reads(p, c) /\ Reads(p, c)' /\ Resets(c, u)'
  <2>1. Reads(p, c) /\ Reads(p, c)'
    BY <1>2, <1>t DEF Reads, Reading
  <2> QED
    BY <2>1, <1>2 DEF Resets
<1>9. \A q \in Request : ~Sends(q, c) /\ ~Sends(q, c)'
  <2>1. \A q \in Request : ~Sends(q, c)
    BY <1>8 DEF CountsAt, Apart
  <2> QED
    BY <2>1, <1>2, <1>t DEF Sends, Sending
<1>10. \A q \in Request : ~Owes(q, c) /\ ~Owes(q, c)'
  BY <1>9, <1>t DEF Owes, Sends, Owing, Sending
<1>11. \A v : Owed(c, v) = {} /\ Owed(c, v)' = {}
  BY <1>10 DEF Owed
<1>12. /\ \A v : Counted(c, v)' = Counted(c, v) \ ids
       /\ \A v : v # u => Counted(c, v)' = Counted(c, v)
  BY <1>6, <1>7, <1>11 DEF Counted
<1>13. \A q \in Request \ {p} : (Reads(q, c)' <=> Reads(q, c)) /\ req'[q] = req[q]
  BY <1>2, <1>t DEF Reads
<1>14. \A v : Resets(c, v) => Resets(c, v)'
  BY <1>8, <1>13, <1>t DEF Resets
<1>15. Apart(c)'
  BY <1>9 DEF Apart
<1>16. OwedOnce(c)'
  BY <1>10, <1>11 DEF OwedOnce
<1>17. NeverAbove(c)'
  <2> SUFFICES ASSUME NEW v \in Person
               PROVE  convs[c].unreadCount[v] <= Cardinality(Counted(c, v)') \/ Resets(c, v)'
    BY <1>4 DEF NeverAbove
  <2>1. CASE v = u
    BY <2>1, <1>8
  <2>2. CASE v # u
    BY <2>2, <1>12, <1>14 DEF CountsAt, NeverAbove
  <2> QED
    BY <2>1, <2>2
<1>18. NeverBelow(c)'
  <2> SUFFICES ASSUME Cardinality(MessagesOf(c)) <= PageSize
               PROVE  /\ \A v \in Person :
                            Cardinality(Counted(c, v)' \cap Visible(c)) <= convs[c].unreadCount[v]
                      /\ \A q \in Request : Reads(q, c)' => MarksAll(q, c)'
    BY <1>4, <1>5 DEF NeverBelow
  <2>1. ASSUME NEW v \in Person
        PROVE  Cardinality(Counted(c, v)' \cap Visible(c)) <= convs[c].unreadCount[v]
    <3> DEFINE S == Counted(c, v) \cap Visible(c)
               T == Counted(c, v)' \cap Visible(c)
    <3>1. S \in SUBSET MessagesOf(c) /\ T \in SUBSET S
      BY <1>12, CountsOverMessages
    <3>2. Cardinality(T) \in Nat /\ Cardinality(S) \in Nat /\ Cardinality(T) <= Cardinality(S)
      BY <3>1, <1>t, MessagesFinite
    <3>3. Cardinality(S) <= convs[c].unreadCount[v] /\ convs[c].unreadCount[v] \in Nat
      BY OpenedProps, ConversationProps DEF CountsAt, NeverBelow
    <3> HIDE DEF S, T
    <3>4. Cardinality(T) <= convs[c].unreadCount[v]
      BY <3>2, <3>3
    <3> QED
      BY <3>4 DEF T
  <2>2. MarksAll(p, c)'
    <3>1. UnreadOf(c, u) \cap Visible(c) \subseteq ids
      BY <1>1, <1>8, <1>t DEF CountsAt, NeverBelow, MarksAll
    <3>2. UnreadOf(c, u)' \cap Visible(c) = {}
      BY <3>1, <1>6
    <3> QED
      BY <3>2, <1>2, <1>5 DEF MarksAll
  <2>3. ASSUME NEW q \in Request \ {p}, Reads(q, c)'
        PROVE  MarksAll(q, c)'
    <3>1. Reads(q, c) /\ req'[q] = req[q]
      BY <2>3, <1>13
    <3>2. MarksAll(q, c)
      BY <3>1 DEF CountsAt, NeverBelow
    <3> QED
      BY <3>1, <3>2, <1>5, <1>6 DEF MarksAll
  <2> QED
    BY <2>1, <2>2, <2>3
<1> QED
  BY <1>15, <1>16, <1>17, <1>18 DEF CountsAt

\* The whole counter is reset, and nothing on the page is unread.
LEMMA CountsReset ==
    ASSUME ChatTypeOK, SlotsKnown, NEW c \in Opened, CountsAt(c),
           NEW p \in Request, ReadReset(p), req[p].subject = c
    PROVE  CountsAt(c)'
<1>t. /\ req \in [Request -> ChatRequest] /\ req[p] \in ChatRequest /\ req[p].at = "readReset"
      /\ Len(msgs) \in Nat
      /\ Sending' = Sending /\ Reading' = Reading /\ Owing' = Owing
  BY DEF ChatTypeOK, ReadReset, At, Sending, Reading, Owing
<1>1. PICK u \in Person : u = req[p].reader
  BY <1>t, ChatLocals DEF Reading
<1>2. req'[p] = Idle /\ \A q \in Request \ {p} : req'[q] = req[q]
  BY <1>t, ChatSlots DEF ReadReset, Done
<1>3. /\ UNCHANGED msgs
      /\ \A v \in Person : convs'[c].unreadCount[v] =
            IF v = u THEN 0 ELSE convs[c].unreadCount[v]
  <2>1. MessageStep(p) /\ UNCHANGED msgs
    BY DEF MessageStep, ReadStep, ReadReset
  <2>2. ~SendCount(p)
    BY <1>t DEF SendCount, At
  <2> QED
    BY <2>1, <2>2, <1>1, CountsWritten
<1>4. /\ MessagesOf(c)' = MessagesOf(c) /\ Visible(c)' = Visible(c)
      /\ \A v : UnreadOf(c, v)' = UnreadOf(c, v)
  BY <1>3 DEF MessagesOf, Visible, UnreadOf
<1>5. Reads(p, c) /\ ~Reads(p, c)'
  BY <1>2, <1>t DEF Reads, Reading, Idle
<1>6. \A q \in Request : ~Sends(q, c) /\ ~Sends(q, c)'
  <2>1. \A q \in Request : ~Sends(q, c)
    BY <1>5 DEF CountsAt, Apart
  <2> QED
    BY <2>1, <1>2, <1>t DEF Sends, Sending, Idle
<1>7. \A q \in Request : ~Owes(q, c) /\ ~Owes(q, c)'
  BY <1>6, <1>t DEF Owes, Sends, Owing, Sending
<1>8. \A v : Owed(c, v) = {} /\ Owed(c, v)' = {}
  BY <1>7 DEF Owed
<1>9. \A v : Counted(c, v)' = Counted(c, v)
  BY <1>4, <1>8 DEF Counted
<1>10. \A q \in Request \ {p} : (Reads(q, c)' <=> Reads(q, c)) /\ req'[q] = req[q]
  BY <1>2, <1>t DEF Reads
<1>11. \A v : (v # u /\ Resets(c, v)) => Resets(c, v)'
  BY <1>1, <1>10 DEF Resets
<1>12. Apart(c)'
  BY <1>6 DEF Apart
<1>13. OwedOnce(c)'
  BY <1>7, <1>8 DEF OwedOnce
<1>14. NeverAbove(c)'
  <2> SUFFICES ASSUME NEW v \in Person
               PROVE  convs'[c].unreadCount[v] <= Cardinality(Counted(c, v)) \/ Resets(c, v)'
    BY <1>9 DEF NeverAbove
  <2>1. CASE v = u
    <3>1. Counted(c, v) \in SUBSET MessagesOf(c)
      BY CountsOverMessages
    <3>2. Cardinality(Counted(c, v)) \in Nat
      BY <3>1, <1>t, MessagesFinite
    <3> QED
      BY <2>1, <3>2, <1>3
  <2>2. CASE v # u
    BY <2>2, <1>3, <1>11 DEF CountsAt, NeverAbove
  <2> QED
    BY <2>1, <2>2
<1>15. NeverBelow(c)'
  <2> SUFFICES ASSUME Cardinality(MessagesOf(c)) <= PageSize
               PROVE  /\ \A v \in Person :
                            Cardinality(Counted(c, v) \cap Visible(c)) <= convs'[c].unreadCount[v]
                      /\ \A q \in Request : Reads(q, c)' => MarksAll(q, c)'
    BY <1>4, <1>9 DEF NeverBelow
  <2>1. ASSUME NEW v \in Person
        PROVE  Cardinality(Counted(c, v) \cap Visible(c)) <= convs'[c].unreadCount[v]
    <3>1. CASE v = u
      <4>1. UnreadOf(c, u) \cap Visible(c) = {}
        BY <1>1, <1>5, <1>t DEF CountsAt, NeverBelow, MarksAll
      <4>2. Counted(c, u) \cap Visible(c) = {}
        BY <4>1 DEF Counted
      <4>3. Cardinality({}) = 0
        BY FS_EmptySet
      <4> QED
        BY <3>1, <4>2, <4>3, <1>3
    <3>2. CASE v # u
      BY <3>2, <1>3 DEF CountsAt, NeverBelow
    <3> QED
      BY <3>1, <3>2
  <2>2. ASSUME NEW q \in Request, Reads(q, c)'
        PROVE  MarksAll(q, c)'
    <3>1. Reads(q, c) /\ req'[q] = req[q]
      BY <2>2, <1>5, <1>10
    <3>2. MarksAll(q, c)
      BY <3>1 DEF CountsAt, NeverBelow
    <3> QED
      BY <3>1, <3>2, <1>4 DEF MarksAll
  <2> QED
    BY <2>1, <2>2
<1> QED
  BY <1>12, <1>13, <1>14, <1>15 DEF CountsAt

\* A conversation just opened has neither messages nor counts.
LEMMA CountsOpened ==
    ASSUME ChatTypeOK, SlotsKnown, MessagesFiled, NEW p \in Request, OpenInsert(p),
           NEW c \in Opened' \ Opened
    PROVE  CountsAt(c)'
<1>t. /\ req \in [Request -> ChatRequest] /\ convs \in [Conv -> Conversation \cup {NoConv}]
      /\ req[p] \in ChatRequest /\ req[p].at = "openInsert"
      /\ Sending' = Sending /\ Reading' = Reading /\ Owing' = Owing
  BY DEF ChatTypeOK, OpenInsert, At, Sending, Reading, Owing
<1>1. PICK d \in Conv \ Opened : convs' = [convs EXCEPT ![d] = NewConversation(req[p].subject)]
  BY DEF OpenInsert
<1>2. \A e \in Conv \ {d} : convs'[e] = convs[e]
  BY <1>1, <1>t
<1>3. c = d
  BY <1>2 DEF Opened
<1>4. \A u \in Person : convs'[c].unreadCount[u] = 0
  BY <1>1, <1>3, <1>t DEF NewConversation
<1>5. MessagesOf(c)' = {}
  BY DEF MessagesFiled, MessagesOf, OpenInsert
<1>6. req'[p] = Idle /\ \A q \in Request \ {p} : req'[q] = req[q]
  BY <1>t, ChatSlots DEF OpenInsert, Done
<1>7. \A q \in Request : ~Sends(q, c)' /\ ~Reads(q, c)' /\ ~Owes(q, c)'
  <2>1. \A q \in Request : req[q].at \in Sending \cup Reading => req[q].subject # c
    BY DEF SlotsKnown, Known
  <2> QED
    BY <2>1, <1>6, <1>t DEF Sends, Reads, Owes, Sending, Reading, Owing, Idle
<1>8. \A u : Counted(c, u)' = {} /\ Owed(c, u)' = {}
  BY <1>5 DEF Counted, UnreadOf, Owed
<1>9. Cardinality({}) = 0
  BY FS_EmptySet
<1>10. Apart(c)' /\ OwedOnce(c)'
  BY <1>7, <1>8 DEF Apart, OwedOnce
<1>11. NeverAbove(c)'
  BY <1>4, <1>8, <1>9 DEF NeverAbove
<1>12. NeverBelow(c)'
  <2>1. \A u : Counted(c, u)' \cap Visible(c)' = {}
    BY <1>8
  <2> QED
    BY <2>1, <1>4, <1>7, <1>9 DEF NeverBelow
<1> QED
  BY <1>10, <1>11, <1>12 DEF CountsAt

\* A step with a slot, for a conversation whose counters stay undisturbed.
LEMMA CountsStep ==
    ASSUME ChatTypeOK, SlotsKnown, PagesFiled, NEW p \in Request, MessageStep(p),
           NEW c \in Opened, CountsAt(c), <<c, "count">> \notin disturbed'
    PROVE  CountsAt(c)'
<1>t. req \in [Request -> ChatRequest] /\ msgs \in Seq(Message) /\ Len(msgs) \in Nat
  BY DEF ChatTypeOK
<1>n. [ChatNext]_chatVars
  BY DEF ChatNext
<1>s. Owing \subseteq Sending /\ Owing \subseteq Filed /\ Sending \cap Reading = {}
  BY DEF Owing, Sending, Filed, Reading
<1>k. ASSUME ~(c = req[p].subject /\ (SendCount(p) \/ ReadReset(p))),
             ~(c = req[p].subject /\ (SendCreate(p) \/ ReadMark(p))),
             NEW x, Goto(p, x), ~Reads(p, c), ~(x.at \in Reading /\ x.subject = c),
             (x.at \in Sending /\ x.subject = c) =>
                 (Sends(p, c) \/ \A q \in Request : ~Reads(q, c)),
             (x.at \in Owing /\ x.subject = c) <=> Owes(p, c),
             Owes(p, c) => x.msg = req[p].msg
      PROVE  CountsAt(c)'
  <2>1. \A q \in Request : Aside(q, c)
    BY <1>k, StepsAside
  <2>2. convs'[c].unreadCount = convs[c].unreadCount
    BY <1>k, CountsWritten
  <2>3. /\ MessagesOf(c)' = MessagesOf(c)
        /\ \A i \in MessagesOf(c) : /\ msgs'[i].to = msgs[i].to
                                    /\ (msgs'[i].status = "read" <=> msgs[i].status = "read")
                                    /\ (msgs[i].isDeleted => msgs'[i].isDeleted)
    <3>1. CASE SendCreate(p)
      <4>1. /\ Len(msgs') = Len(msgs) + 1
            /\ \A i \in 1..Len(msgs) : msgs'[i] = msgs[i]
            /\ msgs'[Len(msgs) + 1].conv # c
        BY <3>1, <1>k, MessageFiled
      <4> QED
        BY <4>1, <1>t DEF MessagesOf
    <3>2. CASE ReadMark(p)
      <4>1. /\ "read" \in MessageStatus /\ SetStatus(req[p].ids, "read")
            /\ req[p].at \in Reading /\ req[p].subject # c
        BY <3>2, <1>k DEF ReadMark, MessageStatus, At, Reading
      <4>2. \A i \in req[p].ids : i \notin MessagesOf(c)
        BY <4>1 DEF PagesFiled, MessagesOf
      <4>3. /\ Len(msgs') = Len(msgs)
            /\ \A i \in 1..Len(msgs) :
                  /\ msgs'[i].conv = msgs[i].conv /\ msgs'[i].to = msgs[i].to
                  /\ msgs'[i].isDeleted = msgs[i].isDeleted
                  /\ msgs'[i].status = IF i \in req[p].ids THEN "read" ELSE msgs[i].status
        BY <4>1, <1>t, StatusSet
      <4> QED
        BY <4>2, <4>3 DEF MessagesOf
    <3>3. CASE UNCHANGED msgs
      BY <3>3 DEF MessagesOf
    <3>4. CASE JoinMark(p)
      <4> DEFINE marked == {i \in req[p].ids : msgs[i].status = "sent"}
      <4>1. "delivered" \in MessageStatus /\ SetStatus(marked, "delivered")
        BY <3>4 DEF JoinMark, MarkAsDelivered, MessageStatus
      <4>2. \A i \in marked : msgs[i].status = "sent"
        OBVIOUS
      <4> HIDE DEF marked
      <4>3. /\ Len(msgs') = Len(msgs)
            /\ \A i \in 1..Len(msgs) :
                  /\ msgs'[i].conv = msgs[i].conv /\ msgs'[i].to = msgs[i].to
                  /\ msgs'[i].isDeleted = msgs[i].isDeleted
                  /\ (msgs'[i].status = "read" <=> msgs[i].status = "read")
        BY <4>1, <4>2, <1>t, StatusSet
      <4> QED
        BY <4>3 DEF MessagesOf
    <3> QED
      BY <3>1, <3>2, <3>3, <3>4
         DEF MessageStep, OpenStep, SendStep, ReadStep, OpenFind, OpenAgain, OpenInsert, SendStart,
             SendLast, SendCount, SendNotify, ReadPage, ReadReset, JoinPage, RequestFails
  <2> QED
    BY <2>1, <2>2, <2>3, CountFrame
<1>i. Idle.at \notin Sending /\ Idle.at \notin Reading /\ Idle.at \notin Owing
  BY DEF Idle, Sending, Reading, Owing
<1>1. CASE OpenStep(p) \/ JoinPage(p) \/ JoinMark(p)
  <2>1. PICK x : Goto(p, x) /\ x.at \notin Sending \cup Reading
    BY <1>1, QuietSteps
  <2>2. req[p].at \notin Sending \cup Reading
    BY <1>1, QuietSteps
  <2>3. ~SendCount(p) /\ ~ReadReset(p) /\ ~SendCreate(p) /\ ~ReadMark(p)
    BY <2>2 DEF SendCount, ReadReset, SendCreate, ReadMark, At, Sending, Reading
  <2>4. ~Reads(p, c) /\ ~Owes(p, c) /\ x.at \notin Owing
    BY <2>1, <2>2, <1>s DEF Reads, Owes
  <2> QED
    BY <2>1, <2>3, <2>4, <1>k
<1>2. CASE RequestFails(p)
  <2>1. Goto(p, Idle) /\ ~At(p, "idle")
    BY <1>2 DEF RequestFails, Done
  <2>2. ~Sends(p, c) /\ ~Reads(p, c)
    BY <1>2 DEF RequestFails, Sends, Reads
  <2>3. ~Owes(p, c)
    BY <2>2, <1>s DEF Owes, Sends
  <2>4. ~(c = req[p].subject /\ (SendCount(p) \/ ReadReset(p) \/ SendCreate(p) \/ ReadMark(p)))
    BY <2>2 DEF SendCount, ReadReset, SendCreate, ReadMark, At, Sends, Reads, Sending, Reading
  <2> QED
    BY <2>1, <2>2, <2>3, <2>4, <1>i, <1>k
<1>3. CASE SendStart(p)
  <2>1. PICK d \in Opened, u \in Person :
           /\ Goto(p, [at |-> "sendCreate", subject |-> d, from |-> u])
           /\ disturbed' = disturbed
                  \cup {<<d, "last">> : q \in Doing(Sending, d)}
                  \cup {<<d, "count">> : q \in Doing(Reading, d)}
    BY <1>3, OpenedProps DEF SendStart
  <2> DEFINE x == [at |-> "sendCreate", subject |-> d, from |-> u]
  <2>2. /\ Goto(p, x) /\ x.at \notin Reading /\ x.at \notin Owing /\ x.subject = d
    BY <2>1 DEF Reading, Owing
  <2>3. d = c => \A q \in Request : ~Reads(q, c)
    BY <2>1 DEF Doing, Reads
  <2>4. req[p].at = "idle"
    BY <1>3 DEF SendStart, At
  <2>5. ~Reads(p, c) /\ ~Owes(p, c)
    BY <2>4 DEF Reads, Owes, Reading, Owing
  <2>6. ~SendCount(p) /\ ~ReadReset(p) /\ ~SendCreate(p) /\ ~ReadMark(p)
    BY <2>4 DEF SendCount, ReadReset, SendCreate, ReadMark, At
  <2> HIDE DEF x
  <2> QED
    BY <2>2, <2>3, <2>5, <2>6, <1>k
<1>4. CASE SendCreate(p)
  <2>1. CASE req[p].subject = c
    BY <1>4, <2>1, CountsCreated
  <2>2. CASE req[p].subject # c
    <3> DEFINE x == [at |-> "sendLast", subject |-> req[p].subject, from |-> req[p].from,
                     msg |-> Len(msgs) + 1]
    <3>1. Goto(p, x)
      BY <1>4, MessageFiled
    <3>2. x.subject # c /\ ~Reads(p, c) /\ ~Owes(p, c)
      BY <2>2 DEF Reads, Owes
    <3> HIDE DEF x
    <3> QED
      BY <2>2, <3>1, <3>2, <1>k
  <2> QED
    BY <2>1, <2>2
<1>5. CASE SendLast(p)
  <2> DEFINE x == [at |-> "sendCount", subject |-> req[p].subject, from |-> req[p].from,
                   msg |-> req[p].msg]
  <2>1. Goto(p, x)
    BY <1>5, FiledMoves
  <2>2. req[p].at = "sendLast"
    BY <1>5 DEF SendLast, At
  <2>3. /\ x.at \in Sending /\ x.at \in Owing /\ x.at \notin Reading
        /\ x.subject = req[p].subject /\ x.msg = req[p].msg
    BY DEF Sending, Owing, Reading
  <2>4. ~Reads(p, c) /\ (Owes(p, c) <=> req[p].subject = c) /\ (Sends(p, c) <=> req[p].subject = c)
    BY <2>2 DEF Reads, Owes, Sends, Sending, Owing, Reading
  <2>5. ~SendCount(p) /\ ~ReadReset(p) /\ ~SendCreate(p) /\ ~ReadMark(p)
    BY <2>2 DEF SendCount, ReadReset, SendCreate, ReadMark, At
  <2> HIDE DEF x
  <2> QED
    BY <2>1, <2>3, <2>4, <2>5, <1>k
<1>6. CASE SendCount(p)
  <2>1. CASE req[p].subject = c
    BY <1>6, <2>1, CountsRaised
  <2>2. CASE req[p].subject # c
    <3> DEFINE x == [at |-> "sendNotify", subject |-> req[p].subject, from |-> req[p].from,
                     msg |-> req[p].msg]
    <3>1. ~SendLast(p)
      BY <1>6 DEF SendLast, SendCount, At
    <3>2. Goto(p, x)
      BY <1>6, <3>1, FiledMoves
    <3>3. x.subject # c /\ ~Reads(p, c) /\ ~Owes(p, c)
      BY <2>2 DEF Reads, Owes
    <3> HIDE DEF x
    <3> QED
      BY <2>2, <3>2, <3>3, <1>k
  <2> QED
    BY <2>1, <2>2
<1>7. CASE SendNotify(p)
  <2>1. Goto(p, Idle) /\ req[p].at = "sendNotify"
    BY <1>7 DEF SendNotify, Done, At
  <2>2. ~Reads(p, c) /\ ~Owes(p, c)
    BY <2>1 DEF Reads, Owes, Reading, Owing
  <2>3. ~SendCount(p) /\ ~ReadReset(p) /\ ~SendCreate(p) /\ ~ReadMark(p)
    BY <2>1 DEF SendCount, ReadReset, SendCreate, ReadMark, At
  <2> QED
    BY <2>1, <2>2, <2>3, <1>i, <1>k
<1>8. CASE ReadPage(p)
  BY <1>8, CountsPaged
<1>9. CASE ReadMark(p)
  <2>1. CASE req[p].subject = c
    BY <1>9, <2>1, CountsMarked
  <2>2. CASE req[p].subject # c
    <3> DEFINE x == [at |-> "readReset", subject |-> req[p].subject, reader |-> req[p].reader,
                     ids |-> req[p].ids]
    <3>1. Goto(p, x)
      BY <1>9, ReaderMoves
    <3>2. x.subject # c /\ ~Reads(p, c) /\ ~Owes(p, c)
      BY <2>2 DEF Reads, Owes
    <3> HIDE DEF x
    <3> QED
      BY <2>2, <3>1, <3>2, <1>k
  <2> QED
    BY <2>1, <2>2
<1>10. CASE ReadReset(p)
  <2>1. CASE req[p].subject = c
    BY <1>10, <2>1, CountsReset
  <2>2. CASE req[p].subject # c
    <3>1. Goto(p, Idle)
      BY <1>10 DEF ReadReset, Done
    <3>2. ~Reads(p, c) /\ ~Owes(p, c)
      BY <2>2 DEF Reads, Owes
    <3> QED
      BY <2>2, <3>1, <3>2, <1>i, <1>k
  <2> QED
    BY <2>1, <2>2
<1> QED
  BY <1>1, <1>2, <1>3, <1>4, <1>5, <1>6, <1>7, <1>8, <1>9, <1>10 DEF MessageStep, SendStep, ReadStep

LEMMA CountsKept ==
    ASSUME ChatTypeOK, SlotsKnown, MessagesFiled, PagesFiled, CountInv, [ChatNext]_chatVars
    PROVE  CountInv'
<1> SUFFICES ASSUME NEW c \in Opened', <<c, "count">> \notin disturbed'
             PROVE  CountsAt(c)'
  BY DEF CountInv
<1>1. CASE c \notin Opened
  <2>1. \E p \in Request : OpenInsert(p)
    <3>1. ~\E p \in Request : SendLast(p) \/ SendCount(p) \/ ReadReset(p)
      BY <1>1, HeaderWrites
    <3>2. ~UNCHANGED convs
      BY <1>1 DEF Opened
    <3> QED
      BY <3>1, <3>2, ConvsKept
  <2> QED
    BY <1>1, <2>1, CountsOpened
<1>2. CASE c \in Opened
  <2>1. disturbed \subseteq disturbed'
    BY DEF ChatNext, MessageStep, OpenStep, SendStep, ReadStep, OpenFind, OpenAgain, OpenInsert,
           SendStart, SendCreate, SendLast, SendCount, SendNotify, ReadPage, ReadMark, ReadReset,
           JoinPage, JoinMark, RequestFails, Acknowledge, Delete, chatVars
  <2>2. CountsAt(c)
    BY <1>2, <2>1 DEF CountInv
  <2>3. CASE \E p \in Request : MessageStep(p)
    BY <1>2, <2>2, <2>3, CountsStep
  <2>4. CASE Acknowledge \/ Delete \/ UNCHANGED chatVars
    <3>1. UNCHANGED <<convs, req>>
      BY <2>4 DEF Acknowledge, Delete, chatVars
    <3>2. \A p \in Request : Aside(p, c)
      BY <3>1 DEF Aside
    <3>3. ~\E p \in Request : SendCreate(p) \/ ReadMark(p)
      <4>1. \A p \in Request : (SendCreate(p) \/ ReadMark(p)) => req'[p] # req[p]
        <5>1. ASSUME NEW p \in Request, SendCreate(p)
              PROVE  req'[p] # req[p]
          <6>1. Goto(p, [at |-> "sendLast", subject |-> req[p].subject, from |-> req[p].from,
                         msg |-> Len(msgs) + 1])
            BY <5>1, MessageFiled
          <6>2. req'[p].at = "sendLast" /\ req[p].at = "sendCreate"
            BY <5>1, <6>1, ChatSlots DEF ChatTypeOK, SendCreate, At
          <6> QED
            BY <6>2
        <5>2. ASSUME NEW p \in Request, ReadMark(p)
              PROVE  req'[p] # req[p]
          <6>1. Goto(p, [at |-> "readReset", subject |-> req[p].subject, reader |-> req[p].reader,
                         ids |-> req[p].ids])
            BY <5>2, ReaderMoves
          <6>2. req'[p].at = "readReset" /\ req[p].at = "readMark"
            BY <5>2, <6>1, ChatSlots DEF ChatTypeOK, ReadMark, At
          <6> QED
            BY <6>2
        <5> QED
          BY <5>1, <5>2
      <4> QED
        BY <3>1, <4>1
    <3>4. /\ Len(msgs') = Len(msgs)
          /\ \A i \in 1..Len(msgs) :
                /\ msgs'[i].conv = msgs[i].conv /\ msgs'[i].to = msgs[i].to
                /\ (msgs[i].isDeleted => msgs'[i].isDeleted)
                /\ (msgs'[i].status = "read" <=> msgs[i].status = "read")
      BY <3>3, MarksGoOn
    <3>5. /\ MessagesOf(c)' = MessagesOf(c)
          /\ \A i \in MessagesOf(c) : /\ msgs'[i].to = msgs[i].to
                                      /\ (msgs'[i].status = "read" <=> msgs[i].status = "read")
                                      /\ (msgs[i].isDeleted => msgs'[i].isDeleted)
      BY <3>4 DEF MessagesOf
    <3> QED
      BY <1>2, <2>2, <3>1, <3>2, <3>5, CountFrame
  <2> QED
    BY <2>3, <2>4 DEF ChatNext
<1> QED
  BY <1>1, <1>2

-----------------------------------------------------------------------------
(***************************************************************************)
(* The inductive invariant, and what chats keep to, for any constants.     *)
(***************************************************************************)

ChatInv ==
    /\ ChatTypeOK
    /\ SlotsKnown
    /\ MessagesFiled
    /\ OpenInv
    /\ LastInv
    /\ PagesFiled
    /\ CountInv

LEMMA ChatStarted == ChatInit => ChatInv
<1> SUFFICES ASSUME ChatInit
             PROVE  ChatInv
  OBVIOUS
<1>1. /\ \A p \in Request : req[p] = Idle
      /\ Idle.at = "idle"
      /\ Len(msgs) = 0 /\ Opened = {}
  BY DEF ChatInit, Idle, Opened
<1>2. ChatTypeOK
  BY ChatStarts DEF ChatInit, ChatTypeOK
<1>3. SlotsKnown /\ MessagesFiled
  BY <1>1 DEF SlotsKnown, Known, MessagesFiled, Sending, Reading, Filed
<1>4. OpenInv
  BY <1>1 DEF OpenInv, OpeningsRecorded, InsertsAlone, OneConversationUnlessRaced, Opening
<1>5. LastInv
  BY <1>1 DEF LastInv, SendsRecorded, NewestCarried, Settled, Sending
<1>6. PagesFiled /\ CountInv
  BY <1>1 DEF PagesFiled, CountInv, Reading
<1> QED
  BY <1>2, <1>3, <1>4, <1>5, <1>6 DEF ChatInv

LEMMA ChatGoesOn ==
    ASSUME ChatInv, [ChatNext]_chatVars
    PROVE  ChatInv'
  BY ChatTypes, OpenKept, LastKept, PagesKept, CountsKept DEF ChatInv

LEMMA ChatAlways == ChatSpec => []ChatInv
  BY ChatStarted, ChatGoesOn, PTL DEF ChatSpec

\* Every conversation, message and request in flight has its type.
THEOREM ChatTypesCorrect == ChatSpec => []ChatTypeOK
  BY ChatAlways, PTL DEF ChatInv

\* Two participants have one conversation about a job, unless both opened it
\* at once, however many requests are in flight.
THEOREM ConversationsAreUnique == ChatSpec => []OneConversationUnlessRaced
  BY ChatAlways, PTL DEF ChatInv, OpenInv

LEMMA SettledIsNewest ==
    ASSUME Settled
    PROVE  LastIsNewestUnlessRaced
<1> SUFFICES ASSUME NEW c \in Opened, Doing(Sending, c) = {}, <<c, "last">> \notin disturbed
             PROVE  SettledAt(c)
  BY DEF LastIsNewestUnlessRaced, SettledAt
<1>1. \A p \in Request : ~Carrying(p, c)
  BY DEF Carrying, Doing, Filed, Sending
<1> QED
  BY <1>1 DEF Settled

\* A conversation at rest, in which no two sends overlapped and none rejected,
\* shows the newest of its messages, and all of them were notified of.
THEOREM LastMessageIsNewest == ChatSpec => []LastIsNewestUnlessRaced
  BY ChatAlways, SettledIsNewest, PTL DEF ChatInv, LastInv

\* At rest a counter is owed nothing and no reader is about to reset it.
LEMMA CountedIsExplained ==
    ASSUME CountInv, ChatTypeOK
    PROVE  UnreadExplained
<1> SUFFICES ASSUME NEW c \in Opened, Doing(Sending \cup Reading, c) = {},
                    <<c, "count">> \notin disturbed, NEW u \in Participants(c)
             PROVE  /\ convs[c].unreadCount[u] <= Cardinality(UnreadOf(c, u))
                    /\ Cardinality(MessagesOf(c)) <= PageSize =>
                           Cardinality(UnreadOf(c, u) \cap Visible(c)) <= convs[c].unreadCount[u]
  BY DEF UnreadExplained
<1>1. \A p \in Request : ~Owes(p, c) /\ ~Reads(p, c)
  BY DEF Doing, Owes, Reads, Owing, Sending
<1>2. Counted(c, u) = UnreadOf(c, u) /\ ~Resets(c, u)
  BY <1>1 DEF Counted, Owed, Resets
<1>3. u \in Person
  BY OpenedProps
<1>4. CountsAt(c)
  BY DEF CountInv
<1>5. NeverAbove(c) /\ NeverBelow(c)
  BY <1>4 DEF CountsAt
<1> QED
  BY <1>2, <1>3, <1>5 DEF NeverAbove, NeverBelow

\* At rest and undisturbed, the unread counters are what the messages say but
\* for the deleted ones, and for what does not fit on a page.
THEOREM CountersAreExplained == ChatSpec => []UnreadExplained
  BY ChatAlways, CountedIsExplained, PTL DEF ChatInv

LEMMA StepTakesNothingBack ==
    ASSUME ChatInv, [ChatNext]_chatVars
    PROVE  \A i \in 1..Len(msgs) :
              /\ Rank[msgs[i].status] <= Rank[msgs'[i].status]
              /\ msgs[i].isDeleted => msgs'[i].isDeleted
  BY MessagesGoOn DEF ChatInv

\* Delivered and read marks, and deletions, are never taken back by a mark
\* that was decided on an older page.
THEOREM MarksAreKept == ChatSpec => NothingTakenBack
  BY ChatAlways, StepTakesNothingBack, PTL DEF ChatSpec, NothingTakenBack
=============================================================================

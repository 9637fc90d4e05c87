---------------------------- MODULE ProfileProofs ----------------------------
(***************************************************************************)
(* Type correctness of Profiles and its four properties, for any keys,     *)
(* lines of a list, forms of a company and number of requests in flight.   *)
(***************************************************************************)
EXTENDS Profiles, SequenceTheorems, TLAPS

Experience == <<"user", "experience">>

Verification == <<"company", "verificationStatus">>

Documents == <<"company", "documents">>

PictureWork == {"pictureRead", "picturePut", "pictureSave", "pictureUnset", "pictureClean"}

ListWork == {"listPut", "listPush", "builtPush", "listClean", "listCut"}

\* Places are told apart by what they are.
LEMMA Places ==
    /\ Documents \in ListSlot
    /\ \A s \in PictureSlot : s \notin ListSlot
    /\ \A s \in Slot : s # Experience /\ s # Verification /\ s \notin {"user"} \X EntryList
    /\ \A s \in {"user"} \X EntryList : s[1] = "user" /\ s[2] \in EntryList /\ s = <<"user", s[2]>>
    /\ Experience \in {"user"} \X EntryList
    /\ Experience # Verification
    /\ Verification \notin {"user"} \X EntryList
    /\ \A s \in ListSlot : s[1] = "company" => s = Documents
  BY DEF Documents, ListSlot, PictureSlot, Slot, Owner, Picture, Experience, Verification, EntryList

-----------------------------------------------------------------------------
(***************************************************************************)
(* Types.                                                                  *)
(***************************************************************************)

\* The locals a slot holds at each await.
LEMMA ProfileLocals ==
    ASSUME NEW r \in ProfileRequest
    PROVE  /\ (r.at \in PictureWork =>
                 r.on \in PictureSlot /\ r.key \in Key \cup {Null} /\ r.old \in Key \cup {Null})
           /\ (r.at \in {"pictureRead", "pictureSave"} => r.key \in Key)
           /\ (r.at = "pictureClean" => r.old \in Key)
           /\ (r.at \in ListWork => r.on \in ListSlot)
           /\ (r.at \in ListWork \ {"listPut"} => r.key \in Key)
           /\ (r.at = "listCut" => r.seen \in SUBSET Key)
           /\ (r.at \in Editing =>
                 r.on \in {"user"} \X EntryList /\ r.index \in Nat /\ r.seen \in Seq(Line))
           /\ (r.at \in {"entryPush", "entrySet"} => r.entry \in Entry)
           /\ (r.at \in Judging => r.on = Verification)
           /\ (r.at = "idle" <=> r = Idle)
           /\ r.at \in {"idle"} \cup PictureWork \cup ListWork \cup Editing \cup Judging
  BY DEF ProfileRequest, Idle, PictureWork, ListWork, Editing, Judging, Verification

\* A picture that is yet to be stored, or to be unset, has no new key.
LEMMA KeylessSlots ==
    \A r \in ProfileRequest : r.at \in {"picturePut", "pictureUnset"} => r.key = Null
  BY DEF ProfileRequest, Idle, Editing, Judging

\* What a request that starts or moves on puts into its slot.
LEMMA ProfileStarts ==
    /\ Idle \in ProfileRequest
    /\ \A s \in PictureSlot, k \in Key, o \in Key \cup {Null} :
          /\ [at |-> "pictureRead", on |-> s, key |-> k, old |-> o] \in ProfileRequest
          /\ [at |-> "pictureSave", on |-> s, key |-> k, old |-> o] \in ProfileRequest
          /\ [at |-> "picturePut", on |-> s, key |-> Null, old |-> o] \in ProfileRequest
          /\ [at |-> "pictureUnset", on |-> s, key |-> Null, old |-> o] \in ProfileRequest
    /\ \A s \in PictureSlot, k \in Key \cup {Null}, o \in Key :
          [at |-> "pictureClean", on |-> s, key |-> k, old |-> o] \in ProfileRequest
    /\ \A s \in ListSlot : [at |-> "listPut", on |-> s] \in ProfileRequest
    /\ \A s \in ListSlot, k \in Key :
          /\ [at |-> "listPush", on |-> s, key |-> k] \in ProfileRequest
          /\ [at |-> "builtPush", on |-> s, key |-> k] \in ProfileRequest
          /\ [at |-> "listClean", on |-> s, key |-> k] \in ProfileRequest
    /\ \A s \in ListSlot, k \in Key, seen \in SUBSET Key :
          [at |-> "listCut", on |-> s, key |-> k, seen |-> seen] \in ProfileRequest
  BY DEF ProfileRequest

LEMMA EntryStarts ==
    ASSUME NEW l \in EntryList, NEW i \in Nat, NEW seen \in Seq(Line)
    PROVE  /\ \A e \in Entry :
                 /\ [at |-> "entryPush", on |-> <<"user", l>>, entry |-> e, index |-> i,
                     seen |-> seen] \in ProfileRequest
                 /\ [at |-> "entrySet", on |-> <<"user", l>>, entry |-> e, index |-> i,
                     seen |-> seen] \in ProfileRequest
           /\ [at |-> "entryCut", on |-> <<"user", l>>, entry |-> Null, index |-> i,
               seen |-> seen] \in ProfileRequest
  BY DEF ProfileRequest

LEMMA VerdictStarts ==
    \A a \in Judging : [at |-> a, on |-> Verification] \in ProfileRequest
  BY DEF ProfileRequest, Verification

\* A slot that moves on keeps its locals.
LEMMA ProfileMoves ==
    ASSUME NEW r \in ProfileRequest
    PROVE  /\ (r.at = "pictureRead" => \A o \in Key \cup {Null} :
                 [r EXCEPT !.at = "pictureSave", !.old = o] =
                    [at |-> "pictureSave", on |-> r.on, key |-> r.key, old |-> o])
           /\ (r.at = "picturePut" => \A k \in Key :
                 [r EXCEPT !.at = "pictureSave", !.key = k] =
                    [at |-> "pictureSave", on |-> r.on, key |-> k, old |-> r.old])
           /\ (r.at \in {"pictureSave", "pictureUnset"} =>
                 [r EXCEPT !.at = "pictureClean"] =
                    [at |-> "pictureClean", on |-> r.on, key |-> r.key, old |-> r.old])
<1>1. CASE r.at \in PictureWork
  <2>1. r \in [at: PictureWork, on: PictureSlot, key: Key \cup {Null}, old: Key \cup {Null}]
    BY <1>1 DEF ProfileRequest, Idle, PictureWork, Editing, Judging
  <2>2. ASSUME NEW o \in Key \cup {Null}
        PROVE  [r EXCEPT !.at = "pictureSave", !.old = o] =
                  [at |-> "pictureSave", on |-> r.on, key |-> r.key, old |-> o]
    <3> DEFINE saving == [at |-> "pictureSave", on |-> r.on, key |-> r.key, old |-> r.old]
    <3>1. [r EXCEPT !.at = "pictureSave"] = saving
      BY <2>1
    <3>2. [r EXCEPT !.at = "pictureSave", !.old = o] = [saving EXCEPT !.old = o]
      BY <3>1
    <3> QED
      BY <3>2
  <2>3. ASSUME NEW k \in Key
        PROVE  [r EXCEPT !.at = "pictureSave", !.key = k] =
                  [at |-> "pictureSave", on |-> r.on, key |-> k, old |-> r.old]
    <3> DEFINE saving == [at |-> "pictureSave", on |-> r.on, key |-> r.key, old |-> r.old]
    <3>1. [r EXCEPT !.at = "pictureSave"] = saving
      BY <2>1
    <3>2. [r EXCEPT !.at = "pictureSave", !.key = k] = [saving EXCEPT !.key = k]
      BY <3>1
    <3> QED
      BY <3>2
  <2>4. [r EXCEPT !.at = "pictureClean"] =
           [at |-> "pictureClean", on |-> r.on, key |-> r.key, old |-> r.old]
    BY <2>1
  <2> QED
    BY <2>2, <2>3, <2>4
<1> QED
  BY <1>1 DEF PictureWork

LEMMA ProfileSlots ==
    ASSUME req \in [Request -> ProfileRequest], NEW p \in Request, NEW x, Goto(p, x)
    PROVE  /\ req'[p] = x
           /\ \A q \in Request \ {p} : req'[q] = req[q]
           /\ (x \in ProfileRequest => req' \in [Request -> ProfileRequest])
  BY DEF Goto

\* A line is cut where the list that was read has one, or just behind it.
Indexed == \A p \in Request : req[p].at = "entryCut" => req[p].index \in 1..(Len(req[p].seen) + 1)

LEMMA IdleSlots ==
    ASSUME ProfileTypeOK
    PROVE  \A p \in Request : At(p, "idle") <=> p \notin Busy
  BY ProfileLocals DEF ProfileTypeOK, At, Busy

\* A request's step, its slot apart.
LEMMA ProfileFrame ==
    ASSUME ProfileTypeOK, Indexed, NEW p \in Request, NEW x \in ProfileRequest, Goto(p, x),
           x.at = "entryCut" => x.index \in 1..(Len(x.seen) + 1),
           stale' \subseteq Busy, x = Idle => p \notin stale'
    PROVE  /\ req' \in [Request -> ProfileRequest]
           /\ stale' \subseteq Busy'
           /\ Indexed'
<1>1. /\ req'[p] = x
      /\ \A q \in Request \ {p} : req'[q] = req[q]
      /\ req' \in [Request -> ProfileRequest]
  BY ProfileSlots DEF ProfileTypeOK
<1>2. stale' \subseteq Busy'
  BY <1>1 DEF Busy
<1>3. Indexed'
  BY <1>1 DEF Indexed
<1> QED
  BY <1>1, <1>2, <1>3

\* A request that starts, when nothing it touches is ill typed.
LEMMA ProfileBegins ==
    ASSUME ProfileTypeOK, Indexed, NEW p \in Request, NEW x \in ProfileRequest, Goto(p, x), Starts(p),
           x.at = "entryCut" => x.index \in 1..(Len(x.seen) + 1), x # Idle,
           UNCHANGED <<stale, fails>>
    PROVE  /\ req' \in [Request -> ProfileRequest] /\ stale' \subseteq Busy' /\ Indexed'
           /\ started' \in Nat /\ fails' \in Nat
<1>1. stale' \subseteq Busy
  BY DEF ProfileTypeOK
<1>2. started' \in Nat /\ fails' \in Nat
  BY DEF ProfileTypeOK, Starts, Counted
<1> QED
  BY <1>1, <1>2, ProfileFrame

LEMMA PutTypes ==
    ASSUME ProfileTypeOK, NEW k \in Key, NEW s \in Slot, Put(k, s)
    PROVE  bucket' \subseteq Key /\ home' \in [Key -> Slot \cup {Null}]
  BY DEF ProfileTypeOK, Put

\* What may be spoilt.
Spoilable == Slot \cup {Experience, Verification}

LEMMA RacedTypes ==
    ASSUME ProfileTypeOK
    PROVE  /\ raced \subseteq Spoilable
           /\ \A s \in Slot : Overlap(s) \subseteq Spoilable
           /\ UnderJudgement \subseteq Spoilable
           /\ \A l \in EntryList : Overlapped(l) \subseteq Spoilable
<1>1. raced \subseteq Spoilable
  BY DEF ProfileTypeOK, Spoilable, Experience, Verification
<1> QED
  BY <1>1 DEF Overlap, UnderJudgement, Overlapped, Spoilable, Experience, Verification

\* A step that leaves all but the slots and the history.
LEMMA ProfileKept ==
    ASSUME ProfileTypeOK, UNCHANGED <<fileVars, entryVars, verdictVars>>,
           req' \in [Request -> ProfileRequest], stale' \subseteq Busy',
           started' \in Nat, fails' \in Nat, raced' \subseteq Spoilable
    PROVE  ProfileTypeOK'
  BY DEF ProfileTypeOK, fileVars, entryVars, verdictVars, Spoilable, Experience, Verification

TypesKept == ProfileTypeOK' /\ Indexed'

LEMMA PictureStartTypes ==
    ASSUME ProfileTypeOK, Indexed, NEW p \in Request, NEW s \in PictureSlot,
           \/ UserPictureStart(p, s)
           \/ CompanyPictureStart(p, s)
           \/ PictureDeleteStart(p, s)
    PROVE  TypesKept
<1>s. s \in Slot
  BY DEF Slot
<1>r. Overlap(s) \subseteq Spoilable
  BY <1>s, RacedTypes
<1>o. picture[s] \in Key \cup {Null}
  BY DEF ProfileTypeOK
<1>1. CASE UserPictureStart(p, s)
  <2>1. PICK k \in Key : Put(k, s) /\ Goto(p, [at |-> "pictureRead", on |-> s, key |-> k, old |-> Null])
    BY <1>1 DEF UserPictureStart
  <2> DEFINE x == [at |-> "pictureRead", on |-> s, key |-> k, old |-> Null]
  <2>2. x \in ProfileRequest /\ x.at = "pictureRead" /\ x # Idle
    BY ProfileStarts DEF Idle
  <2>3. Starts(p) /\ UNCHANGED <<stale, fails>> /\ Goto(p, x)
    BY <1>1, <2>1 DEF UserPictureStart
  <2>4. /\ req' \in [Request -> ProfileRequest] /\ stale' \subseteq Busy' /\ Indexed'
        /\ started' \in Nat /\ fails' \in Nat
    <3> HIDE DEF x
    <3> QED
      BY <2>2, <2>3, ProfileBegins
  <2>5. bucket' \subseteq Key /\ home' \in [Key -> Slot \cup {Null}]
    BY <2>1, <1>s, PutTypes
  <2>6. UNCHANGED <<picture, files, given, entryVars, verdictVars>> /\ raced' \subseteq Spoilable
    BY <1>1, <1>r DEF UserPictureStart
  <2> QED
    BY <2>4, <2>5, <2>6
       DEF TypesKept, ProfileTypeOK, entryVars, verdictVars, Spoilable, Experience, Verification
<1>2. ASSUME NEW a \in {"picturePut", "pictureUnset"}, Starts(p),
             Goto(p, [at |-> a, on |-> s, key |-> Null, old |-> picture[s]]),
             raced' = Overlap(s), UNCHANGED <<fileVars, entryVars, verdictVars, stale, fails>>
      PROVE  TypesKept
  <2> DEFINE x == [at |-> a, on |-> s, key |-> Null, old |-> picture[s]]
  <2>1. x \in ProfileRequest /\ x.at = a /\ x # Idle
    BY <1>o DEF Idle, ProfileRequest
  <2>2. /\ req' \in [Request -> ProfileRequest] /\ stale' \subseteq Busy' /\ Indexed'
        /\ started' \in Nat /\ fails' \in Nat
    <3>1. Goto(p, x) /\ x.at # "entryCut"
      BY <1>2, <2>1
    <3> HIDE DEF x
    <3> QED
      BY <1>2, <2>1, <3>1, ProfileBegins
  <2> QED
    BY <1>2, <1>r, <2>2, ProfileKept DEF TypesKept
<1> QED
  BY <1>1, <1>2 DEF CompanyPictureStart, PictureDeleteStart

\* What Done and DoneMoving do to the slots.
LEMMA DoneTypes ==
    ASSUME ProfileTypeOK, Indexed, NEW p \in Request,
           Done(p) \/ \E o : DoneMoving(p, o)
    PROVE  req' \in [Request -> ProfileRequest] /\ stale' \subseteq Busy' /\ Indexed'
<1>1. Goto(p, Idle)
  BY DEF Done, DoneMoving
<1>2. stale' \subseteq Busy /\ p \notin stale'
  BY DEF Done, DoneMoving, Readers, ProfileTypeOK
<1>3. Idle \in ProfileRequest /\ Idle.at # "entryCut"
  BY ProfileStarts DEF Idle
<1> QED
  BY <1>1, <1>2, <1>3, ProfileFrame

\* Where a saved picture's request goes.
LEMMA ThenCleanSlot ==
    ASSUME ProfileTypeOK, NEW p \in Request, req[p].at \in {"pictureSave", "pictureUnset"}, ThenClean(p)
    PROVE  \/ req[p].old = Null /\ Done(p)
           \/ /\ req[p].old \in Key
              /\ Goto(p, [at |-> "pictureClean", on |-> req[p].on, key |-> req[p].key, old |-> req[p].old])
              /\ UNCHANGED stale
<1>1. req[p] \in ProfileRequest
  BY DEF ProfileTypeOK
<1>2. req[p].old \in Key \cup {Null}
  BY <1>1, ProfileLocals DEF PictureWork
<1>3. [req[p] EXCEPT !.at = "pictureClean"] =
         [at |-> "pictureClean", on |-> req[p].on, key |-> req[p].key, old |-> req[p].old]
  BY <1>1, ProfileMoves
<1> QED
  BY <1>2, <1>3 DEF ThenClean, Move

LEMMA PictureWorkTypes ==
    ASSUME ProfileTypeOK, Indexed, NEW p \in Request,
           \/ UserPictureRead(p) \/ CompanyPicturePut(p)
           \/ PictureSave(p) \/ PictureUnset(p) \/ PictureClean(p)
    PROVE  TypesKept
<1>r. req[p] \in ProfileRequest
  BY DEF ProfileTypeOK
<1>1. CASE UserPictureRead(p)
  <2>1. req[p].on \in PictureSlot /\ req[p].key \in Key
    BY <1>1, <1>r, ProfileLocals DEF UserPictureRead, At, PictureWork
  <2>2. picture[req[p].on] \in Key \cup {Null}
    BY <2>1 DEF ProfileTypeOK
  <2> DEFINE x == [at |-> "pictureSave", on |-> req[p].on, key |-> req[p].key, old |-> picture[req[p].on]]
  <2>3. Goto(p, x)
    BY <1>1, <1>r, <2>2, ProfileMoves DEF UserPictureRead, At
  <2>4. x \in ProfileRequest /\ x.at = "pictureSave" /\ x # Idle
    BY <2>1, <2>2, ProfileStarts DEF Idle
  <2>5. stale' \subseteq Busy
    BY <1>1 DEF UserPictureRead, ProfileTypeOK
  <2>6. req' \in [Request -> ProfileRequest] /\ stale' \subseteq Busy' /\ Indexed'
    <3> HIDE DEF x
    <3> QED
      BY <2>3, <2>4, <2>5, ProfileFrame
  <2>7. /\ UNCHANGED <<fileVars, entryVars, verdictVars>> /\ started' \in Nat /\ fails' \in Nat
        /\ raced' \subseteq Spoilable
    BY <1>1, RacedTypes DEF UserPictureRead, ProfileTypeOK
  <2> QED
    BY <2>6, <2>7, ProfileKept DEF TypesKept
<1>2. CASE CompanyPicturePut(p)
  <2>1. req[p].on \in PictureSlot /\ req[p].old \in Key \cup {Null} /\ At(p, "picturePut")
    BY <1>2, <1>r, ProfileLocals DEF CompanyPicturePut, At, PictureWork
  <2>2. PICK k \in Key : Put(k, req[p].on) /\ Goto(p, [req[p] EXCEPT !.at = "pictureSave", !.key = k])
    BY <1>2 DEF CompanyPicturePut
  <2> DEFINE x == [at |-> "pictureSave", on |-> req[p].on, key |-> k, old |-> req[p].old]
  <2>3. Goto(p, x)
    BY <1>r, <2>1, <2>2, ProfileMoves DEF At
  <2>4. x \in ProfileRequest /\ x.at = "pictureSave" /\ x # Idle
    BY <2>1, ProfileStarts DEF Idle
  <2>5. stale' \subseteq Busy
    BY <1>2 DEF CompanyPicturePut, ProfileTypeOK
  <2>6. req' \in [Request -> ProfileRequest] /\ stale' \subseteq Busy' /\ Indexed'
    <3> HIDE DEF x
    <3> QED
      BY <2>3, <2>4, <2>5, ProfileFrame
  <2>7. bucket' \subseteq Key /\ home' \in [Key -> Slot \cup {Null}]
    BY <2>1, <2>2, PutTypes DEF Slot
  <2>8. UNCHANGED <<picture, files, given, entryVars, verdictVars, started, fails, raced>>
    BY <1>2 DEF CompanyPicturePut
  <2> QED
    BY <2>6, <2>7, <2>8 DEF TypesKept, ProfileTypeOK, entryVars, verdictVars
<1>3. ASSUME req[p].at \in {"pictureSave", "pictureUnset"}, ThenClean(p),
             NEW v \in Key \cup {Null}, picture' = [picture EXCEPT ![req[p].on] = v],
             UNCHANGED <<bucket, home, files, given, entryVars, verdictVars, started, fails, raced>>
      PROVE  TypesKept
  <2>1. req[p].on \in PictureSlot /\ req[p].key \in Key \cup {Null}
    BY <1>3, <1>r, ProfileLocals DEF PictureWork
  <2>2. req' \in [Request -> ProfileRequest] /\ stale' \subseteq Busy' /\ Indexed'
    <3>1. CASE Done(p)
      BY <3>1, DoneTypes
    <3>2. CASE /\ req[p].old \in Key
               /\ Goto(p, [at |-> "pictureClean", on |-> req[p].on, key |-> req[p].key, old |-> req[p].old])
               /\ UNCHANGED stale
      <4> DEFINE x == [at |-> "pictureClean", on |-> req[p].on, key |-> req[p].key, old |-> req[p].old]
      <4>1. x \in ProfileRequest /\ x.at = "pictureClean" /\ x # Idle /\ Goto(p, x)
        BY <2>1, <3>2, ProfileStarts DEF Idle
      <4>2. stale' \subseteq Busy
        BY <3>2 DEF ProfileTypeOK
      <4> HIDE DEF x
      <4> QED
        BY <4>1, <4>2, ProfileFrame
    <3> QED
      BY <1>3, <3>1, <3>2, ThenCleanSlot
  <2>3. picture' \in [PictureSlot -> Key \cup {Null}]
    BY <1>3, <2>1 DEF ProfileTypeOK
  <2> QED
    BY <1>3, <2>2, <2>3 DEF TypesKept, ProfileTypeOK, entryVars, verdictVars
<1>4. CASE PictureSave(p)
  <2>1. req[p].key \in Key \cup {Null}
    BY <1>4, <1>r, ProfileLocals DEF PictureSave, At, PictureWork
  <2> QED
    BY <1>3, <1>4, <2>1 DEF PictureSave, At
<1>5. CASE PictureUnset(p)
  BY <1>3, <1>5 DEF PictureUnset, At
<1>6. CASE PictureClean(p)
  <2>1. req' \in [Request -> ProfileRequest] /\ stale' \subseteq Busy' /\ Indexed'
    BY <1>6, DoneTypes DEF PictureClean
  <2> QED
    BY <1>6, <2>1 DEF PictureClean, TypesKept, ProfileTypeOK, entryVars, verdictVars
<1> QED
  BY <1>1, <1>2, <1>4, <1>5, <1>6

LEMMA ListStartTypes ==
    ASSUME ProfileTypeOK, Indexed, NEW p \in Request, NEW s \in ListSlot,
           ListAddStart(p, s) \/ ListDeleteStart(p, s)
    PROVE  TypesKept
<1>s. s \in Slot
  BY DEF Slot
<1>1. PICK x \in ProfileRequest : Goto(p, x) /\ x.at \in {"listPut", "listCut"}
  <2>1. CASE ListAddStart(p, s)
    BY <2>1, ProfileStarts DEF ListAddStart
  <2>2. CASE ListDeleteStart(p, s)
    <3>1. files[s] \in SUBSET Key
      BY DEF ProfileTypeOK
    <3>2. PICK k \in Key : Goto(p, [at |-> "listCut", on |-> s, key |-> k, seen |-> files[s]])
      BY <2>2, <3>1 DEF ListDeleteStart
    <3>3. [at |-> "listCut", on |-> s, key |-> k, seen |-> files[s]] \in ProfileRequest
      BY <3>1, ProfileStarts
    <3> QED
      BY <3>2, <3>3
  <2> QED
    BY <2>1, <2>2
<1>2. Starts(p) /\ UNCHANGED <<fileVars, entryVars, verdictVars, stale, fails>>
  BY DEF ListAddStart, ListDeleteStart
<1>3. raced' \subseteq Spoilable
  BY <1>s, RacedTypes DEF ListAddStart, ListDeleteStart, Spoilable
<1>4. /\ req' \in [Request -> ProfileRequest] /\ stale' \subseteq Busy' /\ Indexed'
      /\ started' \in Nat /\ fails' \in Nat
  <2>1. x # Idle /\ x.at # "entryCut"
    BY <1>1 DEF Idle
  <2> QED
    BY <1>1, <1>2, <2>1, ProfileBegins
<1> QED
  BY <1>2, <1>3, <1>4, ProfileKept DEF TypesKept

LEMMA BuildTypes ==
    ASSUME ProfileTypeOK, Indexed, NEW p \in Request, generateAndUpload(p)
    PROVE  TypesKept
<1> DEFINE s == <<"user", "resumeURL">>
<1>s. s \in ListSlot /\ s \in Slot
  BY DEF ListSlot, Slot
<1>1. PICK k \in Key :
         /\ Put(k, s)
         /\ Goto(p, [at |-> "builtPush", on |-> s, key |-> k])
         /\ raced' \subseteq raced \cup {s}
  BY DEF generateAndUpload
<1> HIDE DEF s
<1>2. raced' \subseteq Spoilable
  BY <1>1, <1>s, RacedTypes DEF Spoilable
<1> DEFINE x == [at |-> "builtPush", on |-> s, key |-> k]
<1>3. x \in ProfileRequest /\ x.at = "builtPush" /\ x # Idle /\ Goto(p, x)
  BY <1>s, <1>1, ProfileStarts DEF Idle
<1>4. /\ req' \in [Request -> ProfileRequest] /\ stale' \subseteq Busy' /\ Indexed'
      /\ started' \in Nat /\ fails' \in Nat
  <2>1. Starts(p) /\ UNCHANGED <<stale, fails>>
    BY DEF generateAndUpload
  <2> HIDE DEF x
  <2> QED
    BY <1>3, <2>1, ProfileBegins
<1>5. bucket' \subseteq Key /\ home' \in [Key -> Slot \cup {Null}]
  BY <1>1, <1>s, PutTypes
<1>6. UNCHANGED <<picture, files, given, entryVars, verdictVars>>
  BY DEF generateAndUpload
<1> QED
  BY <1>2, <1>4, <1>5, <1>6
     DEF TypesKept, ProfileTypeOK, entryVars, verdictVars, Spoilable, Experience, Verification

LEMMA ListWorkTypes ==
    ASSUME ProfileTypeOK, Indexed, NEW p \in Request,
           ListPut(p) \/ ListPush(p) \/ BuiltPush(p) \/ ListCut(p) \/ ListClean(p)
    PROVE  TypesKept
<1>r. req[p] \in ProfileRequest
  BY DEF ProfileTypeOK
<1>o. req[p].on \in ListSlot /\ req[p].on \in Slot
  BY <1>r, ProfileLocals DEF ListPut, ListPush, BuiltPush, ListCut, ListClean, At, ListWork, Slot
<1>1. CASE ListPut(p)
  <2>1. PICK k \in Key : Put(k, req[p].on) /\ Goto(p, [at |-> "listPush", on |-> req[p].on, key |-> k])
    BY <1>1 DEF ListPut
  <2> DEFINE x == [at |-> "listPush", on |-> req[p].on, key |-> k]
  <2>2. x \in ProfileRequest /\ x.at = "listPush" /\ x # Idle /\ Goto(p, x)
    BY <1>o, <2>1, ProfileStarts DEF Idle
  <2>3. stale' \subseteq Busy
    BY <1>1 DEF ListPut, ProfileTypeOK
  <2>4. req' \in [Request -> ProfileRequest] /\ stale' \subseteq Busy' /\ Indexed'
    <3> HIDE DEF x
    <3> QED
      BY <2>2, <2>3, ProfileFrame
  <2>5. bucket' \subseteq Key /\ home' \in [Key -> Slot \cup {Null}]
    BY <1>o, <2>1, PutTypes
  <2>6. UNCHANGED <<picture, files, given, entryVars, verdictVars, started, fails, raced>>
    BY <1>1 DEF ListPut
  <2> QED
    BY <2>4, <2>5, <2>6 DEF TypesKept, ProfileTypeOK, entryVars, verdictVars
<1>2. CASE ListPush(p) \/ BuiltPush(p)
  <2>1. req[p].key \in Key
    BY <1>2, <1>r, ProfileLocals DEF ListPush, BuiltPush, At, ListWork
  <2>2. files' = [files EXCEPT ![req[p].on] = @ \cup {req[p].key}]
    BY <1>2 DEF ListPush, BuiltPush
  <2>3. files' \in [ListSlot -> SUBSET Key]
    BY <1>o, <2>1, <2>2 DEF ProfileTypeOK
  <2>4. req' \in [Request -> ProfileRequest] /\ stale' \subseteq Busy' /\ Indexed'
    BY <1>2, DoneTypes DEF ListPush, BuiltPush
  <2>5. UNCHANGED <<bucket, home, picture, given, entryVars, verdictVars, started, fails, raced>>
    BY <1>2 DEF ListPush, BuiltPush
  <2> QED
    BY <2>3, <2>4, <2>5 DEF TypesKept, ProfileTypeOK, entryVars, verdictVars
<1>3. CASE ListCut(p)
  <2>1. req[p].key \in Key /\ req[p].seen \in SUBSET Key
    BY <1>3, <1>r, ProfileLocals DEF ListCut, At, ListWork
  <2> DEFINE x == [at |-> "listClean", on |-> req[p].on, key |-> req[p].key]
  <2>2. x \in ProfileRequest /\ x.at = "listClean" /\ x # Idle
    BY <1>o, <2>1, ProfileStarts DEF Idle
  <2>3. /\ Goto(p, x) \/ Done(p)
        /\ Goto(p, x) => stale' \subseteq Busy
        /\ files' = files \/ files' = [files EXCEPT ![req[p].on] = req[p].seen \ {req[p].key}]
    BY <1>3 DEF ListCut, Goto, Done, Readers, ProfileTypeOK
  <2>4. req' \in [Request -> ProfileRequest] /\ stale' \subseteq Busy' /\ Indexed'
    <3>1. CASE Goto(p, x)
      <4> HIDE DEF x
      <4> QED
        BY <2>2, <2>3, <3>1, ProfileFrame
    <3>2. CASE Done(p)
      BY <3>2, DoneTypes
    <3> QED
      BY <2>3, <3>1, <3>2
  <2>5. files' \in [ListSlot -> SUBSET Key]
    BY <1>o, <2>1, <2>3 DEF ProfileTypeOK
  <2>6. /\ UNCHANGED <<bucket, home, picture, entryVars, verdictVars, started, fails>>
        /\ raced' \subseteq Spoilable /\ given' \subseteq Key
    BY <1>3, <2>1, RacedTypes DEF ListCut, Unlisted, ProfileTypeOK
  <2> QED
    BY <2>4, <2>5, <2>6
       DEF TypesKept, ProfileTypeOK, entryVars, verdictVars, Spoilable, Experience, Verification
<1>4. CASE ListClean(p)
  <2>1. req' \in [Request -> ProfileRequest] /\ stale' \subseteq Busy' /\ Indexed'
    BY <1>4, DoneTypes DEF ListClean
  <2> QED
    BY <1>4, <2>1 DEF ListClean, TypesKept, ProfileTypeOK, entryVars, verdictVars
<1> QED
  BY <1>1, <1>2, <1>3, <1>4

\* A list edited by index is a list still.
LEMMA ListEdits ==
    ASSUME NEW seq \in Seq(Line)
    PROVE  /\ \A i \in 1..(Len(seq) + 1) : RemoveAt(seq, i) \in Seq(Line)
           /\ \A i \in Nat, e \in Entry : SetAt(seq, i, e) \in Seq(Line)
           /\ \A e \in Entry : Append(seq, e) \in Seq(Line)
<1>l. Len(seq) \in Nat /\ seq \in [1..Len(seq) -> Line]
  BY LenProperties
<1>1. ASSUME NEW i \in 1..(Len(seq) + 1)
      PROVE  RemoveAt(seq, i) \in Seq(Line)
  <2>1. SubSeq(seq, 1, i - 1) \in Seq(Line)
    BY <1>l, SubSeqProperties
  <2>2. SubSeq(seq, i + 1, Len(seq)) \in Seq(Line)
    BY <1>l, SubSeqProperties
  <2> QED
    BY <2>1, <2>2, ConcatProperties DEF RemoveAt
<1>2. ASSUME NEW i \in Nat, NEW e \in Entry
      PROVE  SetAt(seq, i, e) \in Seq(Line)
  <2> DEFINE n == IF i > Len(seq) THEN i ELSE Len(seq)
  <2> DEFINE val(j) == IF j = i THEN e ELSE IF j > Len(seq) THEN Null ELSE seq[j]
  <2>1. n \in Nat
    BY <1>l
  <2>2. \A j \in 1..n : val(j) \in Line
    BY <1>l DEF Line
  <2>3. SetAt(seq, i, e) = [j \in 1..n |-> val(j)]
    BY DEF SetAt
  <2> HIDE DEF n, val
  <2>4. [j \in 1..n |-> val(j)] \in [1..n -> Line]
    BY <2>2
  <2> QED
    BY <2>1, <2>3, <2>4, IsASeq
<1>3. \A e \in Entry : Append(seq, e) \in Seq(Line)
  BY AppendProperties DEF Line
<1> QED
  BY <1>1, <1>2, <1>3

\* What a request that reads a list puts into its slot.
LEMMA EntryBegins ==
    ASSUME ProfileTypeOK, NEW p \in Request, NEW l \in EntryList,
           Added(p, l) \/ Deleted(p, l) \/ Updated(p, l)
    PROVE  \E x \in ProfileRequest :
              /\ Goto(p, x) /\ x.at \in Editing /\ x.on = <<"user", l>> /\ x.seen = entries[l]
              /\ (x.at = "entryCut" => x.index \in 1..(Len(x.seen) + 1))
              /\ Starts(p) /\ raced' = Overlapped(l)
              /\ UNCHANGED <<fileVars, entryVars, verdictVars, stale, fails>>
<1>s. entries[l] \in Seq(Line)
  BY DEF ProfileTypeOK
<1>l. Len(entries[l]) \in Nat
  BY <1>s, LenProperties
<1>1. CASE Added(p, l)
  <2>1. PICK e \in Entry : Reading(p, "entryPush", l, 0, e)
    BY <1>1 DEF Added
  <2>2. [at |-> "entryPush", on |-> <<"user", l>>, entry |-> e, index |-> 0, seen |-> entries[l]]
           \in ProfileRequest
    BY <1>s, EntryStarts
  <2> QED
    BY <1>1, <2>1, <2>2 DEF Added, Reading, Editing
<1>2. CASE Deleted(p, l)
  <2>1. PICK i \in 1..(Len(entries[l]) + 1) : Reading(p, "entryCut", l, i, Null)
    BY <1>2 DEF Deleted
  <2>2. [at |-> "entryCut", on |-> <<"user", l>>, entry |-> Null, index |-> i, seen |-> entries[l]]
           \in ProfileRequest
    BY <1>s, <1>l, EntryStarts
  <2> QED
    BY <1>2, <2>1, <2>2 DEF Deleted, Reading, Editing
<1>3. CASE Updated(p, l)
  <2>1. PICK e \in Entry : \E i \in 1..MaxEntries : Reading(p, "entrySet", l, i, e)
    BY <1>3 DEF Updated
  <2>2. PICK i \in 1..MaxEntries : Reading(p, "entrySet", l, i, e)
    BY <2>1
  <2> DEFINE x == [at |-> "entrySet", on |-> <<"user", l>>, entry |-> e, index |-> i, seen |-> entries[l]]
  <2>3. x \in ProfileRequest
    <3>1. i \in Nat
      BY ProfileAssumption
    <3>2. \A f \in Entry :
             [at |-> "entrySet", on |-> <<"user", l>>, entry |-> f, index |-> i, seen |-> entries[l]]
                \in ProfileRequest
      BY <1>s, <3>1, EntryStarts
    <3> QED
      BY <3>2
  <2>4. x.at \in Editing /\ x.at # "entryCut" /\ x.on = <<"user", l>> /\ x.seen = entries[l]
    BY DEF Editing
  <2>5. Goto(p, x) /\ raced' = Overlapped(l)
    BY <2>2 DEF Reading
  <2>6. Starts(p) /\ UNCHANGED <<fileVars, entryVars, verdictVars, stale, fails>>
    BY <1>3 DEF Updated
  <2> HIDE DEF x
  <2> QED
    BY <2>3, <2>4, <2>5, <2>6
<1> QED
  BY <1>1, <1>2, <1>3

LEMMA EntryStartTypes ==
    ASSUME ProfileTypeOK, Indexed, NEW p \in Request, NEW l \in EntryList,
           Added(p, l) \/ Deleted(p, l) \/ Updated(p, l)
    PROVE  TypesKept
<1>1. PICK x \in ProfileRequest :
         /\ Goto(p, x) /\ x.at \in Editing
         /\ (x.at = "entryCut" => x.index \in 1..(Len(x.seen) + 1))
         /\ Starts(p) /\ raced' = Overlapped(l)
         /\ UNCHANGED <<fileVars, entryVars, verdictVars, stale, fails>>
  BY EntryBegins
<1>2. x # Idle
  BY <1>1 DEF Idle, Editing
<1>3. /\ req' \in [Request -> ProfileRequest] /\ stale' \subseteq Busy' /\ Indexed'
      /\ started' \in Nat /\ fails' \in Nat
  BY <1>1, <1>2, ProfileBegins
<1>4. raced' \subseteq Spoilable
  BY <1>1, RacedTypes
<1> QED
  BY <1>1, <1>3, <1>4, ProfileKept DEF TypesKept

LEMMA EntryLocals ==
    ASSUME ProfileTypeOK, Indexed, NEW p \in Request, req[p].at \in Editing
    PROVE  /\ req[p].on[2] \in EntryList /\ req[p].on = <<"user", req[p].on[2]>>
           /\ req[p].seen \in Seq(Line) /\ req[p].index \in Nat
           /\ (req[p].at \in {"entryPush", "entrySet"} => req[p].entry \in Entry)
           /\ (req[p].at = "entryCut" => req[p].index \in 1..(Len(req[p].seen) + 1))
<1>1. req[p] \in ProfileRequest
  BY DEF ProfileTypeOK
<1> QED
  BY <1>1, ProfileLocals, Places DEF Indexed

\* A write of a list, and of the total if it is the experience.
LEMMA EntrySaveTypes ==
    ASSUME ProfileTypeOK, Indexed, NEW p \in Request, AddSave(p) \/ DeleteSave(p) \/ UpdateSave(p)
    PROVE  TypesKept
<1>e. req[p].at \in Editing
  BY DEF AddSave, DeleteSave, UpdateSave, At, Editing
<1> DEFINE l == req[p].on[2]
<1>l. /\ l \in EntryList
      /\ req[p].seen \in Seq(Line) /\ req[p].index \in Nat
      /\ (req[p].at \in {"entryPush", "entrySet"} => req[p].entry \in Entry)
      /\ (req[p].at = "entryCut" => req[p].index \in 1..(Len(req[p].seen) + 1))
  BY <1>e, EntryLocals
<1>s. entries \in [EntryList -> Seq(Line)] /\ totalled \in Seq(Line)
  BY DEF ProfileTypeOK
<1>1. entries' \in [EntryList -> Seq(Line)] /\ totalled' \in Seq(Line)
  <2>1. CASE UNCHANGED entryVars
    BY <2>1, <1>s DEF entryVars
  <2>2. ASSUME NEW new \in Seq(Line), entries' = [entries EXCEPT ![l] = new],
               NEW total \in Seq(Line), calculateTotalExperience(l, total)
        PROVE  entries' \in [EntryList -> Seq(Line)] /\ totalled' \in Seq(Line)
    BY <2>2, <1>l, <1>s DEF calculateTotalExperience
  <2>3. CASE AddSave(p)
    <3>1. req[p].entry \in Entry
      BY <1>l, <2>3 DEF AddSave, At
    <3>2. /\ Append(entries[l], req[p].entry) \in Seq(Line)
          /\ Append(req[p].seen, req[p].entry) \in Seq(Line)
      BY <1>l, <1>s, <3>1, ListEdits
    <3> QED
      BY <2>2, <2>3, <3>2 DEF AddSave
  <2>4. CASE DeleteSave(p) /\ p \notin stale
    <3>1. RemoveAt(req[p].seen, req[p].index) \in Seq(Line)
      BY <1>l, <2>4, ListEdits DEF DeleteSave, At
    <3> QED
      BY <2>2, <2>4, <3>1 DEF DeleteSave
  <2>5. CASE UpdateSave(p) /\ p \notin stale
    <3>1. req[p].entry \in Entry
      BY <1>l, <2>5 DEF UpdateSave, At
    <3>2. /\ SetAt(entries[l], req[p].index, req[p].entry) \in Seq(Line)
          /\ SetAt(req[p].seen, req[p].index, req[p].entry) \in Seq(Line)
      BY <1>l, <1>s, <3>1, ListEdits
    <3> QED
      BY <2>2, <2>5, <3>2 DEF UpdateSave
  <2> QED
    BY <2>1, <2>3, <2>4, <2>5 DEF DeleteSave, UpdateSave
<1>2. req' \in [Request -> ProfileRequest] /\ stale' \subseteq Busy' /\ Indexed'
  <2>1. Done(p) \/ \E o : DoneMoving(p, o)
    BY DEF AddSave, DeleteSave, UpdateSave
  <2> QED
    BY <2>1, DoneTypes
<1>3. UNCHANGED <<fileVars, verdictVars, started, fails, raced>>
  BY DEF AddSave, DeleteSave, UpdateSave
<1> QED
  BY <1>1, <1>2, <1>3 DEF TypesKept, ProfileTypeOK, fileVars, verdictVars

LEMMA VerificationTypes ==
    ASSUME ProfileTypeOK, Indexed, NEW p \in Request, VerificationStep(p)
    PROVE  TypesKept
<1>1. ASSUME NEW a \in Judging, Starts(p), Judges(p, a)
      PROVE  TypesKept
  <2> DEFINE x == [at |-> a, on |-> Verification]
  <2>1. x \in ProfileRequest /\ x.at = a /\ x # Idle /\ Goto(p, x)
    BY <1>1, VerdictStarts DEF Judges, Verification, Idle, Judging
  <2>2. UNCHANGED <<fileVars, entryVars, verdictVars, stale, fails>> /\ raced' \subseteq Spoilable
    BY <1>1, RacedTypes DEF Judges, Spoilable, Verification
  <2>3. /\ req' \in [Request -> ProfileRequest] /\ stale' \subseteq Busy' /\ Indexed'
        /\ started' \in Nat /\ fails' \in Nat
    <3>1. x.at # "entryCut"
      BY <2>1 DEF Judging
    <3> HIDE DEF x
    <3> QED
      BY <1>1, <2>1, <2>2, <3>1, ProfileBegins
  <2> QED
    BY <2>2, <2>3, ProfileKept DEF TypesKept
<1>2. ASSUME NEW label, NEW v \in Verdict, Writes(p, label, v), Done(p) \/ DoneMoving(p, "company")
      PROVE  TypesKept
  <2>1. req' \in [Request -> ProfileRequest] /\ stale' \subseteq Busy' /\ Indexed'
    BY <1>2, DoneTypes
  <2> QED
    BY <1>2, <2>1 DEF TypesKept, ProfileTypeOK, Writes, fileVars, entryVars
<1> QED
  BY <1>1, <1>2
     DEF VerificationStep, verifyCompany, VerifySave, rejectCompanyVerification, RejectSave,
         reapplyForVerification, ReapplySave, Judging, Verdict

\* The names a body writes are names.
LEMMA NameTypes ==
    ASSUME ProfileTypeOK, NEW o, NEW fields, WritesNames(o, fields)
    PROVE  /\ bucket' \subseteq Key /\ home' \in [Key -> Slot \cup {Null}] /\ given' \subseteq Key
           /\ picture' \in [PictureSlot -> Key \cup {Null}] /\ files' \in [ListSlot -> SUBSET Key]
<1> DEFINE at == {s \in Slot : s[1] = o /\ s[2] \in fields}
<1>1. PICK new \in [at \cap PictureSlot -> Key \cup {Null}] :
         picture' = [s \in PictureSlot |-> IF s \in at THEN new[s] ELSE picture[s]]
  BY DEF WritesNames
<1>2. PICK list \in [at \cap ListSlot -> SUBSET Key] :
         files' = [s \in ListSlot |-> IF s \in at THEN list[s] ELSE files[s]]
  BY DEF WritesNames
<1>3. given' \subseteq Key /\ UNCHANGED <<bucket, home>>
  BY DEF WritesNames, ProfileTypeOK
<1> HIDE DEF at
<1>4. picture' \in [PictureSlot -> Key \cup {Null}]
  BY <1>1 DEF ProfileTypeOK
<1>5. files' \in [ListSlot -> SUBSET Key]
  BY <1>2 DEF ProfileTypeOK
<1> QED
  BY <1>3, <1>4, <1>5 DEF ProfileTypeOK

LEMMA OtherProfileTypes ==
    ASSUME ProfileTypeOK, Indexed,
           (\E p \in Request : RequestFails(p)) \/ updateUserProfile \/ updateBasicProfile \/ updateAddress
    PROVE  TypesKept
<1>1. ASSUME NEW p \in Request, RequestFails(p)
      PROVE  TypesKept
  <2>1. req' \in [Request -> ProfileRequest] /\ stale' \subseteq Busy' /\ Indexed'
    BY <1>1, DoneTypes DEF RequestFails
  <2>2. req[p] \in ProfileRequest
    BY DEF ProfileTypeOK
  <2>3. req[p].at \in Uploading \cup Cleaning => req[p].on \in Slot
    BY <2>2, ProfileLocals DEF Uploading, Cleaning, PictureWork, ListWork, Slot
  <2>4. raced' \subseteq Spoilable
    BY <1>1, <2>3, RacedTypes DEF RequestFails, Spoilable
  <2>5. started' \in Nat /\ fails' \in Nat /\ UNCHANGED <<fileVars, entryVars, verdictVars>>
    BY <1>1 DEF RequestFails, ProfileTypeOK
  <2> QED
    BY <2>1, <2>4, <2>5, ProfileKept DEF TypesKept
<1>r. UnderJudgement \subseteq Spoilable /\ raced \subseteq Spoilable /\ Renamed \subseteq Spoilable
  BY RacedTypes DEF Renamed, Spoilable
<1>2. ASSUME updateUserProfile
      PROVE  TypesKept
  <2>1. PICK fields \in UserBody : WritesNames("user", fields) /\ WritesEntries(fields)
    BY <1>2 DEF updateUserProfile
  <2>2. /\ bucket' \subseteq Key /\ home' \in [Key -> Slot \cup {Null}] /\ given' \subseteq Key
        /\ picture' \in [PictureSlot -> Key \cup {Null}] /\ files' \in [ListSlot -> SUBSET Key]
    BY <2>1, NameTypes
  <2>3. entries' \in [EntryList -> Seq(Line)] /\ totalled' \in Seq(Line)
    BY <2>1, ProfileAssumption DEF WritesEntries, ProfileTypeOK
  <2>4. /\ raced' \subseteq Spoilable /\ started' \in Nat
        /\ UNCHANGED <<verdictVars, req, stale, fails>>
    BY <1>2, <1>r DEF updateUserProfile, Spoilable, Experience, Counted, ProfileTypeOK
  <2> QED
    BY <2>2, <2>3, <2>4
       DEF TypesKept, ProfileTypeOK, Indexed, Busy, verdictVars, Spoilable, Experience, Verification
<1>3. ASSUME updateBasicProfile
      PROVE  TypesKept
  <2>1. PICK fields \in CompanyBody :
           /\ WritesNames("company", fields) /\ Fills(fields)
           /\ IF "verificationStatus" \in fields
              THEN verificationStatus' \in Verdict ELSE UNCHANGED verificationStatus
    BY <1>3 DEF updateBasicProfile
  <2>2. /\ bucket' \subseteq Key /\ home' \in [Key -> Slot \cup {Null}] /\ given' \subseteq Key
        /\ picture' \in [PictureSlot -> Key \cup {Null}] /\ files' \in [ListSlot -> SUBSET Key]
    BY <2>1, NameTypes
  <2>3. filled' \in Form /\ verificationStatus' \in Verdict
    BY <2>1 DEF Fills, ProfileTypeOK
  <2>4. /\ raced' \subseteq Spoilable /\ started' \in Nat
        /\ UNCHANGED <<entryVars, req, stale, fails>>
    BY <1>3, <1>r DEF updateBasicProfile, Spoilable, Verification, Counted, ProfileTypeOK
  <2> QED
    BY <2>2, <2>3, <2>4
       DEF TypesKept, ProfileTypeOK, Indexed, Busy, entryVars, Spoilable, Experience, Verification
<1>4. ASSUME updateAddress
      PROVE  TypesKept
  <2>1. raced' \subseteq Spoilable /\ started' \in Nat /\ filled' \in Form
    BY <1>4, <1>r DEF updateAddress, Fills, Counted, ProfileTypeOK
  <2>2. UNCHANGED <<fileVars, entryVars, verificationStatus, req, stale, fails>>
    BY <1>4 DEF updateAddress
  <2> QED
    BY <2>1, <2>2
       DEF TypesKept, ProfileTypeOK, Indexed, Busy, fileVars, entryVars, Spoilable, Experience, Verification
<1> QED
  BY <1>1, <1>2, <1>3, <1>4

LEMMA ProfileTypeStep ==
    ASSUME ProfileTypeOK, Indexed, [ProfileNext]_profileVars
    PROVE  TypesKept
<1>1. ASSUME NEW p \in Request, UserFileStep(p)
      PROVE  TypesKept
  BY <1>1, PictureStartTypes, ListStartTypes, BuildTypes
     DEF UserFileStep, updateUserProfilePicture, deleteUserProfilePicture, updateUserBannerImage,
         deleteUserBannerImage, uploadCertificate, deleteCertificate, uploadResume, deleteResume,
         PictureSlot, ListSlot, Owner, Picture
<1>2. ASSUME NEW p \in Request, CompanyFileStep(p)
      PROVE  TypesKept
  BY <1>2, PictureStartTypes, ListStartTypes
     DEF CompanyFileStep, updateProfilePicture, deleteProfilePicture, updateBannerImage,
         deleteBannerImage, uploadDocument, deleteDocument, PictureSlot, ListSlot, Owner, Picture
<1>3. ASSUME NEW p \in Request, FileStep(p)
      PROVE  TypesKept
  BY <1>1, <1>2, <1>3, PictureWorkTypes, ListWorkTypes DEF FileStep
<1>4. ASSUME NEW p \in Request, EntryStep(p)
      PROVE  TypesKept
  BY <1>4, EntryStartTypes, EntrySaveTypes
     DEF EntryStep, addUserEducation, updateUserEducation, deleteUserEducation,
         addUserExperience, updateUserExperience, deleteUserExperience, EntryList
<1>5. CASE UNCHANGED profileVars
  BY <1>5 DEF TypesKept, ProfileTypeOK, Indexed, Busy, profileVars, fileVars, entryVars, verdictVars
<1> QED
  BY <1>3, <1>4, <1>5, VerificationTypes, OtherProfileTypes DEF ProfileNext, ProfileStep

LEMMA ProfileTypeStarted == ProfileInit => ProfileTypeOK /\ Indexed
<1> SUFFICES ASSUME ProfileInit PROVE ProfileTypeOK /\ Indexed
  OBVIOUS
<1>1. <<>> \in Seq(Line)
  BY EmptySeq
<1>2. req \in [Request -> ProfileRequest] /\ Indexed
  BY ProfileStarts DEF ProfileInit, Indexed, Idle
<1> QED
  BY <1>1, <1>2, ProfileAssumption DEF ProfileInit, ProfileTypeOK, Verdict

\* Every variable keeps to its type and every slot to the locals of its await,
\* whatever requests, failures and forms there are.
THEOREM ProfileTypesCorrect == ProfileSpec => []ProfileTypeOK
<1>1. ProfileTypeOK /\ Indexed /\ [ProfileNext]_profileVars => (ProfileTypeOK /\ Indexed)'
  BY ProfileTypeStep DEF TypesKept
<1> QED
  BY <1>1, ProfileTypeStarted, PTL DEF ProfileSpec

-----------------------------------------------------------------------------
(***************************************************************************)
(* Who is at a place: one request at a time on a picture, no push of the   *)
(* resume builder beside a cut, unless the place is raced.                 *)
(***************************************************************************)

Replacing == {"picturePut", "pictureSave", "pictureUnset"}

Cutting(p) == At(p, "listCut")

PictureAlone ==
    \A s \in PictureSlot \ raced : \A p \in On(s) :
        /\ \A q \in On(s) : q = p
        /\ req[p].at \in Replacing => req[p].old = picture[s]

ListAlone ==
    \A s \in ListSlot \ raced : \A p \in On(s) :
        Cutting(p) => /\ \A q \in On(s) : ~At(q, "builtPush")
                      /\ p \notin stale => req[p].seen = files[s]

\* Of a step of one slot: who is on which place after it.
LEMMA OnAfter ==
    ASSUME ProfileTypeOK, NEW p \in Request, NEW x, Goto(p, x)
    PROVE  /\ req'[p] = x
           /\ \A q \in Request \ {p} : req'[q] = req[q]
           /\ \A s : \A q \in Request \ {p} : q \in On(s)' <=> q \in On(s)
           /\ \A s : p \in On(s)' <=> x # Idle /\ x.on = s
           /\ \A s : On(s) \subseteq Request /\ On(s)' \subseteq Request
<1>1. req'[p] = x /\ \A q \in Request \ {p} : req'[q] = req[q]
  BY ProfileSlots DEF ProfileTypeOK
<1> QED
  BY <1>1 DEF On, Busy

\* A step keeps a picture to one request if the request was there already or
\* finds nobody, and writes it only from there.
LEMMA PictureAloneKept ==
    ASSUME ProfileTypeOK, PictureAlone, NEW p \in Request, NEW x, Goto(p, x), raced \subseteq raced',
           \A s \in PictureSlot : picture'[s] = picture[s] \/ p \in On(s),
           x # Idle /\ x.on \in PictureSlot \ raced' =>
               /\ p \in On(x.on) \/ On(x.on) = {}
               /\ x.at \in Replacing => x.old = picture'[x.on]
    PROVE  PictureAlone'
<1> USE OnAfter
<1>1. SUFFICES ASSUME NEW s \in PictureSlot, s \notin raced', NEW q \in On(s)'
               PROVE  /\ \A t \in On(s)' : t = q
                      /\ req'[q].at \in Replacing => req'[q].old = picture'[s]
  BY DEF PictureAlone
<1>2. s \notin raced /\ q \in Request
  BY <1>1
<1>3. CASE q = p
  <2>1. x # Idle /\ x.on = s
    BY <1>3
  <2>2. \A t \in On(s)' : t = p
    BY <1>1, <1>2, <2>1 DEF PictureAlone
  <2> QED
    BY <1>1, <1>3, <2>1, <2>2
<1>4. CASE q # p
  <2>1. q \in On(s)
    BY <1>2, <1>4
  <2>2. p \notin On(s)
    BY <1>1, <1>2, <1>4, <2>1 DEF PictureAlone
  <2>3. picture'[s] = picture[s]
    BY <1>1, <2>2
  <2>4. p \notin On(s)'
    BY <1>1, <2>1, <2>2
  <2> QED
    BY <1>1, <1>2, <1>4, <2>1, <2>3, <2>4 DEF PictureAlone
<1> QED
  BY <1>3, <1>4

\* A step keeps cuts apart from the builder's pushes, and writes a list only
\* when those about to cut it are, or become, stale.
LEMMA ListAloneKept ==
    ASSUME ProfileTypeOK, ListAlone, NEW p \in Request, NEW x, Goto(p, x), raced \subseteq raced',
           stale \ {p} \subseteq stale',
           \A s \in ListSlot \ raced' :
               files'[s] = files[s] \/ \A q \in On(s) \ {p} : Cutting(q) => q \in stale',
           x # Idle /\ x.on \in ListSlot \ raced' =>
               /\ x.at = "listCut" => Building(x.on) = {} /\ x.seen = files'[x.on]
               /\ x.at = "builtPush" => \A q \in On(x.on) : ~Cutting(q)
    PROVE  ListAlone'
<1> USE OnAfter
<1>1. SUFFICES ASSUME NEW s \in ListSlot, s \notin raced', NEW q \in On(s)', req'[q].at = "listCut"
               PROVE  /\ \A t \in On(s)' : req'[t].at # "builtPush"
                      /\ q \notin stale' => req'[q].seen = files'[s]
  BY DEF ListAlone, Cutting, At
<1>2. s \notin raced /\ q \in Request
  BY <1>1
<1>3. CASE q = p
  <2>1. x # Idle /\ x.on = s /\ x.at = "listCut"
    BY <1>1, <1>3
  <2>2. Building(s) = {} /\ x.seen = files'[s]
    BY <1>1, <2>1
  <2> QED
    BY <1>1, <1>3, <2>1, <2>2 DEF Building, At
<1>4. CASE q # p
  <2>1. q \in On(s) /\ Cutting(q)
    BY <1>1, <1>2, <1>4 DEF Cutting, At
  <2>2. \A t \in On(s)' : req'[t].at # "builtPush"
    <3>1. SUFFICES ASSUME NEW t \in On(s)', req'[t].at = "builtPush"
                   PROVE  FALSE
      OBVIOUS
    <3>2. CASE t = p
      BY <1>1, <2>1, <3>1, <3>2
    <3>3. CASE t # p
      BY <1>1, <1>2, <2>1, <3>1, <3>3 DEF ListAlone, At
    <3> QED
      BY <3>2, <3>3
  <2>3. ASSUME q \notin stale'
        PROVE  req'[q].seen = files'[s]
    <3>1. q \notin stale /\ files'[s] = files[s]
      BY <1>1, <1>4, <2>1, <2>3
    <3> QED
      BY <1>1, <1>2, <1>4, <2>1, <3>1 DEF ListAlone
  <2> QED
    BY <2>2, <2>3
<1> QED
  BY <1>3, <1>4

\* A step that writes no place, and leaves, or has nothing to do with, them all.
LEMMA AloneAside ==
    ASSUME ProfileTypeOK, PictureAlone, ListAlone, NEW p \in Request, NEW x, Goto(p, x),
           UNCHANGED <<picture, files>>, raced \subseteq raced', stale \ {p} \subseteq stale',
           x = Idle \/ x.on \notin Slot
    PROVE  PictureAlone' /\ ListAlone'
<1>1. PictureAlone'
  BY PictureAloneKept DEF Slot
<1>2. ListAlone'
  BY ListAloneKept DEF Slot
<1> QED
  BY <1>1, <1>2

LEMMA AlonePictureStarts ==
    ASSUME ProfileTypeOK, PictureAlone, ListAlone, NEW p \in Request, NEW s \in PictureSlot,
           \/ UserPictureStart(p, s)
           \/ CompanyPictureStart(p, s)
           \/ PictureDeleteStart(p, s)
    PROVE  PictureAlone' /\ ListAlone'
<1>1. PICK x : /\ Goto(p, x) /\ x.on = s
               /\ x.at \in {"pictureRead", "picturePut", "pictureUnset"}
               /\ x.at \in Replacing => x.old = picture[s]
  <2>1. CASE UserPictureStart(p, s)
    <3>1. PICK k \in Key : Goto(p, [at |-> "pictureRead", on |-> s, key |-> k, old |-> Null])
      BY <2>1 DEF UserPictureStart
    <3> QED
      BY <3>1 DEF Replacing
  <2>2. ASSUME NEW a \in {"picturePut", "pictureUnset"},
               Goto(p, [at |-> a, on |-> s, key |-> Null, old |-> picture[s]])
        PROVE  \E x : /\ Goto(p, x) /\ x.on = s
                      /\ x.at \in {"picturePut", "pictureUnset"}
                      /\ x.old = picture[s]
    BY <2>2
  <2> QED
    BY <2>1, <2>2 DEF CompanyPictureStart, PictureDeleteStart
<1>2. UNCHANGED <<picture, files, stale>> /\ raced' = Overlap(s)
  BY DEF UserPictureStart, CompanyPictureStart, PictureDeleteStart, fileVars
<1>3. raced \subseteq raced' /\ (s \notin raced' => On(s) = {})
  BY <1>2 DEF Overlap
<1>4. PictureAlone'
  BY <1>1, <1>2, <1>3, PictureAloneKept
<1>5. ListAlone'
  <2>1. x.on \notin ListSlot
    BY <1>1, Places
  <2> QED
    BY <1>1, <1>2, <1>3, <2>1, ListAloneKept
<1> QED
  BY <1>4, <1>5

LEMMA AlonePictureWork ==
    ASSUME ProfileTypeOK, PictureAlone, ListAlone, NEW p \in Request,
           \/ UserPictureRead(p) \/ CompanyPicturePut(p)
           \/ PictureSave(p) \/ PictureUnset(p) \/ PictureClean(p)
    PROVE  PictureAlone' /\ ListAlone'
<1>r. req[p] \in ProfileRequest
  BY DEF ProfileTypeOK
<1>b. /\ req[p].at \in PictureWork /\ req[p].on \in PictureSlot
      /\ req[p].key \in Key \cup {Null} /\ req[p].old \in Key \cup {Null}
      /\ req[p] # Idle /\ p \in On(req[p].on)
  <2>1. req[p].at \in PictureWork
    BY DEF UserPictureRead, CompanyPicturePut, PictureSave, PictureUnset, PictureClean, At, PictureWork
  <2>2. req[p] # Idle
    BY <2>1 DEF Idle, PictureWork
  <2> QED
    BY <1>r, <2>1, <2>2, ProfileLocals DEF On, Busy
<1>w. req[p].on \notin ListSlot
  BY <1>b, Places
<1>1. CASE UserPictureRead(p)
  <2> DEFINE x == [at |-> "pictureSave", on |-> req[p].on, key |-> req[p].key, old |-> picture[req[p].on]]
  <2>1. Goto(p, x)
    <3>1. picture[req[p].on] \in Key \cup {Null}
      BY <1>b DEF ProfileTypeOK
    <3> QED
      BY <1>1, <1>r, <3>1, ProfileMoves DEF UserPictureRead, At
  <2>2. x.on = req[p].on /\ x.old = picture[req[p].on] /\ x.at = "pictureSave"
    OBVIOUS
  <2>3. UNCHANGED <<picture, files, raced>> /\ stale \ {p} \subseteq stale'
    BY <1>1 DEF UserPictureRead, fileVars
  <2> HIDE DEF x
  <2>4. PictureAlone'
    BY <1>b, <2>1, <2>2, <2>3, PictureAloneKept
  <2>5. ListAlone'
    BY <1>w, <2>1, <2>2, <2>3, ListAloneKept
  <2> QED
    BY <2>4, <2>5
<1>2. CASE CompanyPicturePut(p)
  <2>1. PICK k \in Key : Goto(p, [req[p] EXCEPT !.at = "pictureSave", !.key = k])
    BY <1>2 DEF CompanyPicturePut
  <2> DEFINE x == [at |-> "pictureSave", on |-> req[p].on, key |-> k, old |-> req[p].old]
  <2>2. Goto(p, x)
    BY <1>2, <1>r, <2>1, ProfileMoves DEF CompanyPicturePut, At
  <2>3. x.on = req[p].on /\ x.old = req[p].old
    OBVIOUS
  <2>4. UNCHANGED <<picture, files, raced, stale>> /\ req[p].at \in Replacing
    BY <1>2 DEF CompanyPicturePut, At, Replacing
  <2>5. req[p].on \notin raced => req[p].old = picture[req[p].on]
    BY <1>b, <2>4 DEF PictureAlone
  <2> HIDE DEF x
  <2>6. PictureAlone'
    BY <1>b, <2>2, <2>3, <2>4, <2>5, PictureAloneKept
  <2>7. ListAlone'
    BY <1>w, <2>2, <2>3, <2>4, ListAloneKept
  <2> QED
    BY <2>6, <2>7
<1>3. ASSUME req[p].at \in {"pictureSave", "pictureUnset"}, ThenClean(p), UNCHANGED <<files, raced>>,
             NEW v, picture' = [picture EXCEPT ![req[p].on] = v]
      PROVE  PictureAlone' /\ ListAlone'
  <2>1. PICK x : /\ Goto(p, x) /\ stale \ {p} \subseteq stale'
                 /\ (x = Idle \/ (x.at = "pictureClean" /\ x.on = req[p].on))
    <3>1. CASE Done(p)
      <4>1. Goto(p, Idle) /\ stale \ {p} \subseteq stale'
        BY <3>1 DEF Done
      <4> QED
        BY <4>1
    <3>2. CASE /\ Goto(p, [at |-> "pictureClean", on |-> req[p].on, key |-> req[p].key, old |-> req[p].old])
               /\ UNCHANGED stale
      BY <3>2
    <3> QED
      BY <1>3, <3>1, <3>2, ThenCleanSlot
  <2>2. \A s \in PictureSlot : picture'[s] = picture[s] \/ p \in On(s)
    BY <1>3, <1>b DEF ProfileTypeOK
  <2>3. PictureAlone'
    BY <1>3, <1>b, <2>1, <2>2, PictureAloneKept DEF Replacing
  <2>4. ListAlone'
    BY <1>3, <1>w, <2>1, ListAloneKept
  <2> QED
    BY <2>3, <2>4
<1>4. CASE PictureSave(p)
  BY <1>3, <1>4 DEF PictureSave, At
<1>5. CASE PictureUnset(p)
  BY <1>3, <1>5 DEF PictureUnset, At
<1>6. CASE PictureClean(p)
  BY <1>6, AloneAside DEF PictureClean, Done
<1> QED
  BY <1>1, <1>2, <1>4, <1>5, <1>6

LEMMA AloneListStarts ==
    ASSUME ProfileTypeOK, PictureAlone, ListAlone, NEW p \in Request,
           \/ \E s \in ListSlot : ListAddStart(p, s) \/ ListDeleteStart(p, s)
           \/ generateAndUpload(p)
    PROVE  PictureAlone' /\ ListAlone'
<1>s. PICK s \in ListSlot : \E x :
         /\ Goto(p, x) /\ x.on = s /\ raced \subseteq raced'
         /\ x.at = "listCut" =>
               /\ x.seen = files[s]
               /\ s \notin raced' => Building(s) = {}
         /\ x.at = "builtPush" /\ s \notin raced' => \A q \in On(s) : ~Cutting(q)
  <2>1. CASE generateAndUpload(p)
    <3> DEFINE s == <<"user", "resumeURL">>
    <3>1. PICK k \in Key :
             /\ Goto(p, [at |-> "builtPush", on |-> s, key |-> k])
             /\ raced' = IF \E q \in On(s) : At(q, "listCut") THEN raced \cup {s} ELSE raced
      BY <2>1 DEF generateAndUpload
    <3>2. s \in ListSlot
      BY DEF ListSlot
    <3> HIDE DEF s
    <3> DEFINE x == [at |-> "builtPush", on |-> s, key |-> k]
    <3>3. Goto(p, x) /\ x.on = s /\ x.at = "builtPush" /\ raced \subseteq raced'
      BY <3>1
    <3>4. s \notin raced' => \A q \in On(s) : ~Cutting(q)
      BY <3>1 DEF Cutting
    <3> HIDE DEF x
    <3> QED
      BY <3>2, <3>3, <3>4
  <2>2. ASSUME NEW s \in ListSlot, ListAddStart(p, s) \/ ListDeleteStart(p, s)
        PROVE  \E x : /\ Goto(p, x) /\ x.on = s /\ raced \subseteq raced'
                      /\ x.at = "listCut" =>
                            /\ x.seen = files[s]
                            /\ s \notin raced' => Building(s) = {}
                      /\ x.at # "builtPush"
    <3>1. CASE ListAddStart(p, s)
      <4>1. Goto(p, [at |-> "listPut", on |-> s]) /\ raced' = raced
        BY <3>1 DEF ListAddStart
      <4> QED
        BY <4>1
    <3>2. CASE ListDeleteStart(p, s)
      <4>1. PICK k : Goto(p, [at |-> "listCut", on |-> s, key |-> k, seen |-> files[s]])
        BY <3>2 DEF ListDeleteStart
      <4>2. raced' = IF Building(s) = {} THEN raced ELSE raced \cup {s}
        BY <3>2 DEF ListDeleteStart
      <4> QED
        BY <4>1, <4>2
    <3> QED
      BY <2>2, <3>1, <3>2
  <2> QED
    BY <2>1, <2>2
<1>1. PICK x :
         /\ Goto(p, x) /\ x.on = s /\ raced \subseteq raced'
         /\ x.at = "listCut" =>
               /\ x.seen = files[s]
               /\ s \notin raced' => Building(s) = {}
         /\ x.at = "builtPush" /\ s \notin raced' => \A q \in On(s) : ~Cutting(q)
  BY <1>s
<1>2. UNCHANGED <<picture, files, stale>>
  BY DEF ListAddStart, ListDeleteStart, generateAndUpload, fileVars
<1>3. PictureAlone'
  <2>1. x.on \notin PictureSlot
    BY <1>1, Places
  <2> QED
    BY <1>1, <1>2, <2>1, PictureAloneKept
<1>4. ListAlone'
  BY <1>1, <1>2, ListAloneKept
<1> QED
  BY <1>3, <1>4

LEMMA AloneListWork ==
    ASSUME ProfileTypeOK, PictureAlone, ListAlone, NEW p \in Request,
           ListPut(p) \/ ListPush(p) \/ BuiltPush(p) \/ ListCut(p) \/ ListClean(p)
    PROVE  PictureAlone' /\ ListAlone'
<1>r. req[p] \in ProfileRequest
  BY DEF ProfileTypeOK
<1>b. /\ req[p].at \in ListWork /\ req[p].on \in ListSlot /\ req[p].on \notin PictureSlot
      /\ req[p] # Idle /\ p \in On(req[p].on)
  <2>1. req[p].at \in ListWork
    BY DEF ListPut, ListPush, BuiltPush, ListCut, ListClean, At, ListWork
  <2>2. req[p] # Idle
    BY <2>1 DEF Idle, ListWork
  <2> QED
    BY <1>r, <2>1, <2>2, ProfileLocals, Places DEF On, Busy
\* What the cutters of the place find.
<1>f. ASSUME NEW new, files' = [files EXCEPT ![req[p].on] = new],
             \A q \in On(req[p].on) \ {p} : Cutting(q) => q \in stale' \/ req[p].on \in raced
      PROVE  \A s \in ListSlot \ raced :
                files'[s] = files[s] \/ \A q \in On(s) \ {p} : Cutting(q) => q \in stale'
  BY <1>f, <1>b DEF ProfileTypeOK
<1>m. ASSUME stale' = (stale \cup Readers(req[p].on[1])) \ {p}
      PROVE  /\ stale \ {p} \subseteq stale'
             /\ \A q \in On(req[p].on) \ {p} : q \in stale'
  BY <1>m DEF On, Readers
<1>1. CASE ListPut(p)
  <2>1. PICK k \in Key : Goto(p, [at |-> "listPush", on |-> req[p].on, key |-> k])
    BY <1>1 DEF ListPut
  <2> DEFINE x == [at |-> "listPush", on |-> req[p].on, key |-> k]
  <2>2. Goto(p, x) /\ x.on = req[p].on /\ x.at = "listPush"
    BY <2>1
  <2>3. UNCHANGED <<picture, files, raced, stale>>
    BY <1>1 DEF ListPut
  <2> HIDE DEF x
  <2>4. PictureAlone'
    BY <1>b, <2>2, <2>3, PictureAloneKept
  <2>5. ListAlone'
    BY <1>b, <2>2, <2>3, ListAloneKept
  <2> QED
    BY <2>4, <2>5
<1>2. CASE ListPush(p) \/ BuiltPush(p)
  <2>1. Goto(p, Idle) /\ UNCHANGED <<picture, raced>> /\ stale \ {p} \subseteq stale'
    BY <1>2, <1>m DEF ListPush, BuiltPush, Done, DoneMoving
  <2>2. files' = [files EXCEPT ![req[p].on] = files[req[p].on] \cup {req[p].key}]
    BY <1>2 DEF ListPush, BuiltPush
  <2>3. \A q \in On(req[p].on) \ {p} : Cutting(q) => q \in stale' \/ req[p].on \in raced
    <3>1. CASE ListPush(p)
      BY <1>m, <3>1 DEF ListPush, DoneMoving
    <3>2. CASE BuiltPush(p)
      BY <1>b, <3>2 DEF BuiltPush, ListAlone
    <3> QED
      BY <1>2, <3>1, <3>2
  <2>4. PictureAlone'
    BY <2>1, PictureAloneKept
  <2>5. ListAlone'
    <3>1. \A s \in ListSlot \ raced' :
             files'[s] = files[s] \/ \A q \in On(s) \ {p} : Cutting(q) => q \in stale'
      BY <1>f, <2>1, <2>2, <2>3
    <3> QED
      BY <2>1, <3>1, ListAloneKept
  <2> QED
    BY <2>4, <2>5
<1>3. CASE ListCut(p)
  <2> DEFINE x == [at |-> "listClean", on |-> req[p].on, key |-> req[p].key]
  <2>1. /\ UNCHANGED picture /\ raced \subseteq raced'
        /\ \/ Goto(p, x) /\ UNCHANGED <<files, stale>>
           \/ /\ Goto(p, x) /\ files' = [files EXCEPT ![req[p].on] = req[p].seen \ {req[p].key}]
              /\ stale' = (stale \cup Readers(req[p].on[1])) \ {p}
           \/ Done(p) /\ UNCHANGED files
    BY <1>3 DEF ListCut, Goto, UnderJudgement
  <2>2. x.at = "listClean" /\ x.on = req[p].on
    OBVIOUS
  <2> HIDE DEF x
  <2>3. CASE Done(p) /\ UNCHANGED files
    BY <2>1, <2>3, AloneAside DEF Done
  <2>4. ASSUME Goto(p, x),
               \/ UNCHANGED <<files, stale>>
               \/ /\ files' = [files EXCEPT ![req[p].on] = req[p].seen \ {req[p].key}]
                  /\ stale' = (stale \cup Readers(req[p].on[1])) \ {p}
        PROVE  PictureAlone' /\ ListAlone'
    <3>1. \A s \in ListSlot \ raced :
             files'[s] = files[s] \/ \A q \in On(s) \ {p} : Cutting(q) => q \in stale'
      BY <1>f, <1>m, <2>4
    <3>2. stale \ {p} \subseteq stale'
      BY <1>m, <2>4
    <3>3. PictureAlone'
      BY <1>b, <2>1, <2>2, <2>4, PictureAloneKept
    <3>4. ListAlone'
      BY <1>b, <2>1, <2>2, <2>4, <3>1, <3>2, ListAloneKept
    <3> QED
      BY <3>3, <3>4
  <2> QED
    BY <2>1, <2>3, <2>4
<1>4. CASE ListClean(p)
  BY <1>4, AloneAside DEF ListClean, Done
<1> QED
  BY <1>1, <1>2, <1>3, <1>4

\* A body marks the places whose names it changes.
LEMMA BodyNames ==
    ASSUME updateUserProfile \/ updateBasicProfile
    PROVE  /\ \E o, fields : WritesNames(o, fields)
           /\ Renamed \subseteq raced' /\ raced \subseteq raced'
           /\ UNCHANGED <<bucket, home, req, stale>>
<1>1. \E o, fields : WritesNames(o, fields)
  <2>1. CASE updateUserProfile
    <3>1. PICK fields \in UserBody : WritesNames("user", fields)
      BY <2>1 DEF updateUserProfile
    <3> QED
      BY <3>1
  <2>2. CASE updateBasicProfile
    <3>1. PICK fields \in CompanyBody : WritesNames("company", fields)
      BY <2>2 DEF updateBasicProfile
    <3> QED
      BY <3>1
  <2> QED
    BY <2>1, <2>2
<1>2. UNCHANGED <<bucket, home>>
  BY <1>1 DEF WritesNames
<1>3. Renamed \subseteq raced' /\ raced \subseteq raced' /\ UNCHANGED <<req, stale>>
  BY DEF updateUserProfile, updateBasicProfile, UnderJudgement
<1> QED
  BY <1>1, <1>2, <1>3

LEMMA AloneBodies ==
    ASSUME ProfileTypeOK, PictureAlone, ListAlone, updateUserProfile \/ updateBasicProfile
    PROVE  PictureAlone' /\ ListAlone'
<1>1. /\ Renamed \subseteq raced' /\ raced \subseteq raced'
      /\ UNCHANGED <<req, stale>>
  BY BodyNames
<1>2. picture' \in [PictureSlot -> Key \cup {Null}]
  BY BodyNames, NameTypes
<1>3. \A s \in PictureSlot \ raced' : picture'[s] = picture[s]
  <2>1. SUFFICES ASSUME NEW s \in PictureSlot, s \notin raced' PROVE picture'[s] = picture[s]
    OBVIOUS
  <2>2. Named(s)' = Named(s)
    BY <1>1, <2>1 DEF Renamed, Slot
  <2>3. {picture'[s]} \ {Null} = {picture[s]} \ {Null}
    BY <2>1, <2>2, Places DEF Named
  <2> QED
    BY <2>3
<1>4. \A s \in ListSlot \ raced' : files'[s] = files[s]
  BY <1>1 DEF Renamed, Slot, Named
<1>5. \A s : On(s)' = On(s)
  BY <1>1 DEF On, Busy
<1>6. PictureAlone'
  BY <1>1, <1>3, <1>5 DEF PictureAlone
<1>7. ListAlone'
  BY <1>1, <1>4, <1>5 DEF ListAlone, Cutting, At
<1> QED
  BY <1>6, <1>7

\* What leaves every place as it is, or marks it: the entries, the verification,
\* a request that fails, the bodies.
LEMMA AloneOthers ==
    ASSUME ProfileTypeOK, Indexed, PictureAlone, ListAlone,
           \/ \E p \in Request : EntryStep(p) \/ VerificationStep(p) \/ RequestFails(p)
           \/ updateUserProfile \/ updateBasicProfile \/ updateAddress
           \/ UNCHANGED profileVars
    PROVE  PictureAlone' /\ ListAlone'
<1>1. ASSUME NEW p \in Request, NEW x, Goto(p, x), x = Idle \/ x.on \notin Slot,
             UNCHANGED fileVars, raced \subseteq raced', stale \ {p} \subseteq stale'
      PROVE  PictureAlone' /\ ListAlone'
  BY <1>1, AloneAside DEF fileVars
<1>2. ASSUME NEW p \in Request, Done(p) \/ \E o : DoneMoving(p, o),
             UNCHANGED fileVars, raced \subseteq raced'
      PROVE  PictureAlone' /\ ListAlone'
  BY <1>1, <1>2 DEF Done, DoneMoving
<1>3. ASSUME NEW p \in Request, NEW l \in EntryList, Added(p, l) \/ Deleted(p, l) \/ Updated(p, l)
      PROVE  PictureAlone' /\ ListAlone'
  <2>1. PICK x \in ProfileRequest : /\ Goto(p, x) /\ x.at \in Editing /\ x.on = <<"user", l>>
                                    /\ UNCHANGED <<fileVars, stale>> /\ raced' = Overlapped(l)
    BY <1>3, EntryBegins
  <2>2. x.on \notin Slot /\ raced \subseteq raced'
    BY <2>1, Places, ProfileLocals DEF Overlapped
  <2> QED
    BY <1>1, <2>1, <2>2
<1>4. ASSUME NEW p \in Request, EntryStep(p)
      PROVE  PictureAlone' /\ ListAlone'
  BY <1>2, <1>3, <1>4
     DEF EntryStep, addUserEducation, updateUserEducation, deleteUserEducation, addUserExperience,
         updateUserExperience, deleteUserExperience, EntryList, AddSave, DeleteSave, UpdateSave
<1>5. ASSUME NEW p \in Request, VerificationStep(p)
      PROVE  PictureAlone' /\ ListAlone'
  <2>1. ASSUME NEW a \in Judging, Judges(p, a)
        PROVE  PictureAlone' /\ ListAlone'
    <3>1. Goto(p, [at |-> a, on |-> Verification]) /\ UNCHANGED <<fileVars, stale>> /\ raced \subseteq raced'
      BY <2>1 DEF Judges, Verification
    <3>2. [at |-> a, on |-> Verification].on \notin Slot
      BY Places
    <3> QED
      BY <1>1, <3>1, <3>2
  <2>2. ASSUME NEW a, NEW v, Writes(p, a, v), Done(p) \/ DoneMoving(p, "company")
        PROVE  PictureAlone' /\ ListAlone'
    BY <1>2, <2>2 DEF Writes
  <2> QED
    BY <1>5, <2>1, <2>2
       DEF VerificationStep, verifyCompany, VerifySave, rejectCompanyVerification, RejectSave,
           reapplyForVerification, ReapplySave, Judging
<1>6. ASSUME NEW p \in Request, RequestFails(p)
      PROVE  PictureAlone' /\ ListAlone'
  BY <1>2, <1>6 DEF RequestFails
<1>7. ASSUME UNCHANGED <<fileVars, req, stale>>, raced \subseteq raced'
      PROVE  PictureAlone' /\ ListAlone'
  BY <1>7 DEF PictureAlone, ListAlone, Cutting, At, On, Busy, fileVars
<1>8. updateAddress => UNCHANGED <<fileVars, req, stale>> /\ raced \subseteq raced'
  BY DEF updateAddress, UnderJudgement
<1> QED
  BY <1>4, <1>5, <1>6, <1>7, <1>8, AloneBodies DEF profileVars

LEMMA AloneStep ==
    ASSUME ProfileTypeOK, Indexed, PictureAlone, ListAlone, [ProfileNext]_profileVars
    PROVE  PictureAlone' /\ ListAlone'
<1>1. ASSUME NEW p \in Request, FileStep(p)
      PROVE  PictureAlone' /\ ListAlone'
  <2>1. ASSUME UserFileStep(p)
        PROVE  PictureAlone' /\ ListAlone'
    BY <2>1, AlonePictureStarts, AloneListStarts
       DEF UserFileStep, updateUserProfilePicture, deleteUserProfilePicture, updateUserBannerImage,
           deleteUserBannerImage, uploadCertificate, deleteCertificate, uploadResume, deleteResume,
           PictureSlot, ListSlot, Owner, Picture
  <2>2. ASSUME CompanyFileStep(p)
        PROVE  PictureAlone' /\ ListAlone'
    BY <2>2, AlonePictureStarts, AloneListStarts
       DEF CompanyFileStep, updateProfilePicture, deleteProfilePicture, updateBannerImage,
           deleteBannerImage, uploadDocument, deleteDocument, PictureSlot, ListSlot, Owner, Picture
  <2> QED
    BY <1>1, <2>1, <2>2, AlonePictureWork, AloneListWork DEF FileStep
<1> QED
  BY <1>1, AloneOthers DEF ProfileNext, ProfileStep

-----------------------------------------------------------------------------
(***************************************************************************)
(* Files: a key is named, or in one request's hand, and what is to be      *)
(* deleted is neither named nor about to be.                               *)
(***************************************************************************)

FreshOf(r) == {k \in Key : r.at \in Uploading \ {"listPut"} /\ r.key = k}

GoingOf(r) == {k \in Key : (r.at = "pictureClean" /\ r.old = k) \/ (r.at = "listClean" /\ r.key = k)}

\* The picture that a request found, and will delete.
HeldOf(r) == {k \in Key : r.at \in Replacing /\ r.old = k}

StoredAtHome == \A k \in bucket : home[k] \in Slot

\* A key that no client gave is named where it was stored for.
NamedAtHome == \A s \in Slot : \A k \in Named(s) \ given : k \in bucket /\ home[k] = s

\* A file to be named is in one hand only, and nowhere named before unless a
\* client gave its key.
FreshAlone ==
    \A p \in Request : \A k \in FreshOf(req[p]) :
        /\ home[k] = req[p].on
        /\ \A q \in Request : k \in FreshOf(req[q]) => q = p
        /\ k \notin given => k \in bucket /\ \A s \in Slot : k \notin Named(s)

\* A file to be deleted is no longer named and will not be.
GoingUnnamed ==
    \A p \in Request : \A k \in GoingOf(req[p]) \ given :
        /\ home[k] \in Slot
        /\ \A s \in Slot : k \notin Named(s)
        /\ \A q \in Request : k \notin FreshOf(req[q])

\* Nor is a file that was found to be named about to be named.
HeldNamed ==
    \A p \in Request : \A k \in HeldOf(req[p]) \ given :
        /\ home[k] = req[p].on
        /\ \A q \in Request : k \notin FreshOf(req[q])

\* What a cut was shown is stored yet and nobody is about to delete it, unless
\* the cut is stale.
CutShown ==
    \A p \in Request : Cutting(p) /\ p \notin stale =>
        \A j \in req[p].seen \ given :
            /\ home[j] = req[p].on /\ j \in bucket
            /\ \A q \in Request : j \notin FreshOf(req[q]) /\ j \notin GoingOf(req[q])

\* StraysExplained, of the slots themselves.
Explained(k) ==
    \/ k \in Named(home[k])
    \/ \E p \in Request : k \in FreshOf(req[p]) \cup GoingOf(req[p]) /\ req[p].on = home[k]
    \/ home[k] \in raced

StraysHeld == \A k \in bucket : Explained(k)

FileInv ==
    /\ StoredAtHome /\ NamedAtHome
    /\ FreshAlone /\ GoingUnnamed /\ HeldNamed /\ CutShown
    /\ StraysHeld

LEMMA HandOf == \A p \in Request : /\ Fresh(p) = FreshOf(req[p])
                                   /\ Going(p) = GoingOf(req[p])
                                   /\ InHand(p) = FreshOf(req[p]) \cup GoingOf(req[p])
  BY DEF Fresh, FreshOf, Going, GoingOf, InHand, At

\* Where a slot's file belongs.
LEMMA HandPlaces ==
    ASSUME NEW r \in ProfileRequest
    PROVE  /\ (FreshOf(r) # {} => r.on \in Slot)
           /\ (GoingOf(r) # {} => r.on \in Slot)
           /\ (HeldOf(r) # {} => r.on \in PictureSlot)
           /\ (r.at = "listCut" => r.on \in ListSlot /\ r.key \in Key /\ r.seen \subseteq Key)
           /\ (r.at \in {"idle", "listPut", "pictureUnset", "picturePut", "listCut"} \cup Editing \cup Judging
                 => FreshOf(r) = {} /\ GoingOf(r) = {})
           /\ (r.at \in {"idle", "listPut", "listCut", "pictureRead", "pictureClean", "listPush",
                         "builtPush", "listClean"} \cup Editing \cup Judging
                 => HeldOf(r) = {})
           /\ (r.at \in Cleaning => FreshOf(r) = {})
           /\ (r.at \in Uploading \ {"listPut"} => GoingOf(r) = {} /\ FreshOf(r) = {r.key} \cap Key)
<1>1. r.at \in PictureWork => r.on \in PictureSlot /\ r.key \in Key \cup {Null}
  BY ProfileLocals
<1>2. r.at \in ListWork => r.on \in ListSlot
  BY ProfileLocals
<1>3. r.at \in {"picturePut", "pictureUnset"} => r.key = Null
  BY KeylessSlots
<1>4. r.at = "listCut" => r.key \in Key /\ r.seen \subseteq Key
  BY ProfileLocals DEF ListWork
<1>5. Null \notin Key
  BY ProfileAssumption
<1> QED
  BY <1>1, <1>2, <1>3, <1>4, <1>5
     DEF FreshOf, GoingOf, HeldOf, Slot, PictureWork, ListWork, Uploading, Cleaning, Replacing,
         Editing, Judging

LEMMA NamedProps ==
    /\ \A s \in PictureSlot : Named(s) = {picture[s]} \ {Null}
    /\ \A s \in ListSlot : Named(s) = files[s]
  BY Places DEF Named

NamedPropsAfter ==
    /\ \A s \in PictureSlot : Named(s)' = {picture'[s]} \ {Null}
    /\ \A s \in ListSlot : Named(s)' = files'[s]

LEMMA NamedAfter == NamedPropsAfter
  BY Places DEF Named, NamedPropsAfter

LEMMA NamedKept ==
    ASSUME UNCHANGED <<picture, files>>
    PROVE  \A s : Named(s)' = Named(s)
  BY DEF Named

LEMMA NamedKeys ==
    ASSUME ProfileTypeOK
    PROVE  \A s \in Slot : Named(s) \subseteq Key
<1>1. SUFFICES ASSUME NEW s \in Slot PROVE Named(s) \subseteq Key
  OBVIOUS
<1>2. CASE s \in PictureSlot
  BY <1>2, NamedProps DEF ProfileTypeOK
<1>3. CASE s \in ListSlot
  BY <1>3, NamedProps DEF ProfileTypeOK
<1> QED
  BY <1>2, <1>3 DEF Slot

\* A step that touches no file, and of whose slots none holds any after it.
LEMMA FileAside ==
    ASSUME ProfileTypeOK, FileInv, UNCHANGED fileVars, raced \subseteq raced',
           \A q \in Request :
              \/ req'[q] = req[q] /\ (q \in stale => q \in stale')
              \/ /\ FreshOf(req'[q]) = {} /\ GoingOf(req'[q]) = {} /\ HeldOf(req'[q]) = {}
                 /\ req'[q].at # "listCut"
                 /\ FreshOf(req[q]) \cup GoingOf(req[q]) # {} => req[q].on \in raced'
    PROVE  FileInv'
<1> USE DEF FileInv, fileVars
<1>n. \A s : Named(s)' = Named(s)
  BY NamedKept
<1>1. StoredAtHome'
  BY DEF StoredAtHome
<1>2. NamedAtHome'
  BY <1>n DEF NamedAtHome
<1>3. FreshAlone'
  BY <1>n DEF FreshAlone
<1>4. GoingUnnamed'
  BY <1>n DEF GoingUnnamed
<1>5. HeldNamed'
  BY DEF HeldNamed
<1>6. CutShown'
  BY DEF CutShown, Cutting, At
<1>7. StraysHeld'
  <2>1. SUFFICES ASSUME NEW k \in bucket
                 PROVE  \/ k \in Named(home[k])
                        \/ \E p \in Request : k \in FreshOf(req'[p]) \cup GoingOf(req'[p])
                                                 /\ req'[p].on = home[k]
                        \/ home[k] \in raced'
    BY <1>n DEF StraysHeld, Explained, Named
  <2>2. ASSUME NEW p \in Request, k \in FreshOf(req[p]) \cup GoingOf(req[p]), req[p].on = home[k]
        PROVE  \/ k \in FreshOf(req'[p]) \cup GoingOf(req'[p]) /\ req'[p].on = home[k]
               \/ home[k] \in raced'
    BY <2>2
  <2> QED
    BY <2>1, <2>2 DEF StraysHeld, Explained
<1> QED
  BY <1>1, <1>2, <1>3, <1>4, <1>5, <1>6, <1>7

\* A file is stored, under a new key, in the hand of p.
LEMMA FilePut ==
    ASSUME ProfileTypeOK, FileInv, NEW p \in Request, NEW x \in ProfileRequest, Goto(p, x),
           NEW k \in Key, NEW s \in Slot, Put(k, s), UNCHANGED <<picture, files, given>>,
           x.at \in Uploading \ {"listPut"}, x.key = k, x.on = s,
           req[p].at \in {"idle", "picturePut", "listPut"},
           HeldOf(x) # {} => HeldOf(x) \subseteq HeldOf(req[p]) /\ req[p].on = s,
           raced \subseteq raced', stale \ {p} \subseteq stale'
    PROVE  FileInv'
<1> USE DEF FileInv
<1>n. \A t : Named(t)' = Named(t)
  BY NamedKept
<1>q. req'[p] = x /\ \A q \in Request \ {p} : req'[q] = req[q]
  BY ProfileSlots DEF ProfileTypeOK
<1>t. \A q \in Request : req[q] \in ProfileRequest
  BY DEF ProfileTypeOK
<1>p. FreshOf(req[p]) = {} /\ GoingOf(req[p]) = {}
  BY <1>t, HandPlaces
<1>x. FreshOf(x) = {k} /\ GoingOf(x) = {} /\ x.at # "listCut"
  BY HandPlaces DEF Uploading
<1>h. /\ home[k] = Null /\ home'[k] = s /\ bucket' = bucket \cup {k}
      /\ \A j \in Key \ {k} : home'[j] = home[j]
  BY DEF Put, ProfileTypeOK
\* Nobody has anything to do with a key before it is used, unless it was given.
<1>k. /\ k \notin bucket
      /\ \A q \in Request : k \notin FreshOf(req[q])
      /\ k \notin given => /\ \A t \in Slot : k \notin Named(t)
                           /\ \A q \in Request : k \notin GoingOf(req[q]) /\ k \notin HeldOf(req[q])
      /\ \A q \in Request : Cutting(q) /\ q \notin stale => k \notin req[q].seen \ given
  <2>1. Null \notin Slot
    BY ProfileAssumption
  <2>2. k \notin bucket /\ (k \notin given => \A t \in Slot : k \notin Named(t))
    BY <1>h, <2>1 DEF StoredAtHome, NamedAtHome
  <2>3. ASSUME NEW q \in Request
        PROVE  /\ k \notin FreshOf(req[q])
               /\ k \notin given => k \notin GoingOf(req[q]) /\ k \notin HeldOf(req[q])
    BY <1>h, <1>t, <2>1, HandPlaces DEF FreshAlone, GoingUnnamed, HeldNamed, Slot
  <2>4. ASSUME NEW q \in Request, Cutting(q), q \notin stale, k \in req[q].seen \ given
        PROVE  FALSE
    <3>1. home[k] = req[q].on
      BY <2>4 DEF CutShown
    <3>2. req[q].on \in Slot
      BY <1>t, <2>4, HandPlaces DEF Cutting, At, Slot
    <3> QED
      BY <1>h, <2>1, <3>1, <3>2
  <2> QED
    BY <2>2, <2>3, <2>4
<1>b. bucket \subseteq Key /\ \A t \in Slot : Named(t) \subseteq Key
  BY NamedKeys DEF ProfileTypeOK
<1>1. StoredAtHome'
  BY <1>b, <1>h DEF StoredAtHome
<1>2. NamedAtHome'
  BY <1>b, <1>h, <1>k, <1>n DEF NamedAtHome
<1>3. FreshAlone'
  <2>1. SUFFICES ASSUME NEW q \in Request, NEW j \in FreshOf(req'[q])
                 PROVE  /\ home'[j] = req'[q].on
                        /\ \A t \in Request : j \in FreshOf(req'[t]) => t = q
                        /\ j \notin given => j \in bucket' /\ \A t \in Slot : j \notin Named(t)
    BY <1>n DEF FreshAlone
  <2>2. CASE q = p
    BY <1>h, <1>k, <1>q, <1>x, <2>1, <2>2
  <2>3. CASE q # p
    <3>1. j \in FreshOf(req[q]) /\ j # k
      BY <1>k, <1>q, <2>1, <2>3
    <3>2. j \in Key
      BY <3>1 DEF FreshOf
    <3>3. /\ home[j] = req[q].on
          /\ \A t \in Request : j \in FreshOf(req[t]) => t = q
          /\ j \notin given => j \in bucket /\ \A t \in Slot : j \notin Named(t)
      BY <3>1 DEF FreshAlone
    <3> QED
      BY <1>h, <1>q, <1>x, <2>1, <2>3, <3>1, <3>2, <3>3
  <2> QED
    BY <2>2, <2>3
<1>4. GoingUnnamed'
  <2>1. SUFFICES ASSUME NEW q \in Request, NEW j \in GoingOf(req'[q]) \ given
                 PROVE  /\ home'[j] \in Slot /\ \A t \in Slot : j \notin Named(t)
                        /\ \A t \in Request : j \notin FreshOf(req'[t])
    BY <1>n DEF GoingUnnamed
  <2>2. q # p /\ j \in GoingOf(req[q]) /\ j # k
    BY <1>k, <1>q, <1>x, <2>1
  <2>3. j \in Key
    BY <2>2 DEF GoingOf
  <2>4. /\ home[j] \in Slot /\ \A t \in Slot : j \notin Named(t)
        /\ \A t \in Request : j \notin FreshOf(req[t])
    BY <2>1, <2>2 DEF GoingUnnamed
  <2> QED
    BY <1>h, <1>q, <1>x, <2>1, <2>2, <2>3, <2>4
<1>5. HeldNamed'
  <2>1. SUFFICES ASSUME NEW q \in Request, NEW j \in HeldOf(req'[q]) \ given
                 PROVE  /\ home'[j] = req'[q].on
                        /\ \A t \in Request : j \notin FreshOf(req'[t])
    BY DEF HeldNamed
  <2>2. j \in HeldOf(req[q]) /\ req'[q].on = req[q].on
    BY <1>q, <2>1
  <2>3. j \in Key /\ j # k
    BY <1>k, <2>1, <2>2 DEF HeldOf
  <2>4. home[j] = req[q].on /\ \A t \in Request : j \notin FreshOf(req[t])
    BY <2>1, <2>2 DEF HeldNamed
  <2> QED
    BY <1>h, <1>q, <1>x, <2>1, <2>2, <2>3, <2>4
<1>6. CutShown'
  <2>1. SUFFICES ASSUME NEW q \in Request, req'[q].at = "listCut", q \notin stale',
                        NEW j \in req'[q].seen \ given
                 PROVE  /\ home'[j] = req'[q].on /\ j \in bucket'
                        /\ \A t \in Request : j \notin FreshOf(req'[t]) /\ j \notin GoingOf(req'[t])
    BY DEF CutShown, Cutting, At
  <2>2. q # p /\ req'[q] = req[q] /\ Cutting(q) /\ q \notin stale
    BY <1>q, <1>x, <2>1 DEF Cutting, At
  <2>3. /\ home[j] = req[q].on /\ j \in bucket /\ j # k
        /\ \A t \in Request : j \notin FreshOf(req[t]) /\ j \notin GoingOf(req[t])
    BY <1>k, <2>1, <2>2 DEF CutShown
  <2> QED
    BY <1>b, <1>h, <1>q, <1>x, <2>2, <2>3
<1>7. StraysHeld'
  <2>1. SUFFICES ASSUME NEW j \in bucket \cup {k}
                 PROVE  \/ j \in Named(home'[j])
                        \/ \E q \in Request : j \in FreshOf(req'[q]) \cup GoingOf(req'[q])
                                                 /\ req'[q].on = home'[j]
                        \/ home'[j] \in raced'
    BY <1>h DEF StraysHeld, Explained, Named
  <2>2. CASE j = k
    BY <1>h, <1>q, <1>x, <2>2
  <2>3. CASE j # k
    <3>1. j \in bucket /\ home'[j] = home[j]
      BY <1>b, <1>h, <2>1, <2>3
    <3>2. \A q \in Request : j \in FreshOf(req[q]) \cup GoingOf(req[q]) => req'[q] = req[q]
      BY <1>p, <1>q
    <3> QED
      BY <3>1, <3>2 DEF StraysHeld, Explained
  <2> QED
    BY <2>1, <2>2, <2>3
<1> QED
  BY <1>1, <1>2, <1>3, <1>4, <1>5, <1>6, <1>7

\* A slot that goes on with the file in its hand, or finds one that is named.
LEMMA FileMove ==
    ASSUME ProfileTypeOK, FileInv, NEW p \in Request, NEW x, Goto(p, x), UNCHANGED fileVars,
           raced \subseteq raced', stale \ {p} \subseteq stale',
           FreshOf(x) = FreshOf(req[p]), FreshOf(x) # {} => x.on = req[p].on,
           GoingOf(x) = {}, GoingOf(req[p]) = {},
           HeldOf(x) # {} => x.on \in Slot /\ HeldOf(x) \subseteq Named(x.on),
           x.at = "listCut" => x.on \in Slot /\ x.seen = Named(x.on)
    PROVE  FileInv'
<1> USE DEF FileInv, fileVars
<1>n. \A t : Named(t)' = Named(t)
  BY NamedKept
<1>q. req'[p] = x /\ \A q \in Request \ {p} : req'[q] = req[q]
  BY ProfileSlots DEF ProfileTypeOK
<1>f. \A q \in Request : FreshOf(req'[q]) = FreshOf(req[q]) /\ GoingOf(req'[q]) = GoingOf(req[q])
  BY <1>q
<1>o. \A q \in Request : FreshOf(req[q]) \cup GoingOf(req[q]) # {} => req'[q].on = req[q].on
  BY <1>q
<1>1. StoredAtHome' /\ NamedAtHome'
  BY <1>n DEF StoredAtHome, NamedAtHome
<1>2. FreshAlone'
  BY <1>f, <1>n, <1>o DEF FreshAlone
<1>3. GoingUnnamed'
  BY <1>f, <1>n DEF GoingUnnamed
<1>4. HeldNamed'
  <2>1. SUFFICES ASSUME NEW q \in Request, NEW j \in HeldOf(req'[q]) \ given
                 PROVE  /\ home[j] = req'[q].on
                        /\ \A t \in Request : j \notin FreshOf(req[t])
    BY <1>f DEF HeldNamed
  <2>2. CASE q = p
    BY <1>q, <2>1, <2>2 DEF NamedAtHome, FreshAlone
  <2>3. CASE q # p
    BY <1>q, <2>1, <2>3 DEF HeldNamed
  <2> QED
    BY <2>2, <2>3
<1>5. CutShown'
  <2>1. SUFFICES ASSUME NEW q \in Request, req'[q].at = "listCut", q \notin stale',
                        NEW j \in req'[q].seen \ given
                 PROVE  /\ home[j] = req'[q].on /\ j \in bucket
                        /\ \A t \in Request : j \notin FreshOf(req[t]) /\ j \notin GoingOf(req[t])
    BY <1>f DEF CutShown, Cutting, At
  <2>2. CASE q = p
    <3>1. x.on \in Slot /\ j \in Named(x.on) /\ j \notin given
      BY <1>q, <2>1, <2>2
    <3> QED
      BY <1>q, <2>2, <3>1 DEF NamedAtHome, FreshAlone, GoingUnnamed
  <2>3. CASE q # p
    <3>1. req'[q] = req[q] /\ q \notin stale /\ Cutting(q)
      BY <1>q, <2>1, <2>3 DEF Cutting, At
    <3> QED
      BY <2>1, <3>1 DEF CutShown
  <2> QED
    BY <2>2, <2>3
<1>6. StraysHeld'
  <2>1. SUFFICES ASSUME NEW j \in bucket
                 PROVE  \/ j \in Named(home[j])
                        \/ \E q \in Request : j \in FreshOf(req[q]) \cup GoingOf(req[q])
                                                 /\ req'[q].on = home[j]
                        \/ home[j] \in raced'
    BY <1>f DEF StraysHeld, Explained, Named
  <2> QED
    BY <1>o, <2>1 DEF StraysHeld, Explained
<1> QED
  BY <1>1, <1>2, <1>3, <1>4, <1>5, <1>6

\* A picture is named, or unset: what the request found goes next.
LEMMA FileSave ==
    ASSUME ProfileTypeOK, FileInv, PictureAlone, NEW p \in Request, NEW x, Goto(p, x),
           req[p].at \in {"pictureSave", "pictureUnset"},
           NEW s \in PictureSlot, NEW k \in Key \cup {Null}, req[p].on = s, req[p].key = k,
           picture' = [picture EXCEPT ![s] = k],
           UNCHANGED <<bucket, home, files, given, raced>>, stale \ {p} \subseteq stale',
           FreshOf(x) = {}, HeldOf(x) = {}, x.at # "listCut",
           GoingOf(x) = HeldOf(req[p]), GoingOf(x) # {} => x.on = s
    PROVE  FileInv'
<1> USE DEF FileInv
<1>q. req'[p] = x /\ \A q \in Request \ {p} : req'[q] = req[q]
  BY ProfileSlots DEF ProfileTypeOK
<1>s. /\ s \in Slot /\ s \notin ListSlot /\ p \in On(s)
      /\ GoingOf(req[p]) = {} /\ FreshOf(req[p]) = {k} \ {Null}
  <2>1. req[p].at = "pictureUnset" => k = Null
    BY KeylessSlots DEF ProfileTypeOK
  <2>2. req[p] # Idle
    BY DEF Idle
  <2>3. Null \notin Key
    BY ProfileAssumption
  <2> QED
    BY <2>1, <2>2, <2>3, Places DEF Slot, On, Busy, GoingOf, FreshOf, Uploading
<1>n. /\ Named(s)' = {k} \ {Null}
      /\ \A t \in Slot \ {s} : Named(t)' = Named(t)
      /\ Named(s) = {picture[s]} \ {Null}
  <2>1. picture'[s] = k /\ \A t \in PictureSlot \ {s} : picture'[t] = picture[t]
    BY DEF ProfileTypeOK
  <2> QED
    BY <1>s, <2>1 DEF Named, Slot
<1>k. k # Null => /\ k \in FreshOf(req[p]) /\ home[k] = s
                  /\ \A q \in Request : k \in FreshOf(req[q]) => q = p
                  /\ k \notin given => k \in bucket /\ \A t \in Slot : k \notin Named(t)
  BY <1>s DEF FreshAlone
<1>1. StoredAtHome'
  BY DEF StoredAtHome
<1>2. NamedAtHome'
  BY <1>k, <1>n DEF NamedAtHome
<1>3. FreshAlone'
  <2>1. SUFFICES ASSUME NEW q \in Request, NEW j \in FreshOf(req'[q])
                 PROVE  /\ home[j] = req'[q].on
                        /\ \A t \in Request : j \in FreshOf(req'[t]) => t = q
                        /\ j \notin given => j \in bucket /\ \A t \in Slot : j \notin Named(t)'
    BY DEF FreshAlone
  <2>2. q # p /\ j \in FreshOf(req[q]) /\ req'[q] = req[q]
    BY <1>q, <2>1
  <2>3. /\ home[j] = req[q].on
        /\ \A t \in Request : j \in FreshOf(req[t]) => t = q
        /\ j \notin given => j \in bucket /\ \A t \in Slot : j \notin Named(t)
    BY <2>2 DEF FreshAlone
  <2>4. j # k
    BY <1>k, <2>2, ProfileAssumption DEF FreshOf
  <2> QED
    BY <1>n, <1>q, <2>2, <2>3, <2>4
<1>4. GoingUnnamed'
  <2>1. SUFFICES ASSUME NEW q \in Request, NEW j \in GoingOf(req'[q]) \ given
                 PROVE  /\ home[j] \in Slot /\ \A t \in Slot : j \notin Named(t)'
                        /\ \A t \in Request : j \notin FreshOf(req'[t])
    BY DEF GoingUnnamed
  <2>2. j \in Key
    BY <2>1 DEF GoingOf
  <2>3. \A t \in Request : j \notin FreshOf(req[t])
    BY <1>q, <2>1 DEF GoingUnnamed, HeldNamed
  <2>4. j # k
    BY <1>k, <2>2, <2>3, ProfileAssumption
  <2>5. CASE q = p
    <3>1. j \in HeldOf(req[p]) /\ j \notin given
      BY <1>q, <2>1, <2>5
    <3>2. home[j] = s
      BY <3>1 DEF HeldNamed
    <3>3. \A t \in Slot \ {s} : j \notin Named(t)
      BY <3>1, <3>2 DEF NamedAtHome
    <3> QED
      BY <1>n, <1>q, <1>s, <2>3, <2>4, <3>2, <3>3
  <2>6. CASE q # p
    <3>1. j \in GoingOf(req[q]) \ given
      BY <1>q, <2>1, <2>6
    <3>2. home[j] \in Slot /\ \A t \in Slot : j \notin Named(t)
      BY <3>1 DEF GoingUnnamed
    <3> QED
      BY <1>n, <1>q, <2>3, <2>4, <3>2
  <2> QED
    BY <2>5, <2>6
<1>5. HeldNamed'
  BY <1>q DEF HeldNamed
<1>6. CutShown'
  <2>1. SUFFICES ASSUME NEW q \in Request, req'[q].at = "listCut", q \notin stale',
                        NEW j \in req'[q].seen \ given
                 PROVE  /\ home[j] = req'[q].on /\ j \in bucket
                        /\ \A t \in Request : j \notin FreshOf(req'[t]) /\ j \notin GoingOf(req'[t])
    BY DEF CutShown, Cutting, At
  <2>2. q # p /\ req'[q] = req[q] /\ Cutting(q) /\ q \notin stale
    BY <1>q, <2>1 DEF Cutting, At
  <2>3. /\ home[j] = req[q].on /\ j \in bucket
        /\ \A t \in Request : j \notin FreshOf(req[t]) /\ j \notin GoingOf(req[t])
    BY <2>1, <2>2 DEF CutShown
  <2>4. req[q].on \in ListSlot
    BY <2>2, HandPlaces DEF ProfileTypeOK, Cutting, At
  <2>5. j \notin HeldOf(req[p])
    BY <1>s, <2>1, <2>3, <2>4 DEF HeldNamed
  <2> QED
    BY <1>q, <2>2, <2>3, <2>5
<1>7. StraysHeld'
  <2>1. SUFFICES ASSUME NEW j \in bucket
                 PROVE  \/ j \in Named(home[j])'
                        \/ \E q \in Request : j \in FreshOf(req'[q]) \cup GoingOf(req'[q])
                                                 /\ req'[q].on = home[j]
                        \/ home[j] \in raced
    BY DEF StraysHeld, Explained
  <2>2. PICK t \in Slot : t = home[j]
    BY DEF StoredAtHome
  <2>3. CASE j \in Named(t)
    <3>1. CASE t # s
      <4>1. j \in Named(t)'
        BY <1>n, <2>3, <3>1
      <4> QED
        BY <2>2, <4>1 DEF Named
    <3>2. CASE t = s /\ s \notin raced
      <4>1. j = picture[s] /\ req[p].old = picture[s] /\ j \in Key
        BY <1>n, <1>s, <2>3, <3>2 DEF PictureAlone, Replacing, ProfileTypeOK
      <4>2. j \in HeldOf(req[p])
        BY <4>1 DEF HeldOf, Replacing
      <4> QED
        BY <1>q, <2>2, <3>2, <4>2
    <3>3. CASE t = s /\ s \in raced
      BY <2>2, <3>3
    <3> QED
      BY <3>1, <3>2, <3>3
  <2>4. ASSUME NEW q \in Request, j \in FreshOf(req[q]) \cup GoingOf(req[q]), req[q].on = home[j]
        PROVE  \/ j \in Named(home[j])'
               \/ j \in FreshOf(req'[q]) \cup GoingOf(req'[q]) /\ req'[q].on = home[j]
    <3>1. CASE q = p
      <4>1. j \in Named(s)' /\ home[j] = s
        BY <1>n, <1>s, <2>4, <3>1
      <4> QED
        BY <4>1 DEF Named
    <3>2. CASE q # p
      BY <1>q, <2>4, <3>2
    <3> QED
      BY <3>1, <3>2
  <2> QED
    BY <2>1, <2>2, <2>3, <2>4 DEF StraysHeld, Explained
<1> QED
  BY <1>1, <1>2, <1>3, <1>4, <1>5, <1>6, <1>7

\* A file is pushed on a list.
LEMMA FilePush ==
    ASSUME ProfileTypeOK, FileInv, NEW p \in Request, Goto(p, Idle),
           req[p].at \in {"listPush", "builtPush"},
           NEW s \in ListSlot, NEW k \in Key, req[p].on = s, req[p].key = k,
           files' = [files EXCEPT ![s] = files[s] \cup {k}],
           UNCHANGED <<bucket, home, picture, given, raced>>, stale \ {p} \subseteq stale'
    PROVE  FileInv'
<1> USE DEF FileInv
<1>q. req'[p] = Idle /\ \A q \in Request \ {p} : req'[q] = req[q]
  BY ProfileSlots DEF ProfileTypeOK
<1>i. FreshOf(Idle) = {} /\ GoingOf(Idle) = {} /\ HeldOf(Idle) = {} /\ Idle.at # "listCut"
  BY DEF FreshOf, GoingOf, HeldOf, Idle, Uploading, Replacing
<1>s. /\ s \in Slot /\ s \notin PictureSlot
      /\ GoingOf(req[p]) = {} /\ FreshOf(req[p]) = {k}
  BY Places DEF Slot, GoingOf, FreshOf, Uploading
<1>n. /\ Named(s)' = Named(s) \cup {k}
      /\ \A t \in Slot \ {s} : Named(t)' = Named(t)
  <2>1. files'[s] = files[s] \cup {k} /\ \A t \in ListSlot \ {s} : files'[t] = files[t]
    BY DEF ProfileTypeOK
  <2> QED
    BY <1>s, <2>1 DEF Named, Slot
<1>k. /\ home[k] = s
      /\ \A q \in Request : k \in FreshOf(req[q]) => q = p
      /\ k \notin given => k \in bucket /\ \A t \in Slot : k \notin Named(t)
  BY <1>s DEF FreshAlone
<1>1. StoredAtHome'
  BY DEF StoredAtHome
<1>2. NamedAtHome'
  BY <1>k, <1>n DEF NamedAtHome
<1>3. FreshAlone'
  <2>1. SUFFICES ASSUME NEW q \in Request, NEW j \in FreshOf(req'[q])
                 PROVE  /\ home[j] = req'[q].on
                        /\ \A t \in Request : j \in FreshOf(req'[t]) => t = q
                        /\ j \notin given => j \in bucket /\ \A t \in Slot : j \notin Named(t)'
    BY DEF FreshAlone
  <2>2. q # p /\ j \in FreshOf(req[q]) /\ req'[q] = req[q]
    BY <1>i, <1>q, <2>1
  <2>3. /\ home[j] = req[q].on
        /\ \A t \in Request : j \in FreshOf(req[t]) => t = q
        /\ j \notin given => j \in bucket /\ \A t \in Slot : j \notin Named(t)
    BY <2>2 DEF FreshAlone
  <2>4. j # k
    BY <1>k, <2>2
  <2> QED
    BY <1>i, <1>n, <1>q, <2>2, <2>3, <2>4
<1>4. GoingUnnamed'
  <2>1. SUFFICES ASSUME NEW q \in Request, NEW j \in GoingOf(req'[q]) \ given
                 PROVE  /\ home[j] \in Slot /\ \A t \in Slot : j \notin Named(t)'
                        /\ \A t \in Request : j \notin FreshOf(req'[t])
    BY DEF GoingUnnamed
  <2>2. q # p /\ j \in GoingOf(req[q]) \ given /\ req'[q] = req[q]
    BY <1>i, <1>q, <2>1
  <2>3. /\ home[j] \in Slot /\ \A t \in Slot : j \notin Named(t)
        /\ \A t \in Request : j \notin FreshOf(req[t])
    BY <2>2 DEF GoingUnnamed
  <2>4. j # k
    BY <1>s, <2>3
  <2> QED
    BY <1>i, <1>n, <1>q, <2>2, <2>3, <2>4
<1>5. HeldNamed'
  BY <1>i, <1>q DEF HeldNamed
<1>6. CutShown'
  <2>1. SUFFICES ASSUME NEW q \in Request, req'[q].at = "listCut", q \notin stale',
                        NEW j \in req'[q].seen \ given
                 PROVE  /\ home[j] = req'[q].on /\ j \in bucket
                        /\ \A t \in Request : j \notin FreshOf(req'[t]) /\ j \notin GoingOf(req'[t])
    BY DEF CutShown, Cutting, At
  <2>2. q # p /\ req'[q] = req[q] /\ Cutting(q) /\ q \notin stale
    BY <1>i, <1>q, <2>1 DEF Cutting, At
  <2> QED
    BY <1>i, <1>q, <2>1, <2>2 DEF CutShown
<1>7. StraysHeld'
  <2>1. SUFFICES ASSUME NEW j \in bucket
                 PROVE  \/ j \in Named(home[j])'
                        \/ \E q \in Request : j \in FreshOf(req'[q]) \cup GoingOf(req'[q])
                                                 /\ req'[q].on = home[j]
                        \/ home[j] \in raced
    BY DEF StraysHeld, Explained
  <2>2. PICK t \in Slot : t = home[j]
    BY DEF StoredAtHome
  <2>3. j \in Named(t) \/ j = k => j \in Named(home[j])'
    <3>1. j \in Named(t) \/ j = k => j \in Named(t)'
      BY <1>k, <1>n, <2>2
    <3> QED
      BY <2>2, <3>1 DEF Named
  <2> QED
    BY <1>q, <1>s, <2>2, <2>3 DEF StraysHeld, Explained
<1> QED
  BY <1>1, <1>2, <1>3, <1>4, <1>5, <1>6, <1>7

\* A list is written whole, without the file that is cut; or is left, as it did
\* not name the file.
LEMMA FileCut ==
    ASSUME ProfileTypeOK, FileInv, ListAlone, NEW p \in Request,
           At(p, "listCut"), NEW s \in ListSlot, NEW k \in Key, req[p].on = s, req[p].key = k,
           Goto(p, [at |-> "listClean", on |-> s, key |-> k]),
           \/ k \notin req[p].seen /\ files' = files
           \/ /\ k \in req[p].seen /\ p \notin stale /\ files' = [files EXCEPT ![s] = req[p].seen \ {k}]
              /\ Readers(s[1]) \ {p} \subseteq stale',
           given' = given \cup Unlisted(p),
           UNCHANGED <<bucket, home, picture>>, raced \subseteq raced', stale \ {p} \subseteq stale'
    PROVE  FileInv'
<1> USE DEF FileInv
<1> DEFINE x == [at |-> "listClean", on |-> s, key |-> k]
<1>q. req'[p] = x /\ \A q \in Request \ {p} : req'[q] = req[q]
  BY ProfileSlots DEF ProfileTypeOK
<1>i. /\ FreshOf(x) = {} /\ GoingOf(x) = {k} /\ HeldOf(x) = {} /\ x.at # "listCut" /\ x.on = s
      /\ FreshOf(req[p]) = {} /\ GoingOf(req[p]) = {} /\ HeldOf(req[p]) = {}
  BY DEF FreshOf, GoingOf, HeldOf, Uploading, Replacing, At
<1> HIDE DEF x
<1>s. s \in Slot /\ s \notin PictureSlot /\ p \in On(s)
  BY Places DEF Slot, On, Busy, Idle, At
<1>g. /\ given \subseteq given'
      /\ k \notin given' => k \in req[p].seen \/ (k \notin bucket /\ home[k] \in Slot)
  BY DEF Unlisted, Gone, ProfileTypeOK
\* What the cut was shown, if it is written.
<1>w. k \in req[p].seen => \A j \in req[p].seen \ given :
         /\ home[j] = s /\ j \in bucket
         /\ \A q \in Request : j \notin FreshOf(req[q]) /\ j \notin GoingOf(req[q])
  BY DEF CutShown, Cutting
<1>n. /\ \A t \in Slot \ {s} : Named(t)' = Named(t)
      /\ \/ k \notin req[p].seen /\ Named(s)' = Named(s)
         \/ k \in req[p].seen /\ Named(s)' = req[p].seen \ {k}
      /\ s \notin raced => Named(s) \ {k} \subseteq Named(s)'
  <2>1. \A t \in Slot \ {s} : Named(t)' = Named(t)
    <3>1. \A t \in ListSlot \ {s} : files'[t] = files[t]
      BY DEF ProfileTypeOK
    <3> QED
      BY <1>s, <3>1 DEF Named, Slot
  <2>2. Named(s) = files[s] /\ Named(s)' = files'[s]
    BY <1>s DEF Named
  <2>3. CASE k \notin req[p].seen /\ files' = files
    BY <2>1, <2>2, <2>3
  <2>4. CASE k \in req[p].seen /\ p \notin stale /\ files' = [files EXCEPT ![s] = req[p].seen \ {k}]
    <3>1. files'[s] = req[p].seen \ {k}
      BY <2>4 DEF ProfileTypeOK
    <3>2. s \notin raced => req[p].seen = files[s]
      BY <1>s, <2>4 DEF ListAlone, Cutting
    <3> QED
      BY <2>1, <2>2, <2>4, <3>1, <3>2
  <2> QED
    BY <2>3, <2>4
\* The file that is cut is named nowhere after this and will not be.
<1>k. k \notin given' =>
         /\ home[k] \in Slot
         /\ \A t \in Slot : k \notin Named(t)'
         /\ \A q \in Request : k \notin FreshOf(req[q])
  <2>1. SUFFICES ASSUME k \notin given'
                 PROVE  /\ home[k] \in Slot
                        /\ \A t \in Slot : k \notin Named(t)'
                        /\ \A q \in Request : k \notin FreshOf(req[q])
    OBVIOUS
  <2>2. CASE k \in req[p].seen
    <3>1. home[k] = s /\ \A q \in Request : k \notin FreshOf(req[q])
      BY <1>g, <1>w, <2>1, <2>2
    <3>2. \A t \in Slot \ {s} : k \notin Named(t)
      BY <1>g, <2>1, <3>1 DEF NamedAtHome
    <3> QED
      BY <1>n, <1>s, <2>2, <3>1, <3>2
  <2>3. CASE k \notin req[p].seen
    <3>1. k \notin bucket /\ home[k] \in Slot /\ k \notin given
      BY <1>g, <2>1, <2>3
    <3>2. \A t \in Slot : k \notin Named(t)
      BY <3>1 DEF NamedAtHome
    <3>3. \A q \in Request : k \notin FreshOf(req[q])
      BY <3>1 DEF FreshAlone
    <3> QED
      BY <1>n, <2>3, <3>1, <3>2, <3>3
  <2> QED
    BY <2>2, <2>3
\* A file that was not named is not, unless it was shown.
<1>m. \A j : \A t \in Slot : j \in Named(t)' =>
         \/ j \in Named(t)
         \/ t = s /\ k \in req[p].seen /\ j \in req[p].seen
  BY <1>n
<1>1. StoredAtHome'
  BY DEF StoredAtHome
<1>2. NamedAtHome'
  <2>1. SUFFICES ASSUME NEW t \in Slot, NEW j, j \in Named(t)', j \notin given'
                 PROVE  j \in bucket /\ home[j] = t
    BY DEF NamedAtHome
  <2> QED
    BY <1>g, <1>m, <1>w, <2>1 DEF NamedAtHome
<1>3. FreshAlone'
  <2>1. SUFFICES ASSUME NEW q \in Request, NEW j \in FreshOf(req'[q])
                 PROVE  /\ home[j] = req'[q].on
                        /\ \A t \in Request : j \in FreshOf(req'[t]) => t = q
                        /\ j \notin given' => j \in bucket /\ \A t \in Slot : j \notin Named(t)'
    BY DEF FreshAlone
  <2>2. q # p /\ j \in FreshOf(req[q]) /\ req'[q] = req[q]
    BY <1>i, <1>q, <2>1
  <2>3. /\ home[j] = req[q].on
        /\ \A t \in Request : j \in FreshOf(req[t]) => t = q
        /\ j \notin given => j \in bucket /\ \A t \in Slot : j \notin Named(t)
    BY <2>2 DEF FreshAlone
  <2>4. \A t \in Request : j \in FreshOf(req'[t]) => t = q
    BY <1>i, <1>q, <2>3
  <2>5. j \notin given' => \A t \in Slot : j \notin Named(t)'
    BY <1>g, <1>m, <1>w, <2>2, <2>3
  <2> QED
    BY <1>g, <2>2, <2>3, <2>4, <2>5
<1>4. GoingUnnamed'
  <2>1. SUFFICES ASSUME NEW q \in Request, NEW j \in GoingOf(req'[q]), j \notin given'
                 PROVE  /\ home[j] \in Slot /\ \A t \in Slot : j \notin Named(t)'
                        /\ \A t \in Request : j \notin FreshOf(req'[t])
    BY DEF GoingUnnamed
  <2>f. \A t \in Request : FreshOf(req'[t]) \subseteq FreshOf(req[t])
    BY <1>i, <1>q
  <2>2. CASE q = p
    <3>1. j = k
      BY <1>i, <1>q, <2>1, <2>2
    <3> QED
      BY <1>k, <2>1, <2>f, <3>1
  <2>3. CASE q # p
    <3>1. j \in GoingOf(req[q]) \ given
      BY <1>g, <1>q, <2>1, <2>3
    <3>2. /\ home[j] \in Slot /\ \A t \in Slot : j \notin Named(t)
          /\ \A t \in Request : j \notin FreshOf(req[t])
      BY <3>1 DEF GoingUnnamed
    <3>3. \A t \in Slot : j \notin Named(t)'
      BY <1>m, <1>w, <3>1, <3>2
    <3> QED
      BY <2>f, <3>2, <3>3
  <2> QED
    BY <2>2, <2>3
<1>5. HeldNamed'
  BY <1>g, <1>i, <1>q DEF HeldNamed
<1>6. CutShown'
  <2>1. SUFFICES ASSUME NEW q \in Request, req'[q].at = "listCut", q \notin stale',
                        NEW j, j \in req'[q].seen, j \notin given'
                 PROVE  /\ home[j] = req'[q].on /\ j \in bucket
                        /\ \A t \in Request : j \notin FreshOf(req'[t]) /\ j \notin GoingOf(req'[t])
    BY DEF CutShown, Cutting, At
  <2>2. q # p /\ req'[q] = req[q] /\ Cutting(q) /\ q \notin stale
    BY <1>i, <1>q, <2>1 DEF Cutting, At
  <2>3. /\ home[j] = req[q].on /\ j \in bucket
        /\ \A t \in Request : j \notin FreshOf(req[t]) /\ j \notin GoingOf(req[t])
    BY <1>g, <2>1, <2>2 DEF CutShown
  <2>4. j # k
    <3>1. SUFFICES ASSUME j = k PROVE FALSE
      OBVIOUS
    <3>2. k \in req[p].seen
      BY <1>g, <2>1, <2>3, <3>1
    <3>3. home[k] = s
      BY <1>g, <1>w, <2>1, <3>1, <3>2
    <3>4. q \in Readers(s[1])
      BY <2>2, <2>3, <3>1, <3>3 DEF Readers, Busy, Cutting, At, Idle
    <3> QED
      BY <2>1, <2>2, <3>2, <3>4
  <2> QED
    BY <1>i, <1>q, <2>2, <2>3, <2>4
<1>7. StraysHeld'
  <2>1. SUFFICES ASSUME NEW j \in bucket
                 PROVE  \/ j \in Named(home[j])'
                        \/ \E q \in Request : j \in FreshOf(req'[q]) \cup GoingOf(req'[q])
                                                 /\ req'[q].on = home[j]
                        \/ home[j] \in raced'
    BY DEF StraysHeld, Explained
  <2>2. PICK t \in Slot : t = home[j]
    BY DEF StoredAtHome
  <2>3. CASE j \in Named(t)
    <3>1. CASE j \in Named(t)'
      <4>1. j \in Named(home[j])'
        BY <2>2, <3>1 DEF Named
      <4> QED
        BY <4>1
    <3>2. CASE t = s /\ j = k
      BY <1>i, <1>q, <2>2, <3>2
    <3>3. CASE t = s /\ s \in raced
      BY <2>2, <3>3
    <3> QED
      BY <1>n, <2>3, <3>1, <3>2, <3>3
  <2>4. ASSUME NEW q \in Request, j \in FreshOf(req[q]) \cup GoingOf(req[q]), req[q].on = home[j]
        PROVE  j \in FreshOf(req'[q]) \cup GoingOf(req'[q]) /\ req'[q].on = home[j]
    BY <1>i, <1>q, <2>4
  <2> QED
    BY <2>1, <2>2, <2>3, <2>4 DEF StraysHeld, Explained
<1> QED
  BY <1>1, <1>2, <1>3, <1>4, <1>5, <1>6, <1>7

\* A file goes from the bucket.
LEMMA FileClean ==
    ASSUME ProfileTypeOK, FileInv, NEW p \in Request, Goto(p, Idle),
           NEW k \in Key, GoingOf(req[p]) = {k}, FreshOf(req[p]) = {}, bucket' = bucket \ {k},
           UNCHANGED <<home, picture, files, given, raced>>, stale \ {p} \subseteq stale'
    PROVE  FileInv'
<1> USE DEF FileInv
<1>n. \A t : Named(t)' = Named(t)
  BY NamedKept
<1>q. req'[p] = Idle /\ \A q \in Request \ {p} : req'[q] = req[q]
  BY ProfileSlots DEF ProfileTypeOK
<1>i. FreshOf(Idle) = {} /\ GoingOf(Idle) = {} /\ HeldOf(Idle) = {} /\ Idle.at # "listCut"
  BY DEF FreshOf, GoingOf, HeldOf, Idle, Uploading, Replacing
<1>k. k \notin given => /\ \A t \in Slot : k \notin Named(t)
                        /\ \A q \in Request : k \notin FreshOf(req[q])
  BY DEF GoingUnnamed
<1>1. StoredAtHome'
  BY DEF StoredAtHome
<1>2. NamedAtHome'
  BY <1>k, <1>n DEF NamedAtHome
<1>3. FreshAlone'
  <2>1. SUFFICES ASSUME NEW q \in Request, NEW j \in FreshOf(req'[q])
                 PROVE  /\ home[j] = req'[q].on
                        /\ \A t \in Request : j \in FreshOf(req'[t]) => t = q
                        /\ j \notin given => j \in bucket' /\ \A t \in Slot : j \notin Named(t)
    BY <1>n DEF FreshAlone
  <2>2. q # p /\ j \in FreshOf(req[q]) /\ req'[q] = req[q]
    BY <1>i, <1>q, <2>1
  <2>3. /\ home[j] = req[q].on
        /\ \A t \in Request : j \in FreshOf(req[t]) => t = q
        /\ j \notin given => j \in bucket /\ \A t \in Slot : j \notin Named(t)
    BY <2>2 DEF FreshAlone
  <2> QED
    BY <1>i, <1>k, <1>q, <2>2, <2>3
<1>4. GoingUnnamed'
  BY <1>i, <1>n, <1>q DEF GoingUnnamed
<1>5. HeldNamed'
  BY <1>i, <1>q DEF HeldNamed
<1>6. CutShown'
  <2>1. SUFFICES ASSUME NEW q \in Request, req'[q].at = "listCut", q \notin stale',
                        NEW j \in req'[q].seen \ given
                 PROVE  /\ home[j] = req'[q].on /\ j \in bucket'
                        /\ \A t \in Request : j \notin FreshOf(req'[t]) /\ j \notin GoingOf(req'[t])
    BY DEF CutShown, Cutting, At
  <2>2. q # p /\ req'[q] = req[q] /\ Cutting(q) /\ q \notin stale
    BY <1>i, <1>q, <2>1 DEF Cutting, At
  <2>3. /\ home[j] = req[q].on /\ j \in bucket
        /\ \A t \in Request : j \notin FreshOf(req[t]) /\ j \notin GoingOf(req[t])
    BY <2>1, <2>2 DEF CutShown
  <2> QED
    BY <1>i, <1>q, <2>2, <2>3
<1>7. StraysHeld'
  <2>1. SUFFICES ASSUME NEW j \in bucket \ {k}
                 PROVE  \/ j \in Named(home[j])
                        \/ \E q \in Request : j \in FreshOf(req'[q]) \cup GoingOf(req'[q])
                                                 /\ req'[q].on = home[j]
                        \/ home[j] \in raced
    BY DEF StraysHeld, Explained, Named
  <2> QED
    BY <1>q, <2>1 DEF StraysHeld, Explained
<1> QED
  BY <1>1, <1>2, <1>3, <1>4, <1>5, <1>6, <1>7

\* A body: what it names anew it gives, and where it changes a name it marks the
\* place.
LEMMA FileBodies ==
    ASSUME ProfileTypeOK, FileInv, updateUserProfile \/ updateBasicProfile
    PROVE  FileInv'
<1> USE DEF FileInv
<1>1. /\ Renamed \subseteq raced' /\ raced \subseteq raced'
      /\ UNCHANGED <<bucket, home, req, stale>>
  BY BodyNames
<1>2. PICK o, fields : WritesNames(o, fields)
  BY BodyNames
<1>g. given \subseteq given'
  BY <1>2 DEF WritesNames
<1>n. \A s \in Slot : \A k \in Named(s)' : k \in given' \/ k \in Named(s)
  <2> DEFINE at == {s \in Slot : s[1] = o /\ s[2] \in fields}
  <2>1. SUFFICES ASSUME NEW s \in Slot, NEW k, k \in Named(s)', k \notin Named(s)
                 PROVE  k \in given'
    OBVIOUS
  <2>2. s \in at
    <3>1. SUFFICES ASSUME s \notin at PROVE FALSE
      OBVIOUS
    <3>2. /\ s \in PictureSlot => picture'[s] = picture[s]
          /\ s \in ListSlot => files'[s] = files[s]
      BY <1>2, <3>1 DEF WritesNames
    <3> QED
      BY <2>1, <3>2 DEF Named, Slot
  <2>3. k \in Key
    <3>1. /\ picture' \in [PictureSlot -> Key \cup {Null}] /\ files' \in [ListSlot -> SUBSET Key]
      BY <1>2, NameTypes
    <3> QED
      BY <2>1, <3>1 DEF Named, Slot
  <2> QED
    BY <1>2, <2>1, <2>2, <2>3 DEF WritesNames
<1>3. StoredAtHome'
  BY <1>1 DEF StoredAtHome
<1>4. NamedAtHome'
  BY <1>1, <1>g, <1>n DEF NamedAtHome
<1>5. FreshAlone'
  BY <1>1, <1>g, <1>n DEF FreshAlone
<1>6. GoingUnnamed'
  BY <1>1, <1>g, <1>n DEF GoingUnnamed
<1>7. HeldNamed'
  BY <1>1, <1>g DEF HeldNamed
<1>8. CutShown'
  BY <1>1, <1>g DEF CutShown, Cutting, At
<1>9. StraysHeld'
  <2>1. SUFFICES ASSUME NEW j \in bucket
                 PROVE  \/ j \in Named(home[j])'
                        \/ \E q \in Request : j \in FreshOf(req[q]) \cup GoingOf(req[q])
                                                 /\ req[q].on = home[j]
                        \/ home[j] \in raced'
    BY <1>1 DEF StraysHeld, Explained
  <2>2. PICK t \in Slot : t = home[j]
    BY DEF StoredAtHome
  <2>3. j \in Named(t) => j \in Named(t)' \/ t \in raced'
    BY <1>1 DEF Renamed
  <2>4. j \in Named(t)' => j \in Named(home[j])'
    BY <1>1, <2>2 DEF Named
  <2> QED
    BY <1>1, <2>2, <2>3, <2>4 DEF StraysHeld, Explained
<1> QED
  BY <1>3, <1>4, <1>5, <1>6, <1>7, <1>8, <1>9

LEMMA FilePictureStarts ==
    ASSUME ProfileTypeOK, FileInv, NEW p \in Request, NEW s \in PictureSlot,
           \/ UserPictureStart(p, s)
           \/ CompanyPictureStart(p, s)
           \/ PictureDeleteStart(p, s)
    PROVE  FileInv'
<1>s. s \in Slot /\ Null \notin Key /\ picture[s] \in Key \cup {Null}
  BY ProfileAssumption DEF Slot, ProfileTypeOK
<1>i. req[p].at = "idle" /\ FreshOf(req[p]) = {} /\ GoingOf(req[p]) = {}
  BY DEF UserPictureStart, CompanyPictureStart, PictureDeleteStart, Starts, At, FreshOf, GoingOf, Uploading
<1>o. raced \subseteq Overlap(s)
  BY DEF Overlap
<1>1. CASE UserPictureStart(p, s)
  <2>1. PICK k \in Key : Put(k, s) /\ Goto(p, [at |-> "pictureRead", on |-> s, key |-> k, old |-> Null])
    BY <1>1 DEF UserPictureStart
  <2> DEFINE x == [at |-> "pictureRead", on |-> s, key |-> k, old |-> Null]
  <2>2. /\ x \in ProfileRequest /\ x.at = "pictureRead" /\ x.key = k /\ x.on = s /\ HeldOf(x) = {}
        /\ x.at \in Uploading \ {"listPut"} /\ Goto(p, x)
    BY <2>1, ProfileStarts DEF HeldOf, Replacing, Uploading
  <2>3. UNCHANGED <<picture, files, given, stale>> /\ raced \subseteq raced'
    BY <1>1, <1>o DEF UserPictureStart
  <2> HIDE DEF x
  <2> QED
    BY <1>i, <1>s, <2>1, <2>2, <2>3, FilePut
<1>2. ASSUME NEW a \in {"picturePut", "pictureUnset"}, raced' = Overlap(s), UNCHANGED <<fileVars, stale>>,
             Goto(p, [at |-> a, on |-> s, key |-> Null, old |-> picture[s]])
      PROVE  FileInv'
  <2> DEFINE x == [at |-> a, on |-> s, key |-> Null, old |-> picture[s]]
  <2>1. /\ FreshOf(x) = {} /\ GoingOf(x) = {} /\ HeldOf(x) = {picture[s]} \ {Null} /\ x.on = s
        /\ x.at # "listCut" /\ Goto(p, x)
    BY <1>2, <1>s DEF FreshOf, GoingOf, HeldOf, Replacing
  <2>2. HeldOf(x) \subseteq Named(x.on)
    BY <2>1, NamedProps
  <2> HIDE DEF x
  <2> QED
    BY <1>2, <1>i, <1>o, <1>s, <2>1, <2>2, FileMove
<1> QED
  BY <1>1, <1>2 DEF CompanyPictureStart, PictureDeleteStart

LEMMA FilePictureWork ==
    ASSUME ProfileTypeOK, FileInv, PictureAlone, NEW p \in Request,
           \/ UserPictureRead(p) \/ CompanyPicturePut(p)
           \/ PictureSave(p) \/ PictureUnset(p) \/ PictureClean(p)
    PROVE  FileInv'
<1>r. req[p] \in ProfileRequest
  BY DEF ProfileTypeOK
<1>a. Null \notin Key
  BY ProfileAssumption
<1>b. /\ req[p].on \in PictureSlot /\ req[p].on \in Slot
      /\ req[p].key \in Key \cup {Null} /\ req[p].old \in Key \cup {Null}
  BY <1>r, ProfileLocals
     DEF UserPictureRead, CompanyPicturePut, PictureSave, PictureUnset, PictureClean, At, PictureWork, Slot
<1>1. CASE UserPictureRead(p)
  <2> DEFINE x == [at |-> "pictureSave", on |-> req[p].on, key |-> req[p].key, old |-> picture[req[p].on]]
  <2>1. picture[req[p].on] \in Key \cup {Null}
    BY <1>b DEF ProfileTypeOK
  <2>2. Goto(p, x)
    BY <1>1, <1>r, <2>1, ProfileMoves DEF UserPictureRead, At
  <2>3. /\ FreshOf(x) = FreshOf(req[p]) /\ x.on = req[p].on /\ GoingOf(x) = {} /\ GoingOf(req[p]) = {}
        /\ HeldOf(x) = {picture[req[p].on]} \ {Null} /\ x.at # "listCut"
    BY <1>1, <1>a, <2>1 DEF FreshOf, GoingOf, HeldOf, Replacing, Uploading, UserPictureRead, At
  <2>4. HeldOf(x) \subseteq Named(x.on)
    BY <1>b, <2>3, NamedProps
  <2>5. UNCHANGED <<fileVars, raced>> /\ stale \ {p} \subseteq stale'
    BY <1>1 DEF UserPictureRead
  <2> HIDE DEF x
  <2> QED
    BY <1>b, <2>2, <2>3, <2>4, <2>5, FileMove
<1>2. CASE CompanyPicturePut(p)
  <2>1. PICK k \in Key : Put(k, req[p].on) /\ Goto(p, [req[p] EXCEPT !.at = "pictureSave", !.key = k])
    BY <1>2 DEF CompanyPicturePut
  <2> DEFINE x == [at |-> "pictureSave", on |-> req[p].on, key |-> k, old |-> req[p].old]
  <2>2. Goto(p, x)
    BY <1>2, <1>r, <2>1, ProfileMoves DEF CompanyPicturePut, At
  <2>3. /\ x \in ProfileRequest /\ x.at \in Uploading \ {"listPut"} /\ x.key = k /\ x.on = req[p].on
        /\ HeldOf(x) = HeldOf(req[p]) /\ req[p].at = "picturePut"
    BY <1>2, <1>b, ProfileStarts DEF HeldOf, Replacing, Uploading, CompanyPicturePut, At
  <2>4. UNCHANGED <<picture, files, given, raced, stale>>
    BY <1>2 DEF CompanyPicturePut
  <2> HIDE DEF x
  <2> QED
    BY <1>b, <2>1, <2>2, <2>3, <2>4, FilePut
<1>3. ASSUME req[p].at \in {"pictureSave", "pictureUnset"}, ThenClean(p),
             picture' = [picture EXCEPT ![req[p].on] = req[p].key],
             UNCHANGED <<bucket, home, files, given, raced>>
      PROVE  FileInv'
  <2> DEFINE x == [at |-> "pictureClean", on |-> req[p].on, key |-> req[p].key, old |-> req[p].old]
  <2>1. \/ req[p].old = Null /\ Done(p)
        \/ req[p].old \in Key /\ Goto(p, x) /\ UNCHANGED stale
    BY <1>3, ThenCleanSlot
  <2>2. HeldOf(req[p]) = {req[p].old} \ {Null}
    BY <1>3, <1>a, <1>b DEF HeldOf, Replacing
  <2>3. CASE req[p].old = Null /\ Done(p)
    <3>1. /\ FreshOf(Idle) = {} /\ GoingOf(Idle) = {} /\ HeldOf(Idle) = {} /\ Idle.at # "listCut"
          /\ Goto(p, Idle) /\ stale \ {p} \subseteq stale' /\ HeldOf(req[p]) = {}
      BY <2>2, <2>3 DEF FreshOf, GoingOf, HeldOf, Idle, Uploading, Replacing, Done
    <3> QED
      BY <1>3, <1>b, <3>1, FileSave
  <2>4. CASE req[p].old \in Key /\ Goto(p, x) /\ UNCHANGED stale
    <3>1. /\ FreshOf(x) = {} /\ GoingOf(x) = {req[p].old} /\ HeldOf(x) = {} /\ x.at # "listCut"
          /\ x.on = req[p].on /\ Goto(p, x) /\ HeldOf(req[p]) = {req[p].old}
      BY <1>a, <2>2, <2>4 DEF FreshOf, GoingOf, HeldOf, Uploading, Replacing
    <3> HIDE DEF x
    <3> QED
      BY <1>3, <1>b, <2>4, <3>1, FileSave
  <2> QED
    BY <2>1, <2>3, <2>4
<1>4. CASE PictureSave(p)
  BY <1>3, <1>4 DEF PictureSave, At
<1>5. CASE PictureUnset(p)
  <2>1. req[p].key = Null
    BY <1>5, <1>r DEF PictureUnset, At, ProfileRequest, Idle, Editing, Judging
  <2> QED
    BY <1>3, <1>5, <2>1 DEF PictureUnset, At
<1>6. CASE PictureClean(p)
  <2>1. req[p].old \in Key
    BY <1>6, <1>r, ProfileLocals DEF PictureClean, At
  <2>2. GoingOf(req[p]) = {req[p].old} /\ FreshOf(req[p]) = {}
    BY <1>6, <2>1 DEF PictureClean, At, GoingOf, FreshOf, Uploading
  <2> QED
    BY <1>6, <2>1, <2>2, FileClean DEF PictureClean, Done
<1> QED
  BY <1>1, <1>2, <1>4, <1>5, <1>6

LEMMA FileListStarts ==
    ASSUME ProfileTypeOK, FileInv, NEW p \in Request,
           \/ \E s \in ListSlot : ListAddStart(p, s) \/ ListDeleteStart(p, s)
           \/ generateAndUpload(p)
    PROVE  FileInv'
<1>i. req[p].at = "idle" /\ FreshOf(req[p]) = {} /\ GoingOf(req[p]) = {}
  BY DEF ListAddStart, ListDeleteStart, generateAndUpload, Starts, At, FreshOf, GoingOf, Uploading
<1>1. ASSUME NEW s \in ListSlot, ListAddStart(p, s)
      PROVE  FileInv'
  <2> DEFINE x == [at |-> "listPut", on |-> s]
  <2>1. /\ FreshOf(x) = {} /\ GoingOf(x) = {} /\ HeldOf(x) = {} /\ x.at # "listCut"
    BY DEF FreshOf, GoingOf, HeldOf, Uploading, Replacing
  <2>2. Goto(p, x) /\ UNCHANGED <<fileVars, stale, raced>>
    BY <1>1 DEF ListAddStart
  <2> HIDE DEF x
  <2> QED
    BY <1>i, <2>1, <2>2, FileMove
<1>2. ASSUME NEW s \in ListSlot, ListDeleteStart(p, s)
      PROVE  FileInv'
  <2>1. PICK k \in Key : Goto(p, [at |-> "listCut", on |-> s, key |-> k, seen |-> files[s]])
    BY <1>2 DEF ListDeleteStart
  <2> DEFINE x == [at |-> "listCut", on |-> s, key |-> k, seen |-> files[s]]
  <2>2. /\ FreshOf(x) = {} /\ GoingOf(x) = {} /\ HeldOf(x) = {}
        /\ x.on = s /\ x.seen = files[s]
    BY DEF FreshOf, GoingOf, HeldOf, Uploading, Replacing
  <2>3. s \in Slot /\ Named(s) = files[s]
    BY NamedProps DEF Slot
  <2>4. Goto(p, x) /\ UNCHANGED <<fileVars, stale>> /\ raced \subseteq raced'
    BY <1>2, <2>1 DEF ListDeleteStart
  <2> HIDE DEF x
  <2> QED
    BY <1>i, <2>2, <2>3, <2>4, FileMove
<1>3. CASE generateAndUpload(p)
  <2> DEFINE s == <<"user", "resumeURL">>
  <2>1. PICK k \in Key : Put(k, s) /\ Goto(p, [at |-> "builtPush", on |-> s, key |-> k])
    BY <1>3 DEF generateAndUpload
  <2>2. UNCHANGED <<picture, files, given, stale>> /\ raced \subseteq raced'
    BY <1>3 DEF generateAndUpload
  <2>3. s \in ListSlot /\ s \in Slot
    BY DEF ListSlot, Slot
  <2> HIDE DEF s
  <2> DEFINE x == [at |-> "builtPush", on |-> s, key |-> k]
  <2>4. /\ x \in ProfileRequest /\ x.at \in Uploading \ {"listPut"} /\ x.key = k /\ x.on = s
        /\ HeldOf(x) = {} /\ Goto(p, x)
    BY <2>1, <2>3, ProfileStarts DEF HeldOf, Replacing, Uploading
  <2> HIDE DEF x
  <2> QED
    BY <1>i, <2>1, <2>2, <2>3, <2>4, FilePut
<1> QED
  BY <1>1, <1>2, <1>3

LEMMA FileListWork ==
    ASSUME ProfileTypeOK, FileInv, ListAlone, NEW p \in Request,
           ListPut(p) \/ ListPush(p) \/ BuiltPush(p) \/ ListCut(p) \/ ListClean(p)
    PROVE  FileInv'
<1>r. req[p] \in ProfileRequest
  BY DEF ProfileTypeOK
<1>b. req[p].on \in ListSlot /\ req[p].on \in Slot
  BY <1>r, ProfileLocals DEF ListPut, ListPush, BuiltPush, ListCut, ListClean, At, ListWork, Slot
<1>1. CASE ListPut(p)
  <2>1. PICK k \in Key : Put(k, req[p].on) /\ Goto(p, [at |-> "listPush", on |-> req[p].on, key |-> k])
    BY <1>1 DEF ListPut
  <2> DEFINE x == [at |-> "listPush", on |-> req[p].on, key |-> k]
  <2>2. /\ x \in ProfileRequest /\ x.at \in Uploading \ {"listPut"} /\ x.key = k /\ x.on = req[p].on
        /\ HeldOf(x) = {} /\ Goto(p, x)
    BY <1>b, <2>1, ProfileStarts DEF HeldOf, Replacing, Uploading
  <2>3. UNCHANGED <<picture, files, given, raced, stale>> /\ req[p].at = "listPut"
    BY <1>1 DEF ListPut, At
  <2> HIDE DEF x
  <2> QED
    BY <1>b, <2>1, <2>2, <2>3, FilePut
<1>2. CASE ListPush(p) \/ BuiltPush(p)
  <2>1. req[p].at \in {"listPush", "builtPush"} /\ req[p].key \in Key
    BY <1>2, <1>r, ProfileLocals DEF ListPush, BuiltPush, At, ListWork
  <2>2. /\ files' = [files EXCEPT ![req[p].on] = files[req[p].on] \cup {req[p].key}]
        /\ UNCHANGED <<bucket, home, picture, given, raced>>
        /\ Goto(p, Idle) /\ stale \ {p} \subseteq stale'
    BY <1>2 DEF ListPush, BuiltPush, Done, DoneMoving
  <2> QED
    BY <1>b, <2>1, <2>2, FilePush
<1>3. CASE ListCut(p)
  <2>1. At(p, "listCut") /\ req[p].key \in Key
    BY <1>3, <1>r, ProfileLocals DEF ListCut, At, ListWork
  <2> DEFINE x == [at |-> "listClean", on |-> req[p].on, key |-> req[p].key]
  <2>2. /\ UNCHANGED <<bucket, home, picture>> /\ raced \subseteq raced'
        /\ \/ Goto(p, x) /\ req[p].key \notin req[p].seen /\ UNCHANGED <<files, stale>>
           \/ /\ Goto(p, x) /\ req[p].key \in req[p].seen /\ p \notin stale
              /\ files' = [files EXCEPT ![req[p].on] = req[p].seen \ {req[p].key}]
              /\ stale' = (stale \cup Readers(req[p].on[1])) \ {p}
           \/ Done(p) /\ UNCHANGED <<files, given>>
        /\ given' = given \cup Unlisted(p)
    BY <1>3 DEF ListCut, Goto, UnderJudgement, Unlisted
  <2>3. CASE Done(p) /\ UNCHANGED <<files, given>>
    <3>1. /\ FreshOf(Idle) = {} /\ GoingOf(Idle) = {} /\ HeldOf(Idle) = {} /\ Idle.at # "listCut"
          /\ FreshOf(req[p]) = {} /\ GoingOf(req[p]) = {}
          /\ Goto(p, Idle) /\ stale \ {p} \subseteq stale'
      BY <2>1, <2>3 DEF FreshOf, GoingOf, HeldOf, Idle, Uploading, Replacing, Done, At
    <3> QED
      BY <2>2, <2>3, <3>1, FileMove DEF fileVars
  <2>4. CASE Goto(p, x) /\ req[p].key \notin req[p].seen /\ UNCHANGED <<files, stale>>
    <3> HIDE DEF FileInv
    <3> QED
      BY <1>b, <2>1, <2>2, <2>4, FileCut
  <2>5. CASE /\ Goto(p, x) /\ req[p].key \in req[p].seen /\ p \notin stale
             /\ files' = [files EXCEPT ![req[p].on] = req[p].seen \ {req[p].key}]
             /\ stale' = (stale \cup Readers(req[p].on[1])) \ {p}
    <3>1. Readers(req[p].on[1]) \ {p} \subseteq stale' /\ stale \ {p} \subseteq stale'
      BY <2>5
    <3> QED
      BY <1>b, <2>1, <2>2, <2>5, <3>1, FileCut
  <2> QED
    BY <2>2, <2>3, <2>4, <2>5
<1>4. CASE ListClean(p)
  <2>1. req[p].key \in Key
    BY <1>4, <1>r, ProfileLocals DEF ListClean, At, ListWork
  <2>2. GoingOf(req[p]) = {req[p].key} /\ FreshOf(req[p]) = {}
    BY <1>4, <2>1 DEF ListClean, At, GoingOf, FreshOf, Uploading
  <2> QED
    BY <1>4, <2>1, <2>2, FileClean DEF ListClean, Done
<1> QED
  BY <1>1, <1>2, <1>3, <1>4

LEMMA FileOthers ==
    ASSUME ProfileTypeOK, Indexed, FileInv,
           \/ \E p \in Request : EntryStep(p) \/ VerificationStep(p) \/ RequestFails(p)
           \/ updateUserProfile \/ updateBasicProfile \/ updateAddress
           \/ UNCHANGED profileVars
    PROVE  FileInv'
<1>t. \A q \in Request : req[q] \in ProfileRequest
  BY DEF ProfileTypeOK
\* A slot that comes from an edit or a decision, or starts one, or fails.
<1>1. ASSUME NEW p \in Request, NEW x \in ProfileRequest, Goto(p, x),
             x.at \in {"idle"} \cup Editing \cup Judging,
             \/ req[p].at \in {"idle"} \cup Editing \cup Judging
             \/ req[p].at \in Uploading \cup Cleaning => req[p].on \in raced',
             UNCHANGED fileVars, raced \subseteq raced', stale \ {p} \subseteq stale'
      PROVE  FileInv'
  <2>1. req'[p] = x /\ \A q \in Request \ {p} : req'[q] = req[q]
    BY <1>1, ProfileSlots DEF ProfileTypeOK
  <2>2. FreshOf(x) = {} /\ GoingOf(x) = {} /\ HeldOf(x) = {} /\ x.at # "listCut"
    BY <1>1, HandPlaces DEF Editing, Judging
  <2>3. FreshOf(req[p]) \cup GoingOf(req[p]) # {} => req[p].on \in raced'
    <3>1. FreshOf(req[p]) \cup GoingOf(req[p]) # {} => req[p].at \in Uploading \cup Cleaning
      BY DEF FreshOf, GoingOf, Cleaning
    <3> QED
      BY <1>1, <1>t, <3>1, HandPlaces
  <2> QED
    BY <1>1, <2>1, <2>2, <2>3, FileAside
<1>d. Idle \in ProfileRequest /\ Idle.at = "idle"
  BY ProfileStarts DEF Idle
<1>2. ASSUME NEW p \in Request, Done(p) \/ \E o : DoneMoving(p, o),
             req[p].at \in Editing \cup Judging, UNCHANGED <<fileVars, raced>>
      PROVE  FileInv'
  <2>1. Goto(p, Idle) /\ stale \ {p} \subseteq stale'
    BY <1>2 DEF Done, DoneMoving
  <2> QED
    BY <1>1, <1>2, <1>d, <2>1
<1>3. ASSUME NEW p \in Request, NEW l \in EntryList, Added(p, l) \/ Deleted(p, l) \/ Updated(p, l)
      PROVE  FileInv'
  <2>1. PICK x \in ProfileRequest : /\ Goto(p, x) /\ x.at \in Editing /\ Starts(p)
                                    /\ UNCHANGED <<fileVars, stale>> /\ raced' = Overlapped(l)
    BY <1>3, EntryBegins
  <2>2. raced \subseteq raced' /\ req[p].at = "idle"
    BY <2>1 DEF Overlapped, Starts, At
  <2> QED
    BY <1>1, <2>1, <2>2
<1>4. ASSUME NEW p \in Request, EntryStep(p)
      PROVE  FileInv'
  BY <1>2, <1>3, <1>4
     DEF EntryStep, addUserEducation, updateUserEducation, deleteUserEducation, addUserExperience,
         updateUserExperience, deleteUserExperience, EntryList, AddSave, DeleteSave, UpdateSave, At, Editing
<1>5. ASSUME NEW p \in Request, VerificationStep(p)
      PROVE  FileInv'
  <2>1. ASSUME NEW a \in Judging, Starts(p), Judges(p, a)
        PROVE  FileInv'
    <3> DEFINE x == [at |-> a, on |-> Verification]
    <3>1. Goto(p, x) /\ UNCHANGED <<fileVars, stale>> /\ raced \subseteq raced' /\ req[p].at = "idle"
      BY <2>1 DEF Judges, Verification, Starts, At
    <3>2. x \in ProfileRequest /\ x.at \in Judging
      BY VerdictStarts
    <3> HIDE DEF x
    <3> QED
      BY <1>1, <3>1, <3>2
  <2>2. ASSUME NEW a \in Judging, NEW v, Writes(p, a, v), Done(p) \/ DoneMoving(p, "company")
        PROVE  FileInv'
    BY <1>2, <2>2 DEF Writes, At
  <2> QED
    BY <1>5, <2>1, <2>2
       DEF VerificationStep, verifyCompany, VerifySave, rejectCompanyVerification, RejectSave,
           reapplyForVerification, ReapplySave, Judging
<1>6. ASSUME NEW p \in Request, RequestFails(p)
      PROVE  FileInv'
  BY <1>1, <1>6, <1>d DEF RequestFails, Done
<1>7. ASSUME UNCHANGED <<fileVars, req, stale>>, raced \subseteq raced'
      PROVE  FileInv'
  BY <1>7, FileAside
<1>8. updateAddress => UNCHANGED <<fileVars, req, stale>> /\ raced \subseteq raced'
  BY DEF updateAddress, UnderJudgement
<1> QED
  BY <1>4, <1>5, <1>6, <1>7, <1>8, FileBodies DEF profileVars

LEMMA FileStepInv ==
    ASSUME ProfileTypeOK, Indexed, PictureAlone, ListAlone, FileInv, [ProfileNext]_profileVars
    PROVE  FileInv'
<1>1. ASSUME NEW p \in Request, FileStep(p)
      PROVE  FileInv'
  <2>1. ASSUME UserFileStep(p)
        PROVE  FileInv'
    BY <2>1, FilePictureStarts, FileListStarts
       DEF UserFileStep, updateUserProfilePicture, deleteUserProfilePicture, updateUserBannerImage,
           deleteUserBannerImage, uploadCertificate, deleteCertificate, uploadResume, deleteResume,
           PictureSlot, ListSlot, Owner, Picture
  <2>2. ASSUME CompanyFileStep(p)
        PROVE  FileInv'
    BY <2>2, FilePictureStarts, FileListStarts
       DEF CompanyFileStep, updateProfilePicture, deleteProfilePicture, updateBannerImage,
           deleteBannerImage, uploadDocument, deleteDocument, PictureSlot, ListSlot, Owner, Picture
  <2> QED
    BY <1>1, <2>1, <2>2, FilePictureWork, FileListWork DEF FileStep
<1> QED
  BY <1>1, FileOthers DEF ProfileNext, ProfileStep

-----------------------------------------------------------------------------
(***************************************************************************)
(* The total of the experience.                                            *)
(***************************************************************************)

\* A step of a file leaves entries and verdicts, and its slot on a place.
LEMMA FileSlots ==
    ASSUME ProfileTypeOK, NEW p \in Request, FileStep(p)
    PROVE  /\ UNCHANGED <<entryVars, verdictVars>> /\ raced \subseteq raced'
           /\ \E x : Goto(p, x) /\ (x = Idle \/ (x.on \in Slot /\ x.at \in PictureWork \cup ListWork))
<1> DEFINE Fits(x) == x = Idle \/ (x.on \in Slot /\ x.at \in PictureWork \cup ListWork)
<1>r. req[p] \in ProfileRequest
  BY DEF ProfileTypeOK
<1>b. req[p].at \in PictureWork \cup ListWork => req[p].on \in Slot
  BY <1>r, ProfileLocals DEF Slot
<1>1. ASSUME NEW s \in PictureSlot,
             UserPictureStart(p, s) \/ CompanyPictureStart(p, s) \/ PictureDeleteStart(p, s)
      PROVE  /\ UNCHANGED <<entryVars, verdictVars>> /\ raced \subseteq raced'
             /\ \E x : Goto(p, x) /\ Fits(x)
  <2>1. UNCHANGED <<entryVars, verdictVars>> /\ raced \subseteq raced'
    BY <1>1 DEF UserPictureStart, CompanyPictureStart, PictureDeleteStart, Overlap
  <2>2. CASE UserPictureStart(p, s)
    <3>1. PICK k \in Key : Goto(p, [at |-> "pictureRead", on |-> s, key |-> k, old |-> Null])
      BY <2>2 DEF UserPictureStart
    <3>2. Fits([at |-> "pictureRead", on |-> s, key |-> k, old |-> Null])
      BY DEF Slot, PictureWork
    <3> HIDE DEF Fits
    <3> QED
      BY <2>1, <3>1, <3>2
  <2>3. ASSUME NEW a \in {"picturePut", "pictureUnset"},
               Goto(p, [at |-> a, on |-> s, key |-> Null, old |-> picture[s]])
        PROVE  \E x : Goto(p, x) /\ Fits(x)
    <3>1. Fits([at |-> a, on |-> s, key |-> Null, old |-> picture[s]])
      BY DEF Slot, PictureWork
    <3> HIDE DEF Fits
    <3> QED
      BY <2>3, <3>1
  <2> HIDE DEF Fits
  <2> QED
    BY <1>1, <2>1, <2>2, <2>3 DEF CompanyPictureStart, PictureDeleteStart
<1>2. ASSUME NEW s \in ListSlot, ListAddStart(p, s) \/ ListDeleteStart(p, s)
      PROVE  /\ UNCHANGED <<entryVars, verdictVars>> /\ raced \subseteq raced'
             /\ \E x : Goto(p, x) /\ Fits(x)
  <2>1. UNCHANGED <<entryVars, verdictVars>> /\ raced \subseteq raced'
    BY <1>2 DEF ListAddStart, ListDeleteStart
  <2>2. CASE ListAddStart(p, s)
    <3>1. Goto(p, [at |-> "listPut", on |-> s]) /\ Fits([at |-> "listPut", on |-> s])
      BY <2>2 DEF ListAddStart, Slot, ListWork
    <3> HIDE DEF Fits
    <3> QED
      BY <2>1, <3>1
  <2>3. CASE ListDeleteStart(p, s)
    <3>1. PICK k : Goto(p, [at |-> "listCut", on |-> s, key |-> k, seen |-> files[s]])
      BY <2>3 DEF ListDeleteStart
    <3>2. Fits([at |-> "listCut", on |-> s, key |-> k, seen |-> files[s]])
      BY DEF Slot, ListWork
    <3> HIDE DEF Fits
    <3> QED
      BY <2>1, <3>1, <3>2
  <2> QED
    BY <1>2, <2>2, <2>3
<1>3. ASSUME generateAndUpload(p)
      PROVE  /\ UNCHANGED <<entryVars, verdictVars>> /\ raced \subseteq raced'
             /\ \E x : Goto(p, x) /\ Fits(x)
  <2>1. PICK k \in Key : Goto(p, [at |-> "builtPush", on |-> <<"user", "resumeURL">>, key |-> k])
    BY <1>3 DEF generateAndUpload
  <2>2. Fits([at |-> "builtPush", on |-> <<"user", "resumeURL">>, key |-> k])
    BY DEF Slot, ListSlot, ListWork
  <2>3. UNCHANGED <<entryVars, verdictVars>> /\ raced \subseteq raced'
    BY <1>3 DEF generateAndUpload
  <2> HIDE DEF Fits
  <2> QED
    BY <2>1, <2>2, <2>3
<1>4. ASSUME UserFileStep(p) \/ CompanyFileStep(p)
      PROVE  /\ UNCHANGED <<entryVars, verdictVars>> /\ raced \subseteq raced'
             /\ \E x : Goto(p, x) /\ Fits(x)
  <2> HIDE DEF Fits
  <2> QED
    BY <1>1, <1>2, <1>3, <1>4
       DEF UserFileStep, updateUserProfilePicture, deleteUserProfilePicture, updateUserBannerImage,
           deleteUserBannerImage, uploadCertificate, deleteCertificate, uploadResume, deleteResume,
           CompanyFileStep, updateProfilePicture, deleteProfilePicture, updateBannerImage,
           deleteBannerImage, uploadDocument, deleteDocument, PictureSlot, ListSlot, Owner, Picture
<1>5. ASSUME \/ UserPictureRead(p) \/ CompanyPicturePut(p)
             \/ PictureSave(p) \/ PictureUnset(p) \/ PictureClean(p)
      PROVE  /\ UNCHANGED <<entryVars, verdictVars>> /\ raced \subseteq raced'
             /\ \E x : Goto(p, x) /\ Fits(x)
  <2>1. UNCHANGED <<entryVars, verdictVars>> /\ raced \subseteq raced'
    BY <1>5 DEF UserPictureRead, CompanyPicturePut, PictureSave, PictureUnset, PictureClean
  <2>2. req[p].on \in Slot
    BY <1>5, <1>b
       DEF UserPictureRead, CompanyPicturePut, PictureSave, PictureUnset, PictureClean, At, PictureWork
  <2>3. Fits(Idle)
    OBVIOUS
  <2>4. \A a \in {"pictureSave", "pictureClean"} : \A k, o :
           Fits([at |-> a, on |-> req[p].on, key |-> k, old |-> o])
    BY <2>2 DEF PictureWork
  <2>5. \/ \E a \in {"pictureSave", "pictureClean"} : \E k, o :
              Goto(p, [at |-> a, on |-> req[p].on, key |-> k, old |-> o])
        \/ Goto(p, Idle)
    <3>1. CASE UserPictureRead(p)
      <4>1. picture[req[p].on] \in Key \cup {Null}
        BY <3>1, <1>r, ProfileLocals DEF UserPictureRead, At, PictureWork, ProfileTypeOK
      <4>2. Goto(p, [at |-> "pictureSave", on |-> req[p].on, key |-> req[p].key,
                     old |-> picture[req[p].on]])
        BY <3>1, <4>1, <1>r, ProfileMoves DEF UserPictureRead, At
      <4> QED
        BY <4>2
    <3>2. CASE CompanyPicturePut(p)
      <4>1. PICK k \in Key : Goto(p, [req[p] EXCEPT !.at = "pictureSave", !.key = k])
        BY <3>2 DEF CompanyPicturePut
      <4>2. Goto(p, [at |-> "pictureSave", on |-> req[p].on, key |-> k, old |-> req[p].old])
        BY <3>2, <4>1, <1>r, ProfileMoves DEF CompanyPicturePut, At
      <4> QED
        BY <4>2
    <3>3. CASE PictureSave(p) \/ PictureUnset(p)
      BY <3>3, ThenCleanSlot DEF PictureSave, PictureUnset, At, Done
    <3>4. CASE PictureClean(p)
      BY <3>4 DEF PictureClean, Done
    <3> QED
      BY <1>5, <3>1, <3>2, <3>3, <3>4
  <2> HIDE DEF Fits
  <2> QED
    BY <2>1, <2>3, <2>4, <2>5
<1>6. ASSUME ListPut(p) \/ ListPush(p) \/ BuiltPush(p) \/ ListCut(p) \/ ListClean(p)
      PROVE  /\ UNCHANGED <<entryVars, verdictVars>> /\ raced \subseteq raced'
             /\ \E x : Goto(p, x) /\ Fits(x)
  <2>1. UNCHANGED <<entryVars, verdictVars>> /\ raced \subseteq raced'
    BY <1>6 DEF ListPut, ListPush, BuiltPush, ListCut, ListClean, UnderJudgement
  <2>2. req[p].on \in Slot
    BY <1>6, <1>b DEF ListPut, ListPush, BuiltPush, ListCut, ListClean, At, ListWork
  <2>3. Fits(Idle)
    OBVIOUS
  <2>4. \A a \in {"listPush", "listClean"} : \A k : Fits([at |-> a, on |-> req[p].on, key |-> k])
    BY <2>2 DEF ListWork
  <2>5. \/ \E a \in {"listPush", "listClean"} : \E k : Goto(p, [at |-> a, on |-> req[p].on, key |-> k])
        \/ Goto(p, Idle)
    BY <1>6 DEF ListPut, ListPush, BuiltPush, ListCut, ListClean, Done, DoneMoving, Goto
  <2> HIDE DEF Fits
  <2> QED
    BY <2>1, <2>3, <2>4, <2>5
<1> HIDE DEF Fits
<1>7. /\ UNCHANGED <<entryVars, verdictVars>> /\ raced \subseteq raced'
      /\ \E x : Goto(p, x) /\ Fits(x)
  BY <1>4, <1>5, <1>6 DEF FileStep
<1> QED
  BY <1>7 DEF Fits

\* Unless two edits of the experience overlapped, or a body wrote it, its edit
\* is alone and holds the list as it is.
EntryInv ==
    Experience \notin raced =>
        /\ totalled = entries["experience"]
        /\ \A p \in On(Experience) : req[p].seen = entries["experience"]
        /\ \A p, q \in On(Experience) : p = q

LEMMA EntryAside ==
    ASSUME ProfileTypeOK, EntryInv, NEW p \in Request, NEW x, Goto(p, x), x = Idle \/ x.on # Experience,
           entries'["experience"] = entries["experience"], totalled' = totalled, raced \subseteq raced'
    PROVE  EntryInv'
<1>1. /\ \A q \in On(Experience)' : q \in On(Experience) /\ req'[q] = req[q]
  BY OnAfter
<1> QED
  BY <1>1 DEF EntryInv

LEMMA EntryAdded ==
    ASSUME ProfileTypeOK, EntryInv, NEW p \in Request, NEW l \in EntryList,
           Added(p, l) \/ Deleted(p, l) \/ Updated(p, l)
    PROVE  EntryInv'
<1>1. PICK x \in ProfileRequest :
         /\ Goto(p, x) /\ x.on = <<"user", l>> /\ x.seen = entries[l]
         /\ raced' = Overlapped(l) /\ UNCHANGED entryVars
  BY EntryBegins
<1>2. entries' = entries /\ totalled' = totalled /\ raced \subseteq raced'
  BY <1>1 DEF entryVars, Overlapped
<1>3. CASE l # "experience"
  <2>1. x.on # Experience
    BY <1>1, <1>3 DEF Experience
  <2> QED
    BY <1>1, <1>2, <2>1, EntryAside
<1>4. CASE l = "experience" /\ Experience \in raced'
  BY <1>4 DEF EntryInv
<1>5. CASE l = "experience" /\ Experience \notin raced'
  <2>1. On(Experience) = {} /\ Experience \notin raced
    BY <1>1, <1>2, <1>5 DEF Overlapped, Experience
  <2>2. \A q \in On(Experience)' : q = p
    BY <1>1, <2>1, OnAfter
  <2>3. req'[p].seen = entries'["experience"]
    BY <1>1, <1>2, <1>5, OnAfter
  <2> QED
    BY <1>2, <2>1, <2>2, <2>3 DEF EntryInv
<1> QED
  BY <1>3, <1>4, <1>5

LEMMA EntrySaved ==
    ASSUME ProfileTypeOK, Indexed, EntryInv, NEW p \in Request, AddSave(p) \/ DeleteSave(p) \/ UpdateSave(p)
    PROVE  EntryInv'
<1>e. req[p].at \in Editing /\ p \in Busy
  <2>1. req[p].at \in Editing
    BY DEF AddSave, DeleteSave, UpdateSave, At, Editing
  <2>2. Idle.at \notin Editing
    BY DEF Idle, Editing
  <2> QED
    BY <2>1, <2>2 DEF Busy
<1> DEFINE l == req[p].on[2]
<1>l. l \in EntryList /\ req[p].on = <<"user", l>> /\ req[p].seen \in Seq(Line)
  BY <1>e, EntryLocals
<1>s. entries \in [EntryList -> Seq(Line)] /\ "experience" \in EntryList
  BY DEF ProfileTypeOK, EntryList
<1>1. Goto(p, Idle) /\ raced' = raced
  BY DEF AddSave, DeleteSave, UpdateSave, Done, DoneMoving
<1>2. CASE UNCHANGED entryVars
  BY <1>1, <1>2, EntryAside DEF entryVars
\* The list and what its total is computed from become the same.
<1>3. ASSUME NEW new, entries' = [entries EXCEPT ![l] = new],
             NEW total, calculateTotalExperience(l, total),
             l = "experience" /\ req[p].seen = entries[l] => total = new
      PROVE  EntryInv'
  <2>1. CASE l # "experience"
    BY <1>1, <1>3, <1>s, <2>1, EntryAside DEF calculateTotalExperience
  <2>2. CASE l = "experience" /\ Experience \notin raced
    <3>1. p \in On(Experience)
      BY <1>e, <1>l, <2>2 DEF On, Experience
    <3>2. total = new
      BY <1>3, <2>2, <3>1 DEF EntryInv
    <3>3. totalled' = entries'["experience"]
      BY <1>3, <1>s, <2>2, <3>2 DEF calculateTotalExperience
    <3>4. On(Experience)' = {}
      BY <1>1, <2>2, <3>1, OnAfter DEF EntryInv
    <3> QED
      BY <3>3, <3>4 DEF EntryInv
  <2>3. CASE Experience \in raced
    BY <1>1, <2>3 DEF EntryInv
  <2> QED
    BY <2>1, <2>2, <2>3
<1>4. CASE AddSave(p)
  BY <1>3, <1>4 DEF AddSave
<1>5. CASE DeleteSave(p) /\ p \notin stale
  BY <1>3, <1>5 DEF DeleteSave
<1>6. CASE UpdateSave(p) /\ p \notin stale
  <2>1. entries' = [entries EXCEPT ![l] = SetAt(entries[l], req[p].index, req[p].entry)]
    BY <1>6 DEF UpdateSave
  <2>2. calculateTotalExperience(l, SetAt(req[p].seen, req[p].index, req[p].entry))
    BY <1>6 DEF UpdateSave
  <2> QED
    BY <1>3, <2>1, <2>2
<1> QED
  BY <1>2, <1>4, <1>5, <1>6 DEF DeleteSave, UpdateSave

LEMMA EntryStepInv ==
    ASSUME ProfileTypeOK, Indexed, EntryInv, [ProfileNext]_profileVars
    PROVE  EntryInv'
<1>1. ASSUME NEW p \in Request, FileStep(p)
      PROVE  EntryInv'
  <2>1. PICK x : Goto(p, x) /\ (x = Idle \/ x.on \in Slot)
    BY <1>1, FileSlots
  <2>2. x = Idle \/ x.on # Experience
    BY <2>1, Places
  <2> QED
    BY <1>1, <2>1, <2>2, FileSlots, EntryAside DEF entryVars
<1>2. ASSUME NEW p \in Request, EntryStep(p)
      PROVE  EntryInv'
  BY <1>2, EntryAdded, EntrySaved
     DEF EntryStep, addUserEducation, updateUserEducation, deleteUserEducation,
         addUserExperience, updateUserExperience, deleteUserExperience, EntryList
<1>3. ASSUME NEW p \in Request, VerificationStep(p)
      PROVE  EntryInv'
  <2>1. ASSUME NEW a \in Judging, Judges(p, a)
        PROVE  EntryInv'
    <3> DEFINE x == [at |-> a, on |-> Verification]
    <3>1. Goto(p, x) /\ UNCHANGED entryVars /\ raced \subseteq raced'
      BY <2>1 DEF Judges, Verification
    <3>2. x.on # Experience
      BY Places
    <3> HIDE DEF x
    <3> QED
      BY <3>1, <3>2, EntryAside DEF entryVars
  <2>2. ASSUME NEW a, NEW v, Writes(p, a, v), Done(p) \/ DoneMoving(p, "company")
        PROVE  EntryInv'
    BY <2>2, EntryAside DEF Writes, Done, DoneMoving, entryVars
  <2> QED
    BY <1>3, <2>1, <2>2
       DEF VerificationStep, verifyCompany, VerifySave, rejectCompanyVerification, RejectSave,
           reapplyForVerification, ReapplySave, Judging
<1>4. ASSUME NEW p \in Request, RequestFails(p)
      PROVE  EntryInv'
  <2>1. Goto(p, Idle) /\ UNCHANGED entryVars /\ raced \subseteq raced'
    BY <1>4 DEF RequestFails, Done
  <2> QED
    BY <2>1, EntryAside DEF entryVars
<1>5. ASSUME UNCHANGED <<entryVars, req>>, raced \subseteq raced'
      PROVE  EntryInv'
  BY <1>5 DEF EntryInv, On, Busy, entryVars
<1>6. updateBasicProfile \/ updateAddress => UNCHANGED <<entryVars, req>> /\ raced \subseteq raced'
  BY DEF updateBasicProfile, updateAddress, UnderJudgement
<1>7. CASE updateUserProfile
  <2>1. raced \subseteq raced' /\ UNCHANGED req
    BY <1>7 DEF updateUserProfile
  <2>2. \/ entries'["experience"] = entries["experience"] /\ totalled' = totalled
        \/ Experience \in raced'
    BY <1>7 DEF updateUserProfile, Experience
  <2> QED
    BY <2>1, <2>2 DEF EntryInv, On, Busy
<1> QED
  BY <1>1, <1>2, <1>3, <1>4, <1>5, <1>6, <1>7 DEF ProfileNext, ProfileStep, profileVars

-----------------------------------------------------------------------------
(***************************************************************************)
(* Verdicts.                                                               *)
(***************************************************************************)

Deciding == {p \in Request : req[p].at \in Judging}

\* Unless two decisions overlapped, or the profile changed under one, a decision
\* is alone and what it was taken on still holds.
VerdictInv ==
    Verification \notin raced =>
        \A p \in Deciding :
            /\ \A q \in Deciding : q = p
            /\ At(p, "verifySave") => missingFields = {}
            /\ At(p, "reapplySave") => verificationStatus = "rejected"

\* What leaves the decisions that are in flight with what they were taken on.
Undisturbed ==
    /\ verificationStatus' = verificationStatus /\ raced \subseteq raced'
    /\ \/ filled' = filled /\ files[Documents] \subseteq files'[Documents]
       \/ (\E q \in Request : At(q, "verifySave")) => Verification \in raced'

LEMMA MissingFields ==
    /\ missingFields = {} <=> \A rule \in Rule : Holds(rule)
    /\ missingFields' = {} <=> \A rule \in Rule : Holds(rule)'
  BY DEF missingFields

LEMMA NothingLost ==
    ASSUME missingFields = {}, filled' = filled, files[Documents] \subseteq files'[Documents]
    PROVE  missingFields' = {}
<1>1. \A rule \in Rule : Holds(rule)
  BY DEF missingFields
<1>2. ASSUME NEW rule \in Rule
      PROVE  Holds(rule)'
  <2>1. Holds(rule)
    BY <1>1
  <2> QED
    BY <2>1 DEF Holds, Documents
<1> QED
  BY <1>2 DEF missingFields

LEMMA VerdictKept ==
    ASSUME VerdictInv, Undisturbed, \A q \in Request : req'[q].at \in Judging => req'[q] = req[q]
    PROVE  VerdictInv'
<1>1. SUFFICES ASSUME Verification \notin raced', NEW p \in Deciding'
               PROVE  /\ \A q \in Deciding' : q = p
                      /\ At(p, "verifySave")' => missingFields' = {}
                      /\ At(p, "reapplySave")' => verificationStatus' = "rejected"
  BY DEF VerdictInv
<1>2. Verification \notin raced
  BY <1>1 DEF Undisturbed
<1>3. Deciding' \subseteq Deciding /\ \A q \in Deciding' : req'[q] = req[q]
  BY DEF Deciding
<1>4. /\ \A q \in Deciding : q = p
      /\ At(p, "verifySave") => missingFields = {}
      /\ At(p, "reapplySave") => verificationStatus = "rejected"
  BY <1>1, <1>2, <1>3 DEF VerdictInv
<1>5. At(p, "verifySave")' => missingFields' = {}
  <2>1. SUFFICES ASSUME At(p, "verifySave") PROVE missingFields' = {}
    BY <1>1, <1>3 DEF At
  <2>2. filled' = filled /\ files[Documents] \subseteq files'[Documents]
    BY <1>1, <2>1 DEF Undisturbed, Deciding
  <2> QED
    BY <1>4, <2>1, <2>2, NothingLost
<1>6. At(p, "reapplySave")' => verificationStatus' = "rejected"
  BY <1>1, <1>3, <1>4 DEF At, Undisturbed
<1> QED
  BY <1>1, <1>3, <1>4, <1>5, <1>6

\* A step of a slot that takes no decision.
LEMMA VerdictAside ==
    ASSUME ProfileTypeOK, VerdictInv, Undisturbed, NEW p \in Request, NEW x, Goto(p, x), x.at \notin Judging
    PROVE  VerdictInv'
<1>1. \A q \in Request : req'[q].at \in Judging => req'[q] = req[q]
  BY ProfileSlots DEF ProfileTypeOK
<1> QED
  BY <1>1, VerdictKept

\* The documents are cut from only under a mark on the decision.
LEMMA FilesUndisturbed ==
    ASSUME ProfileTypeOK, NEW p \in Request, FileStep(p)
    PROVE  Undisturbed
<1>1. verificationStatus' = verificationStatus /\ filled' = filled /\ raced \subseteq raced'
  BY FileSlots DEF verdictVars
<1>2. CASE ~ListCut(p)
  <2>1. \/ files' = files
        \/ \E s \in ListSlot : \E k : files' = [files EXCEPT ![s] = @ \cup {k}]
    <3>1. CASE ListPush(p) \/ BuiltPush(p)
      <4>1. req[p].on \in ListSlot
        BY <3>1, ProfileLocals DEF ListPush, BuiltPush, At, ListWork, ProfileTypeOK
      <4> QED
        BY <3>1, <4>1 DEF ListPush, BuiltPush
    <3>2. CASE ListPut(p) \/ ListClean(p)
      BY <3>2 DEF ListPut, ListClean
    <3>3. CASE UserFileStep(p) \/ CompanyFileStep(p)
      BY <3>3
         DEF UserFileStep, updateUserProfilePicture, deleteUserProfilePicture, updateUserBannerImage,
             deleteUserBannerImage, uploadCertificate, deleteCertificate, uploadResume, deleteResume,
             CompanyFileStep, updateProfilePicture, deleteProfilePicture, updateBannerImage,
             deleteBannerImage, uploadDocument, deleteDocument, UserPictureStart, CompanyPictureStart,
             PictureDeleteStart, ListAddStart, ListDeleteStart, generateAndUpload, fileVars
    <3>4. CASE \/ UserPictureRead(p) \/ CompanyPicturePut(p)
               \/ PictureSave(p) \/ PictureUnset(p) \/ PictureClean(p)
      BY <3>4 DEF UserPictureRead, CompanyPicturePut, PictureSave, PictureUnset, PictureClean, fileVars
    <3> QED
      BY <1>2, <3>1, <3>2, <3>3, <3>4 DEF FileStep
  <2>2. files[Documents] \subseteq files'[Documents]
    <3>1. files \in [ListSlot -> SUBSET Key] /\ Documents \in ListSlot
      BY Places DEF ProfileTypeOK
    <3>2. ASSUME NEW s \in ListSlot, NEW k, files' = [files EXCEPT ![s] = @ \cup {k}]
          PROVE  files[Documents] \subseteq files'[Documents]
      BY <3>1, <3>2
    <3> QED
      BY <2>1, <3>2
  <2> QED
    BY <1>1, <2>2 DEF Undisturbed
<1>3. CASE ListCut(p)
  <2>1. req[p].on \in ListSlot
    BY <1>3, ProfileLocals DEF ListCut, At, ListWork, ProfileTypeOK
  <2>2. CASE req[p].on = Documents
    <3>1. (\E q \in Request : At(q, "verifySave")) => Verification \in raced'
      BY <1>3, <2>2 DEF ListCut, UnderJudgement, Documents, Verification
    <3> QED
      BY <1>1, <3>1 DEF Undisturbed
  <2>3. CASE req[p].on # Documents
    <3>1. files'[Documents] = files[Documents]
      BY <1>3, <2>1, <2>3, Places DEF ListCut, ProfileTypeOK
    <3> QED
      BY <1>1, <3>1 DEF Undisturbed
  <2> QED
    BY <2>2, <2>3
<1> QED
  BY <1>2, <1>3

\* A decision starts.
LEMMA VerdictBegins ==
    ASSUME ProfileTypeOK, VerdictInv, NEW p \in Request, NEW a \in Judging, Judges(p, a),
           a = "verifySave" => missingFields = {},
           a = "reapplySave" => verificationStatus = "rejected"
    PROVE  VerdictInv'
<1>1. CASE Verification \in raced'
  BY <1>1 DEF VerdictInv
<1>2. CASE Verification \notin raced'
  <2>1. Deciding = {}
    BY <1>2 DEF Judges, Deciding, Verification
  <2>2. \A q \in Deciding' : q = p
    BY <2>1, ProfileSlots DEF Judges, Deciding, ProfileTypeOK
  <2>3. req'[p].at = a
    BY ProfileSlots DEF Judges, ProfileTypeOK
  <2>4. missingFields' = missingFields /\ verificationStatus' = verificationStatus
    BY DEF Judges, missingFields, Holds, fileVars, verdictVars
  <2> QED
    BY <2>2, <2>3, <2>4 DEF VerdictInv, At
<1> QED
  BY <1>1, <1>2

\* A decision is written: where nothing is raced it was the only one.
LEMMA VerdictWritten ==
    ASSUME ProfileTypeOK, VerdictInv, NEW p \in Request, NEW a \in Judging, NEW v, Writes(p, a, v), Goto(p, Idle)
    PROVE  VerdictInv'
<1>1. req'[p] = Idle /\ \A q \in Request \ {p} : req'[q] = req[q]
  BY ProfileSlots DEF ProfileTypeOK
<1>2. p \in Deciding /\ raced' = raced
  BY DEF Writes, At, Deciding
<1>3. Deciding' \subseteq Deciding \ {p}
  BY <1>1 DEF Deciding, Idle, Judging
<1> QED
  BY <1>2, <1>3 DEF VerdictInv

LEMMA VerdictStepInv ==
    ASSUME ProfileTypeOK, Indexed, VerdictInv, [ProfileNext]_profileVars
    PROVE  VerdictInv'
<1>i. Idle.at \notin Judging
  BY DEF Idle, Judging
<1>1. ASSUME NEW p \in Request, FileStep(p)
      PROVE  VerdictInv'
  <2>1. PICK x : Goto(p, x) /\ (x = Idle \/ x.at \in PictureWork \cup ListWork)
    BY <1>1, FileSlots
  <2>2. x.at \notin Judging
    BY <2>1, <1>i DEF PictureWork, ListWork, Judging
  <2> QED
    BY <1>1, <2>1, <2>2, FilesUndisturbed, VerdictAside
<1>2. ASSUME NEW p \in Request, EntryStep(p)
      PROVE  VerdictInv'
  <2>1. ASSUME NEW l \in EntryList, Added(p, l) \/ Deleted(p, l) \/ Updated(p, l)
        PROVE  VerdictInv'
    <3>1. PICK x \in ProfileRequest : /\ Goto(p, x) /\ x.at \in Editing
                                      /\ UNCHANGED <<fileVars, verdictVars>> /\ raced' = Overlapped(l)
      BY <2>1, EntryBegins
    <3>2. x.at \notin Judging /\ Undisturbed
      BY <3>1 DEF Editing, Judging, Undisturbed, Overlapped, fileVars, verdictVars
    <3> QED
      BY <3>1, <3>2, VerdictAside
  <2>2. ASSUME AddSave(p) \/ DeleteSave(p) \/ UpdateSave(p)
        PROVE  VerdictInv'
    <3>1. Goto(p, Idle) /\ Undisturbed
      BY <2>2 DEF AddSave, DeleteSave, UpdateSave, Done, DoneMoving, Undisturbed, fileVars, verdictVars
    <3> QED
      BY <3>1, <1>i, VerdictAside
  <2> QED
    BY <1>2, <2>1, <2>2
       DEF EntryStep, addUserEducation, updateUserEducation, deleteUserEducation,
           addUserExperience, updateUserExperience, deleteUserExperience, EntryList
<1>3. ASSUME NEW p \in Request, VerificationStep(p)
      PROVE  VerdictInv'
  <2>1. CASE verifyCompany(p)
    BY <2>1, VerdictBegins DEF verifyCompany, Judging
  <2>2. CASE rejectCompanyVerification(p)
    BY <2>2, VerdictBegins DEF rejectCompanyVerification, Judging
  <2>3. CASE reapplyForVerification(p)
    <3>1. verificationStatus = "rejected"
      BY <2>3 DEF reapplyForVerification, ProfileTypeOK, Verdict
    <3> QED
      BY <2>3, <3>1, VerdictBegins DEF reapplyForVerification, Judging
  <2>4. CASE VerifySave(p) \/ RejectSave(p) \/ ReapplySave(p)
    BY <2>4, VerdictWritten DEF VerifySave, RejectSave, ReapplySave, Done, DoneMoving, Judging
  <2> QED
    BY <1>3, <2>1, <2>2, <2>3, <2>4 DEF VerificationStep
<1>4. ASSUME NEW p \in Request, RequestFails(p)
      PROVE  VerdictInv'
  <2>1. Goto(p, Idle) /\ Undisturbed
    BY <1>4 DEF RequestFails, Done, Undisturbed, fileVars, verdictVars
  <2> QED
    BY <2>1, <1>i, VerdictAside
<1>5. CASE updateAddress
  <2>1. Undisturbed /\ req' = req
    BY <1>5 DEF updateAddress, UnderJudgement, Undisturbed, Verification
  <2> QED
    BY <2>1, VerdictKept
\* A body that writes the status where a decision is in flight marks it.
<1>7. CASE updateBasicProfile
  <2>1. CASE verificationStatus' = verificationStatus
    <3>1. Undisturbed /\ req' = req
      BY <1>7, <2>1 DEF updateBasicProfile, UnderJudgement, Undisturbed, Verification
    <3> QED
      BY <3>1, VerdictKept
  <2>2. CASE verificationStatus' # verificationStatus
    <3>1. Verification \in raced' \/ Deciding = {}
      BY <1>7, <2>2 DEF updateBasicProfile, Verification, Deciding
    <3>2. Deciding' = Deciding
      BY <1>7 DEF updateBasicProfile, Deciding
    <3> QED
      BY <3>1, <3>2 DEF VerdictInv
  <2> QED
    BY <2>1, <2>2
<1>8. CASE updateUserProfile
  <2>1. files'[Documents] = files[Documents]
    <3>1. PICK fields \in UserBody : WritesNames("user", fields)
      BY <1>8 DEF updateUserProfile
    <3>2. Documents \in ListSlot /\ Documents[1] # "user"
      BY DEF Documents, ListSlot
    <3> QED
      BY <3>1, <3>2 DEF WritesNames
  <2>2. Undisturbed /\ req' = req
    BY <1>8, <2>1 DEF updateUserProfile, Undisturbed, verdictVars
  <2> QED
    BY <2>2, VerdictKept
<1>6. CASE UNCHANGED profileVars
  <2>1. Undisturbed /\ req' = req
    BY <1>6 DEF profileVars, fileVars, verdictVars, Undisturbed
  <2> QED
    BY <2>1, VerdictKept
<1> QED
  BY <1>1, <1>2, <1>3, <1>4, <1>5, <1>6, <1>7, <1>8
     DEF ProfileNext, ProfileStep

\* A decision written where nothing is raced was taken on what is there yet.
LEMMA VerdictSound ==
    ASSUME ProfileTypeOK, Indexed, VerdictInv, [ProfileNext]_profileVars
    PROVE  verificationStatus' # verificationStatus =>
              \/ updateBasicProfile
              \/ Verification \in raced'
              \/ /\ verificationStatus' = "verified" =>
                        /\ files[Documents] # {}
                        /\ Rule \ {"documents", "phone"} \subseteq filled
                 /\ verificationStatus' = "pending" => verificationStatus = "rejected"
<1>1. SUFFICES ASSUME verificationStatus' # verificationStatus, Verification \notin raced',
                      ~updateBasicProfile
               PROVE  /\ verificationStatus' = "verified" =>
                             /\ files[Documents] # {}
                             /\ Rule \ {"documents", "phone"} \subseteq filled
                      /\ verificationStatus' = "pending" => verificationStatus = "rejected"
  OBVIOUS
<1>2. \E p \in Request : VerifySave(p) \/ RejectSave(p) \/ ReapplySave(p)
  <2>1. \A p \in Request : ~FileStep(p)
    BY <1>1, FileSlots DEF verdictVars
  <2>2. \A p \in Request : ~EntryStep(p)
    BY <1>1
       DEF EntryStep, addUserEducation, updateUserEducation, deleteUserEducation, addUserExperience,
           updateUserExperience, deleteUserExperience, Added, Deleted, Updated, AddSave, DeleteSave,
           UpdateSave, verdictVars
  <2> QED
    BY <1>1, <2>1, <2>2
       DEF ProfileNext, ProfileStep, VerificationStep, verifyCompany, rejectCompanyVerification,
           reapplyForVerification, Judges, RequestFails, updateUserProfile, updateAddress, profileVars,
           verdictVars
<1>3. PICK p \in Request : VerifySave(p) \/ RejectSave(p) \/ ReapplySave(p)
  BY <1>2
<1>4. Verification \notin raced /\ p \in Deciding
  BY <1>1, <1>3 DEF VerifySave, RejectSave, ReapplySave, Writes, At, Deciding, Judging
<1>5. CASE VerifySave(p)
  <2>1. verificationStatus' = "verified" /\ At(p, "verifySave")
    BY <1>5 DEF VerifySave, Writes
  <2>2. \A rule \in Rule : Holds(rule)
    BY <1>4, <2>1, MissingFields DEF VerdictInv
  <2>3. "documents" \in Rule
    BY DEF Rule, Weight
  <2>4. files[Documents] # {}
    BY <2>2, <2>3 DEF Holds, Documents
  <2>5. Rule \ {"documents", "phone"} \subseteq filled
    BY <2>2 DEF Holds, Field
  <2> QED
    BY <2>1, <2>4, <2>5
<1>6. CASE RejectSave(p)
  BY <1>6 DEF RejectSave, Writes
<1>7. CASE ReapplySave(p)
  BY <1>4, <1>7 DEF VerdictInv, ReapplySave, Writes
<1> QED
  BY <1>3, <1>5, <1>6, <1>7

-----------------------------------------------------------------------------
(***************************************************************************)
(* The four properties.                                                    *)
(***************************************************************************)

\* Inductive: what each slot holds, who is alone at a place, where each file is.
ProfileInv ==
    /\ ProfileTypeOK /\ Indexed
    /\ PictureAlone /\ ListAlone
    /\ FileInv
    /\ EntryInv
    /\ VerdictInv

LEMMA ProfileInvStarted == ProfileInit => ProfileInv
<1> SUFFICES ASSUME ProfileInit PROVE ProfileInv
  OBVIOUS
<1>1. ProfileTypeOK /\ Indexed
  BY ProfileTypeStarted
<1>2. /\ bucket = {} /\ home = [k \in Key |-> Null]
      /\ picture = [s \in PictureSlot |-> Null] /\ files = [s \in ListSlot |-> {}]
  BY DEF ProfileInit
<1>3. \A p \in Request : req[p] = Idle
  BY DEF ProfileInit
<1>4. \A s : On(s) = {}
  BY <1>3 DEF On, Busy
<1>5. \A s \in Slot : Named(s) = {}
  BY <1>2, NamedProps DEF Slot
<1>6. \A p \in Request : FreshOf(req[p]) = {} /\ GoingOf(req[p]) = {} /\ HeldOf(req[p]) = {}
  BY <1>3 DEF FreshOf, GoingOf, HeldOf, Idle, Uploading, Replacing
<1>7. FileInv
  <2>1. \A p \in Request : ~Cutting(p)
    BY <1>3 DEF Cutting, At, Idle
  <2> QED
    BY <1>2, <1>5, <1>6, <2>1
       DEF FileInv, StoredAtHome, NamedAtHome, FreshAlone, GoingUnnamed, HeldNamed, CutShown, StraysHeld
<1>8. EntryInv
  <2>1. totalled = entries["experience"]
    BY DEF ProfileInit, EntryList
  <2> QED
    BY <1>4, <2>1 DEF EntryInv
<1>9. VerdictInv
  BY <1>3 DEF VerdictInv, Deciding, Idle, Judging
<1> QED
  BY <1>1, <1>4, <1>7, <1>8, <1>9 DEF ProfileInv, PictureAlone, ListAlone

LEMMA ProfileInvStep == ProfileInv /\ [ProfileNext]_profileVars => ProfileInv'
<1> SUFFICES ASSUME ProfileInv, [ProfileNext]_profileVars PROVE ProfileInv'
  OBVIOUS
<1>1. ProfileTypeOK' /\ Indexed'
  BY ProfileTypeStep DEF ProfileInv, TypesKept
<1>2. PictureAlone' /\ ListAlone'
  BY AloneStep DEF ProfileInv
<1>3. FileInv'
  BY FileStepInv DEF ProfileInv
<1>4. EntryInv' /\ VerdictInv'
  BY EntryStepInv, VerdictStepInv DEF ProfileInv
<1> QED
  BY <1>1, <1>2, <1>3, <1>4 DEF ProfileInv

LEMMA ProfileInvAlways == ProfileSpec => []ProfileInv
  BY ProfileInvStarted, ProfileInvStep, PTL DEF ProfileSpec

LEMMA StraysGiven ==
    ASSUME ProfileInv
    PROVE  StraysExplained
<1>1. SUFFICES ASSUME NEW k \in bucket
               PROVE  \/ k \in Named(home[k])
                      \/ \E p \in Request : k \in InHand(p)
                      \/ home[k] \in raced
  BY DEF StraysExplained
<1>2. Explained(k)
  BY <1>1 DEF ProfileInv, FileInv, StraysHeld
<1> QED
  BY <1>2, HandOf DEF Explained

\* No picture, certificate, resume or document that a profile names is ever
\* missing from the bucket unless a client gave its key himself, in a body or to
\* delete what his list did not name; however many requests replace, delete, push
\* and write back the same lists, and wherever they stop.
THEOREM NamedFilesKept == ProfileSpec => []NamedFilesExist
<1>1. ProfileInv => NamedFilesExist
  BY DEF ProfileInv, FileInv, NamedAtHome, NamedFilesExist
<1> QED
  BY <1>1, ProfileInvAlways, PTL

\* A file left in the bucket that its place does not name is in the hand of a
\* request in flight, or comes from an await that rejected, a body that wrote over
\* the name, or two requests that overlapped on its place.
THEOREM StraysAccounted == ProfileSpec => []StraysExplained
<1>1. ProfileInv => StraysExplained
  BY StraysGiven
<1> QED
  BY <1>1, ProfileInvAlways, PTL

\* totalExperienceYears is the total of the lines that are listed, unless two
\* edits of the experience overlapped or a body wrote the one or the other;
\* whatever index a line is set or cut at.
THEOREM TotalAgrees == ProfileSpec => []TotalAgreesUnlessRaced
<1>1. ProfileInv => TotalAgreesUnlessRaced
  BY DEF ProfileInv, EntryInv, TotalAgreesUnlessRaced, Experience
<1> QED
  BY <1>1, ProfileInvAlways, PTL

\* A verdict rests on the profile as it is when it is written, unless a
\* decision or a change of the profile overlapped it, or the company wrote the
\* status itself.
THEOREM VerdictsSound == ProfileSpec => VerdictsSoundUnlessRaced
<1>1. ProfileInv /\ [ProfileNext]_profileVars =>
        [verificationStatus' # verificationStatus =>
          \/ updateBasicProfile
          \/ <<"company", "verificationStatus">> \in raced'
          \/ /\ verificationStatus' = "verified" =>
                    /\ files[<<"company", "documents">>] # {}
                    /\ Rule \ {"documents", "phone"} \subseteq filled
             /\ verificationStatus' = "pending" => verificationStatus = "rejected"]_profileVars
  BY VerdictSound DEF ProfileInv, Verification, Documents
<1> QED
  BY <1>1, ProfileInvAlways, PTL DEF ProfileSpec, VerdictsSoundUnlessRaced
=============================================================================

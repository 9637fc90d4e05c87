---------------------------- MODULE ProfileStore ----------------------------
(***************************************************************************)
(* The profile documents of one candidate and of one company, the bucket   *)
(* (S3) that keeps their files, and the requests in flight over them.  A   *)
(* profile names its files by key; bucket and database know nothing of     *)
(* each other.                                                             *)
(*                                                                         *)
(* Mongoose guards an array it writes whole, and an element it writes by   *)
(* index, with the document's __v as it was read, and moves __v when an    *)
(* array is written whole or pushed to; stale holds the slots whose __v    *)
(* has moved.  A write by id neither asks for __v nor moves it.            *)
(***************************************************************************)
EXTENDS Naturals, SequencesExt

CONSTANTS
    Key,         \* keys of the bucket
    Entry,       \* lines of an education or of an experience
    Form,        \* what a company may have filled in of its profile
    UserBody,    \* the sets of fields the body of a candidate's PATCH may set
    CompanyBody, \* the sets of fields the body of a company's PUT may set
    Lines,       \* the lists of lines a body may write
    Null,        \* no picture, no line
    Request,     \* slots for requests in flight
    MaxEntries,  \* bound on the lines of a list
    MaxRequest,  \* bound on the requests started
    MaxFail      \* bound on awaits that reject

Owner == {"user", "company"}

Picture == {"profilePicture", "bannerImage"}

\* A place of a profile that names files: a picture, or a list of documents.
PictureSlot == Owner \X Picture

ListSlot == {<<"user", "certificates">>, <<"user", "resumeURL">>, <<"company", "documents">>}

Slot == PictureSlot \cup ListSlot

EntryList == {"education", "experience"}

\* A line written past the end of a list leaves null in between.
Line == Entry \cup {Null}

ASSUME ProfileAssumption ==
    /\ Null \notin Key \cup Slot
    /\ \A lines \in Lines : lines \in Seq(Line)
    /\ IsFiniteSet(Request)
    /\ {MaxEntries, MaxRequest, MaxFail} \subseteq Nat

VARIABLES
    bucket,      \* the keys under which a file is stored
    home,        \* what each key was made for: its folder and its owner
    picture,     \* the key each picture names
    files,       \* the keys each list names
    given,       \* history: keys a client gave of his own, in a body to be
                 \* named, or to be deleted when his list did not name them
    entries,     \* the candidate's education and experience
    totalled,    \* the experience totalExperienceYears was computed from
    filled,      \* what the company has filled in
    verificationStatus,
    req,         \* what each slot is doing: the await it is at, its locals
    stale,       \* slots that read a document whose __v has moved since
    started,     \* requests so far
    fails,       \* awaits that rejected so far
    raced        \* history: what overlapping or rejected requests, or a body,
                 \* may have spoilt

fileVars == <<bucket, home, picture, files, given>>
entryVars == <<entries, totalled>>
verdictVars == <<filled, verificationStatus>>
profileVars == <<fileVars, entryVars, verdictVars, req, stale, started, fails, raced>>

(***************************************************************************)
(* Slots of requests.                                                      *)
(***************************************************************************)
Idle == [at |-> "idle"]

Uploading == {"pictureRead", "picturePut", "pictureSave", "listPut", "listPush", "builtPush"}

Cleaning == {"pictureClean", "listClean"}

Editing == {"entryPush", "entryCut", "entrySet"}

Judging == {"verifySave", "rejectSave", "reapplySave"}

At(p, label) == req[p].at = label

Busy == {p \in Request : req[p] # Idle}

On(s) == {p \in Busy : req[p].on = s}

\* The slots that hold what they read of an owner's document.
Readers(o) == {p \in Busy : req[p].on[1] = o}

Goto(p, r) == req' = [req EXCEPT ![p] = r]

Move(p, label) == Goto(p, [req[p] EXCEPT !.at = label])

Done(p) == Goto(p, Idle) /\ stale' = stale \ {p}

\* p's write moves __v for everybody else who has read the document.
DoneMoving(p, o) == Goto(p, Idle) /\ stale' = (stale \cup Readers(o)) \ {p}

\* A company's profile changes while the administrator decides on what it was.
UnderJudgement ==
    IF \E q \in Request : At(q, "verifySave") THEN raced \cup {<<"company", "verificationStatus">>} ELSE raced

\* Bound: a request starts while MaxRequest leaves room for it.
Counted == started < MaxRequest /\ started' = started + 1

Starts(p) == At(p, "idle") /\ Counted

ProfileRequest ==
    {Idle}
    \cup [at: {"picturePut", "pictureUnset"}, on: PictureSlot, key: {Null}, old: Key \cup {Null}]
    \cup [at: {"pictureRead", "pictureSave"}, on: PictureSlot, key: Key, old: Key \cup {Null}]
    \cup [at: {"pictureClean"}, on: PictureSlot, key: Key \cup {Null}, old: Key]
    \cup [at: {"listPut"}, on: ListSlot]
    \cup [at: {"listPush", "builtPush", "listClean"}, on: ListSlot, key: Key]
    \cup [at: {"listCut"}, on: ListSlot, key: Key, seen: SUBSET Key]
    \cup [at: {"entryPush", "entrySet"}, on: {"user"} \X EntryList, entry: Entry, index: Nat,
          seen: Seq(Line)]
    \cup [at: {"entryCut"}, on: {"user"} \X EntryList, entry: {Null}, index: Nat,
          seen: Seq(Line)]
    \cup [at: Judging, on: {<<"company", "verificationStatus">>}]

ProfileInit ==
    /\ bucket = {}
    /\ home = [k \in Key |-> Null]
    /\ picture = [s \in PictureSlot |-> Null]
    /\ files = [s \in ListSlot |-> {}]
    /\ given = {}
    /\ entries = [l \in EntryList |-> <<>>]
    /\ totalled = <<>>
    /\ filled \in Form
    /\ verificationStatus = "pending"
    /\ req = [p \in Request |-> Idle]
    /\ stale = {}
    /\ started = 0
    /\ fails = 0
    /\ raced = {}

Verdict == {"pending", "verified", "rejected"}

ProfileTypeOK ==
    /\ bucket \subseteq Key
    /\ home \in [Key -> Slot \cup {Null}]
    /\ picture \in [PictureSlot -> Key \cup {Null}]
    /\ files \in [ListSlot -> SUBSET Key]
    /\ given \subseteq Key
    /\ entries \in [EntryList -> Seq(Line)]
    /\ totalled \in Seq(Line)
    /\ filled \in Form
    /\ verificationStatus \in Verdict
    /\ req \in [Request -> ProfileRequest]
    /\ stale \subseteq Busy
    /\ started \in Nat
    /\ fails \in Nat
    /\ raced \subseteq Slot \cup {<<"user", "experience">>, <<"company", "verificationStatus">>}

(***************************************************************************)
(* Any await may reject: the request ends there, its writes stay.  A file  *)
(* that was stored and not yet named, or no longer named and not yet       *)
(* deleted, stays in the bucket.                                           *)
(***************************************************************************)
RequestFails(p) ==
    /\ ~At(p, "idle")
    /\ fails < MaxFail
    /\ fails' = fails + 1
    /\ Done(p)
    /\ raced' = IF req[p].at \in Uploading \cup Cleaning THEN raced \cup {req[p].on} ELSE raced
    /\ UNCHANGED <<fileVars, entryVars, verdictVars, started>>
=============================================================================

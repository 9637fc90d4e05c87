---------------------------- MODULE ProfileFiles ----------------------------
(***************************************************************************)
(* Files are uploaded, named by a profile, and deleted: two or three       *)
(* awaits each, over two services that share no transaction.               *)
(***************************************************************************)
EXTENDS ProfileStore

\* uplodaFile: a key is made of folder, owner, time and name, and is new.
Put(k, s) ==
    /\ home[k] = Null
    /\ home' = [home EXCEPT ![k] = s]
    /\ bucket' = bucket \cup {k}

\* Bound: an upload starts while a key is left for it.
RoomForKey ==
    Cardinality({k \in Key : home[k] = Null})
        > Cardinality({p \in Request : req[p].at \in {"picturePut", "listPut"}})

\* What a place of a profile names.
Named(s) == IF s \in ListSlot THEN files[s] ELSE {picture[s]} \ {Null}

Overlap(s) == IF On(s) = {} THEN raced ELSE raced \cup {s}

(***************************************************************************)
(* Pictures.                                                               *)
(***************************************************************************)
\* The candidate's picture is stored before his profile is read.
UserPictureStart(p, s) ==
    /\ Starts(p) /\ RoomForKey
    /\ \E k \in Key :
          /\ Put(k, s)
          /\ Goto(p, [at |-> "pictureRead", on |-> s, key |-> k, old |-> Null])
    /\ raced' = Overlap(s)
    /\ UNCHANGED <<picture, files, given, entryVars, verdictVars, stale, fails>>

updateUserProfilePicture(p) == UserPictureStart(p, <<"user", "profilePicture">>)

updateUserBannerImage(p) == UserPictureStart(p, <<"user", "bannerImage">>)

UserPictureRead(p) ==
    /\ At(p, "pictureRead")
    /\ Goto(p, [req[p] EXCEPT !.at = "pictureSave", !.old = picture[req[p].on]])
    /\ stale' = stale \ {p}
    /\ UNCHANGED <<fileVars, entryVars, verdictVars, started, fails, raced>>

\* The company's profile is read before its picture is stored.
CompanyPictureStart(p, s) ==
    /\ Starts(p) /\ RoomForKey
    /\ Goto(p, [at |-> "picturePut", on |-> s, key |-> Null, old |-> picture[s]])
    /\ raced' = Overlap(s)
    /\ UNCHANGED <<fileVars, entryVars, verdictVars, stale, fails>>

updateProfilePicture(p) == CompanyPictureStart(p, <<"company", "profilePicture">>)

updateBannerImage(p) == CompanyPictureStart(p, <<"company", "bannerImage">>)

CompanyPicturePut(p) ==
    /\ At(p, "picturePut")
    /\ \E k \in Key :
          /\ Put(k, req[p].on)
          /\ Goto(p, [req[p] EXCEPT !.at = "pictureSave", !.key = k])
    /\ UNCHANGED <<picture, files, given, entryVars, verdictVars, stale, started, fails, raced>>

\* Mutant: the old picture is left.
ThenLeave(p) == Done(p)

\* There is something to clean up only if there was a picture before.
ThenClean(p) ==
    IF req[p].old = Null THEN Done(p) ELSE Move(p, "pictureClean") /\ UNCHANGED stale

\* The profile is saved whichever picture it has got since it was read.
PictureSave(p) ==
    /\ At(p, "pictureSave")
    /\ picture' = [picture EXCEPT ![req[p].on] = req[p].key]
    /\ ThenClean(p)
    /\ UNCHANGED <<bucket, home, files, given, entryVars, verdictVars, started, fails, raced>>

\* Deleting a picture does nothing when there is none.
PictureDeleteStart(p, s) ==
    /\ Starts(p)
    /\ picture[s] # Null
    /\ Goto(p, [at |-> "pictureUnset", on |-> s, key |-> Null, old |-> picture[s]])
    /\ raced' = Overlap(s)
    /\ UNCHANGED <<fileVars, entryVars, verdictVars, stale, fails>>

deleteUserProfilePicture(p) == PictureDeleteStart(p, <<"user", "profilePicture">>)

deleteUserBannerImage(p) == PictureDeleteStart(p, <<"user", "bannerImage">>)

deleteProfilePicture(p) == PictureDeleteStart(p, <<"company", "profilePicture">>)

deleteBannerImage(p) == PictureDeleteStart(p, <<"company", "bannerImage">>)

PictureUnset(p) ==
    /\ At(p, "pictureUnset")
    /\ picture' = [picture EXCEPT ![req[p].on] = Null]
    /\ ThenClean(p)
    /\ UNCHANGED <<bucket, home, files, given, entryVars, verdictVars, started, fails, raced>>

\* deleteFile: a key that is not there is no error.
PictureClean(p) ==
    /\ At(p, "pictureClean")
    /\ bucket' = bucket \ {req[p].old}
    /\ Done(p)
    /\ UNCHANGED <<home, picture, files, given, entryVars, verdictVars, started, fails, raced>>

(***************************************************************************)
(* Lists of documents.                                                     *)
(***************************************************************************)
\* Only what the resume builder pushes goes past __v.
Building(s) == {p \in On(s) : At(p, "builtPush")}

\* The profile is read.  A resume whose name is taken is refused here, which
\* changes nothing.
ListAddStart(p, s) ==
    /\ Starts(p) /\ RoomForKey
    /\ Goto(p, [at |-> "listPut", on |-> s])
    /\ UNCHANGED <<fileVars, entryVars, verdictVars, stale, fails, raced>>

uploadCertificate(p) == ListAddStart(p, <<"user", "certificates">>)

uploadResume(p) == ListAddStart(p, <<"user", "resumeURL">>)

uploadDocument(p) == ListAddStart(p, <<"company", "documents">>)

ListPut(p) ==
    /\ At(p, "listPut")
    /\ \E k \in Key :
          /\ Put(k, req[p].on)
          /\ Goto(p, [at |-> "listPush", on |-> req[p].on, key |-> k])
    /\ UNCHANGED <<picture, files, given, entryVars, verdictVars, stale, started, fails, raced>>

\* save sends a $push, which asks for no __v and moves it.
ListPush(p) ==
    /\ At(p, "listPush")
    /\ files' = [files EXCEPT ![req[p].on] = @ \cup {req[p].key}]
    /\ DoneMoving(p, req[p].on[1])
    /\ UNCHANGED <<bucket, home, picture, given, entryVars, verdictVars, started, fails, raced>>

\* The resume builder stores the PDF and pushes it by findByIdAndUpdate, which
\* neither asks for __v nor moves it.
generateAndUpload(p) ==
    /\ Starts(p) /\ RoomForKey
    /\ LET s == <<"user", "resumeURL">>
       IN \E k \in Key :
             /\ Put(k, s)
             /\ Goto(p, [at |-> "builtPush", on |-> s, key |-> k])
             /\ raced' = IF \E q \in On(s) : At(q, "listCut") THEN raced \cup {s} ELSE raced
    /\ UNCHANGED <<picture, files, given, entryVars, verdictVars, stale, fails>>

BuiltPush(p) ==
    /\ At(p, "builtPush")
    /\ files' = [files EXCEPT ![req[p].on] = @ \cup {req[p].key}]
    /\ Done(p)
    /\ UNCHANGED <<bucket, home, picture, given, entryVars, verdictVars, started, fails, raced>>

\* The key is any the client sends: nothing asks whether the list names it.
ListDeleteStart(p, s) ==
    /\ Starts(p)
    /\ \E k \in Key :
          Goto(p, [at |-> "listCut", on |-> s, key |-> k, seen |-> files[s]])
    /\ raced' = IF Building(s) = {} THEN raced ELSE raced \cup {s}
    /\ UNCHANGED <<fileVars, entryVars, verdictVars, stale, fails>>

deleteCertificate(p) == ListDeleteStart(p, <<"user", "certificates">>)

deleteResume(p) == ListDeleteStart(p, <<"user", "resumeURL">>)

deleteDocument(p) == ListDeleteStart(p, <<"company", "documents">>)

\* Stored once, and deleted since.
Gone == {k \in Key : home[k] # Null /\ k \notin bucket}

\* The key of a file that goes though the list did not name it.
Unlisted(p) == {req[p].key} \ (req[p].seen \cup Gone)

\* Mutant: the list is written whatever __v has become.
ListCutBlind(p) ==
    /\ At(p, "listCut")
    /\ LET s == req[p].on
       IN /\ files' = [files EXCEPT ![s] = req[p].seen \ {req[p].key}]
          /\ req' = [req EXCEPT ![p] = [at |-> "listClean", on |-> s, key |-> req[p].key]]
          /\ stale' = (stale \cup Readers(s[1])) \ {p}
    /\ given' = given \cup Unlisted(p)
    /\ UNCHANGED <<bucket, home, picture, entryVars, verdictVars, started, fails, raced>>

\* save writes the filtered list whole if __v is the one that was read, and
\* throws a VersionError if it is not.  A list that did not name the key is not
\* written, and the file goes all the same.
ListCut(p) ==
    /\ At(p, "listCut")
    /\ LET s == req[p].on
           k == req[p].key
           clean == [req EXCEPT ![p] = [at |-> "listClean", on |-> s, key |-> k]]
       IN \/ /\ k \notin req[p].seen
             /\ req' = clean
             /\ UNCHANGED <<files, stale>>
          \/ /\ k \in req[p].seen /\ p \notin stale
             /\ files' = [files EXCEPT ![s] = req[p].seen \ {k}]
             /\ req' = clean
             /\ stale' = (stale \cup Readers(s[1])) \ {p}
          \/ /\ k \in req[p].seen /\ p \in stale
             /\ Done(p)
             /\ UNCHANGED files
    /\ given' = given \cup Unlisted(p)
    /\ raced' = IF req[p].on[1] = "company" THEN UnderJudgement ELSE raced
    /\ UNCHANGED <<bucket, home, picture, entryVars, verdictVars, started, fails>>

ListClean(p) ==
    /\ At(p, "listClean")
    /\ bucket' = bucket \ {req[p].key}
    /\ Done(p)
    /\ UNCHANGED <<home, picture, files, given, entryVars, verdictVars, started, fails, raced>>

(***************************************************************************)
(* Bodies.                                                                 *)
(***************************************************************************)
\* A profile's update by id stores the body as it comes: the places it has
\* among its fields name what it says.
WritesNames(o, fields) ==
    LET at == {s \in Slot : s[1] = o /\ s[2] \in fields}
    IN /\ \E new \in [at \cap PictureSlot -> Key \cup {Null}] :
             picture' = [s \in PictureSlot |-> IF s \in at THEN new[s] ELSE picture[s]]
       /\ \E new \in [at \cap ListSlot -> SUBSET Key] :
             files' = [s \in ListSlot |-> IF s \in at THEN new[s] ELSE files[s]]
       /\ given' = given \cup {k \in Key : \E s \in at : k \in Named(s)' \ Named(s)}
       /\ UNCHANGED <<bucket, home>>

Renamed == {s \in Slot : Named(s)' # Named(s)}

UserFileStep(p) ==
    \/ updateUserProfilePicture(p) \/ deleteUserProfilePicture(p)
    \/ updateUserBannerImage(p) \/ deleteUserBannerImage(p)
    \/ uploadCertificate(p) \/ deleteCertificate(p)
    \/ uploadResume(p) \/ deleteResume(p)
    \/ generateAndUpload(p)

CompanyFileStep(p) ==
    \/ updateProfilePicture(p) \/ deleteProfilePicture(p)
    \/ updateBannerImage(p) \/ deleteBannerImage(p)
    \/ uploadDocument(p) \/ deleteDocument(p)

FileStep(p) ==
    \/ UserFileStep(p) \/ CompanyFileStep(p)
    \/ UserPictureRead(p) \/ CompanyPicturePut(p)
    \/ PictureSave(p) \/ PictureUnset(p) \/ PictureClean(p)
    \/ ListPut(p) \/ ListPush(p) \/ BuiltPush(p)
    \/ ListCut(p) \/ ListClean(p)
=============================================================================

--------------------------- MODULE ProfileEntries ---------------------------
(***************************************************************************)
(* A candidate's education and experience: lists edited by index, and the  *)
(* total of the experience, computed from what was read.                   *)
(***************************************************************************)
EXTENDS ProfileFiles

Overlapped(l) ==
    IF l = "experience" /\ On(<<"user", l>>) # {} THEN raced \cup {<<"user", l>>} ELSE raced

\* A line set past the end fills the list up to it.
SetAt(seq, i, e) ==
    [j \in 1..(IF i > Len(seq) THEN i ELSE Len(seq)) |->
        IF j = i THEN e ELSE IF j > Len(seq) THEN Null ELSE seq[j]]

\* The list as the request edits the one it has read.
Edited(label, seq, i, e) ==
    IF label = "entryPush" THEN Append(seq, e)
    ELSE IF label = "entryCut" THEN RemoveAt(seq, i)
    ELSE SetAt(seq, i, e)

\* The total throws at a null line, and the request ends there.
Reading(p, label, l, i, e) ==
    /\ l = "experience" => Null \notin Range(Edited(label, entries[l], i, e))
    /\ Goto(p, [at |-> label, on |-> <<"user", l>>, entry |-> e, index |-> i, seen |-> entries[l]])
    /\ raced' = Overlapped(l)

\* Bound: a list grows to MaxEntries lines, those being added among them.
RoomForEntry(l) ==
    Len(entries[l]) + Cardinality({p \in On(<<"user", l>>) : At(p, "entryPush")}) < MaxEntries

Added(p, l) ==
    /\ Starts(p) /\ RoomForEntry(l)
    /\ \E e \in Entry : Reading(p, "entryPush", l, 0, e)
    /\ UNCHANGED <<fileVars, entryVars, verdictVars, stale, fails>>

addUserEducation(p) == Added(p, "education")

addUserExperience(p) == Added(p, "experience")

\* splice takes out the line the index points at in the list as it is read, if
\* there is one.
Deleted(p, l) ==
    /\ Starts(p)
    /\ \E i \in 1..(Len(entries[l]) + 1) : Reading(p, "entryCut", l, i, Null)
    /\ UNCHANGED <<fileVars, entryVars, verdictVars, stale, fails>>

deleteUserEducation(p) == Deleted(p, "education")

deleteUserExperience(p) == Deleted(p, "experience")

\* Any index.  Bound: up to MaxEntries.
Updated(p, l) ==
    /\ Starts(p)
    /\ \E e \in Entry, i \in 1..MaxEntries : Reading(p, "entrySet", l, i, e)
    /\ UNCHANGED <<fileVars, entryVars, verdictVars, stale, fails>>

updateUserEducation(p) == Updated(p, "education")

updateUserExperience(p) == Updated(p, "experience")

\* Of the experience alone.
calculateTotalExperience(l, seq) == totalled' = IF l = "experience" THEN seq ELSE totalled

\* The line is a $push; the total is that of the lines that were read and it.
AddSave(p) ==
    /\ At(p, "entryPush")
    /\ LET l == req[p].on[2]
       IN /\ entries' = [entries EXCEPT ![l] = Append(@, req[p].entry)]
          /\ calculateTotalExperience(l, Append(req[p].seen, req[p].entry))
    /\ DoneMoving(p, "user")
    /\ UNCHANGED <<fileVars, verdictVars, started, fails, raced>>

\* Mutant: deleting a line leaves the total.
DeleteSaveAlone(p) ==
    /\ At(p, "entryCut")
    /\ IF p \in stale
       THEN UNCHANGED entryVars /\ Done(p)
       ELSE LET l == req[p].on[2]
            IN /\ entries' = [entries EXCEPT ![l] = RemoveAt(req[p].seen, req[p].index)]
               /\ DoneMoving(p, "user") /\ UNCHANGED totalled
    /\ UNCHANGED <<fileVars, verdictVars, started, fails, raced>>

\* splice: the list is written whole, over lines updated since.
DeleteSave(p) ==
    /\ At(p, "entryCut")
    /\ IF p \in stale
       THEN UNCHANGED entryVars /\ Done(p)
       ELSE LET l == req[p].on[2]
                left == RemoveAt(req[p].seen, req[p].index)
            IN /\ entries' = [entries EXCEPT ![l] = left]
               /\ calculateTotalExperience(l, left)
               /\ DoneMoving(p, "user")
    /\ UNCHANGED <<fileVars, verdictVars, started, fails, raced>>

\* A line written by its index asks for __v and leaves it.  Nobody awaits the
\* save of an education, so the answer may come before this.
UpdateSave(p) ==
    /\ At(p, "entrySet")
    /\ IF p \in stale
       THEN UNCHANGED entryVars
       ELSE LET l == req[p].on[2]
                i == req[p].index
            IN /\ entries' = [entries EXCEPT ![l] = SetAt(@, i, req[p].entry)]
               /\ calculateTotalExperience(l, SetAt(req[p].seen, i, req[p].entry))
    /\ Done(p)
    /\ UNCHANGED <<fileVars, verdictVars, started, fails, raced>>

\* The total a body writes is any number: that of some lines.
WritesEntries(fields) ==
    /\ \E new \in [EntryList \cap fields -> Lines] :
          entries' = [l \in EntryList |-> IF l \in fields THEN new[l] ELSE entries[l]]
    /\ IF "totalExperienceYears" \in fields THEN totalled' \in Lines ELSE UNCHANGED totalled

\* The body is stored in one write by id: any field of the profile it has, the
\* total and the names of the files among them.
updateUserProfile ==
    /\ Counted
    /\ \E fields \in UserBody : WritesNames("user", fields) /\ WritesEntries(fields)
    /\ raced' = raced \cup Renamed
                  \cup (IF entries'["experience"] # entries["experience"] \/ totalled' # totalled
                        THEN {<<"user", "experience">>} ELSE {})
    /\ UNCHANGED <<verdictVars, req, stale, fails>>

EntryStep(p) ==
    \/ addUserEducation(p) \/ updateUserEducation(p) \/ deleteUserEducation(p)
    \/ addUserExperience(p) \/ updateUserExperience(p) \/ deleteUserExperience(p)
    \/ AddSave(p) \/ DeleteSave(p) \/ UpdateSave(p)
=============================================================================

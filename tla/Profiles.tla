------------------------------ MODULE Profiles ------------------------------
(***************************************************************************)
(* The profiles of a candidate and of a company: their files, the          *)
(* candidate's education and experience, the company's verification.       *)
(***************************************************************************)
EXTENDS ProfileEntries, CompanyVerification

ProfileStep(p) == FileStep(p) \/ EntryStep(p) \/ VerificationStep(p) \/ RequestFails(p)

ProfileNext ==
    \/ \E p \in Request : ProfileStep(p)
    \/ updateUserProfile \/ updateBasicProfile \/ updateAddress

ProfileSpec == ProfileInit /\ [][ProfileNext]_profileVars

(***************************************************************************)
(* Properties.                                                             *)
(***************************************************************************)
\* The file a request has stored and is about to have named.
Fresh(p) == {k \in Key : req[p].at \in Uploading \ {"listPut"} /\ req[p].key = k}

\* The file a request is about to delete.
Going(p) ==
    {k \in Key : \/ At(p, "pictureClean") /\ req[p].old = k
                 \/ At(p, "listClean") /\ req[p].key = k}

InHand(p) == Fresh(p) \cup Going(p)

\* A profile never names a file that is not stored: two requests that replace
\* or delete the same file, or write back the same list, may race and either
\* may stop half way, and a file still goes only after its name.  But for the
\* keys a client gave himself: a body names any file, stored or not, and the
\* deletion of a document takes the file of any key, named by his list or not.
NamedFilesExist == \A s \in Slot : Named(s) \subseteq bucket \cup given

\* A stored file is named, or about to be named or deleted, unless an await
\* rejected there, a body wrote over the name, or two requests overlapped where
\* __v does not keep them apart: on a picture, or where the resume builder
\* pushes.
StraysExplained ==
    \A k \in bucket :
        \/ k \in Named(home[k])
        \/ \E p \in Request : k \in InHand(p)
        \/ home[k] \in raced

\* totalExperienceYears is that of the experience listed, unless two edits of
\* it overlapped or a body wrote the one or the other: a line is pushed, cut or
\* set by one rule, the total by another.
TotalAgreesUnlessRaced == totalled = entries["experience"] \/ <<"user", "experience">> \in raced

\* A company becomes verified only with a document and with every field the
\* rules name but the phone, whose rule asks for the logo again; and a verified
\* one never goes back to pending; unless somebody else decided, or the profile
\* changed, between the read and the write of a decision, or the company's own
\* body is what writes the status.
VerdictsSoundUnlessRaced ==
    [][verificationStatus' # verificationStatus =>
          \/ updateBasicProfile
          \/ <<"company", "verificationStatus">> \in raced'
          \/ /\ verificationStatus' = "verified" =>
                    /\ files[<<"company", "documents">>] # {}
                    /\ Rule \ {"documents", "phone"} \subseteq filled
             /\ verificationStatus' = "pending" => verificationStatus = "rejected"]_profileVars
=============================================================================

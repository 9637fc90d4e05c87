----------------------------- MODULE MCProfiles -----------------------------
(***************************************************************************)
(* Instances of Profiles for TLC.                                          *)
(***************************************************************************)
EXTENDS Profiles, TLC

ProfileSymmetry == Permutations(Request) \cup Permutations(Key) \cup Permutations(Entry)

\* All that can be filled in, all but the website (75 points, 90 with a
\* document), and all but the website and the address (60, 75).
Filled == Rule \ {"documents", "phone"}

Forms == {Filled, Filled \ {"website"}, Filled \ {"website", "address"}}

\* Bodies that set one field.
UserBodies == {{"profilePicture"}, {"resumeURL"}, {"experience"}, {"totalExperienceYears"}}

CompanyBodies == {{"documents"}, {"verificationStatus"}, {"website"}}

BodyLines == BoundedSeq(Entry, 1)

\* Files of two places are not of banners: the code treats a banner as it
\* treats a profile picture.
BannersAlone ==
    \A j, k \in Key :
        home[j] # Null /\ home[k] # Null /\ home[j][2] = "bannerImage" => home[k] = home[j]

\* Behaviours are cut where a second place is spoilt, a second key given, or a
\* line of the education written, which no property reads.
Budget ==
    /\ Cardinality(raced) <= 1 /\ Cardinality(given) <= 1
    /\ entries["education"] = <<>>
    /\ BannersAlone
=============================================================================

-------------------------- MODULE MCNotifications ---------------------------
(***************************************************************************)
(* Instances of Interviews, and with it of Notifications, for TLC.         *)
(***************************************************************************)
EXTENDS Interviews, TLC

\* None, or one of any round.
Interviewed == {<<>>} \cup {<<i>> : i \in [of: Person, round: Round, status: {"scheduled"}]}

NoteSymmetry == Permutations(Request) \cup Permutations(Socket) \cup Permutations(Round)

\* Once an interview was filed or has changed one socket at most is connected.
OneSocketForInterviews ==
    changes = 0 \/ Cardinality({s \in Socket : owner[s] # Null}) <= 1
=============================================================================

SPECIFICATION NoteSpec
SYMMETRY NoteSymmetry
CONSTANTS
  Person = {u1}
  Socket = {s1, s2}
  Null = Null
  Request = {r1, r2}
  Round = {n1, n2}
  Brought <- Interviewed
  MaxNote = 2
  MaxChange = 3
CONSTRAINT OneSocketForInterviews
INVARIANTS
  BellAgrees
  NoticeAgrees
CHECK_DEADLOCK FALSE

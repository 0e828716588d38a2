SPECIFICATION Spec

CONSTANTS
  p1 = p1
  p2 = p2
  s1 = s1
  s2 = s2
  a = a
  b = b
  Absent = Absent
  Profiles = {p1, p2}
  Sessions = {s1, s2}
  Files <- OneFile
  Rank <- OneRank
  Protected = {}
  Texts = {a, b}
  Statuses = {"idle"}
  EditBound = 1

SYMMETRY Contents

INVARIANTS
  SnapshotsAreHistory

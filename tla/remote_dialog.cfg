SPECIFICATION FairSpec

CONSTANTS
  p1 = p1
  p2 = p2
  s1 = s1
  s2 = s2
  a = a
  b = b
  Absent = Absent
  Profiles = {p1}
  Sessions = {s1}
  Files <- CfgFiles
  Rank <- ByName
  Protected <- PrinterCfg
  Texts = {a}
  Statuses = {"idle", "printing", "unknown"}
  EditBound = 2

INVARIANTS
  TypeOK

PROPERTIES
  
  ProtectedOnlyByRestore
  

CONSTANTS
  Files = {"macros.cfg", "old/printer.cfg", "printer.cfg", "sub/macros.cfg"}
  FileSeq <- FourFiles
  Names = {"X", "Y"}
  Bodies = {"a", "b"}
  Absent = Absent
  Profiles = {p1, p2}
  Busy = {p1}
  Sessions = {s1}
  Starts <- MCStarts
  Layouts <- MCLayouts
  Namesakes = {"sub/macros.cfg"}
  PrinterCfgs = {"printer.cfg", "old/printer.cfg"}
  NoRow = NoRow
  NoBackup = NoBackup
  VersionBound = 2
  BackupBound = 1
  UpsetBound = 1
SPECIFICATION Spec

PROPERTIES AnnouncedRestored

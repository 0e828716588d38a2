CONSTANTS
  Profiles = {p1}
  Virtual = {p1}
  ShareProfile = p1
  Files = {"macros.cfg", "printer.cfg"}
  FileSeq <- TwoFiles
  ImportFile = "macros.cfg"
  Protected = {"printer.cfg"}
  Names = {"X", "Y"}
  NoName = NoName
  Texts = {"a", "r"}
  Meaning <- MCMeaning
  Canonical <- MCCanonical
  RenameOf <- MCRenameOf
  Offered = {}
  Sessions = {}
  Jobs = {j1}
  MaxVersions = 1
  VersionBound = 1
  SectionBound = 1
SPECIFICATION Spec
INVARIANTS OneActivePerName
PROPERTIES LastDefinitionRuns

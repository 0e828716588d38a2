CONSTANTS
  Profiles = {p1}
  Virtual = {p1}
  ShareProfile = p1
  Files = {"macros.cfg"}
  FileSeq <- OneFile
  ImportFile = "macros.cfg"
  Protected = {}
  Names = {"X"}
  NoName = NoName
  Texts = {"a", "a2", "b"}
  Meaning <- MCMeaning
  Canonical <- MCCanonical
  RenameOf <- MCRenameOf
  Offered = {"b"}
  Sessions = {}
  Jobs = {j1}
  MaxVersions = 2
  VersionBound = 4
  SectionBound = 2
SPECIFICATION Spec
INVARIANTS TypeOK UniqueVersions
PROPERTIES IndexCaptures QuietScan UpdateSettles

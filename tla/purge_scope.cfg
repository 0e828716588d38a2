CONSTANTS
  Profiles = {p1, p2}
  Virtual = {}
  ShareProfile = p1
  Files = {"macros.cfg"}
  FileSeq <- OneFile
  ImportFile = "macros.cfg"
  Protected = {}
  Names = {"X"}
  NoName = NoName
  Texts = {"a"}
  Meaning <- MCMeaning
  Canonical <- MCCanonical
  RenameOf <- MCRenameOf
  Offered = {"a"}
  Sessions = {}
  Jobs = {j1}
  MaxVersions = 1
  VersionBound = 2
  SectionBound = 1
SPECIFICATION Spec
PROPERTIES PurgeStaysInProfile

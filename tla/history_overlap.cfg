CONSTANTS
  Profiles = {p1}
  Virtual = {}
  ShareProfile = p1
  Files = {"macros.cfg"}
  FileSeq <- OneFile
  ImportFile = "macros.cfg"
  Protected = {}
  Names = {"X"}
  NoName = NoName
  Texts = {"a", "b"}
  Meaning <- MCMeaning
  Canonical <- MCCanonical
  RenameOf <- MCRenameOf
  Offered = {"b"}
  Sessions = {s1}
  Jobs = {j1, j2}
  MaxVersions = 1
  VersionBound = 2
  SectionBound = 1
SYMMETRY Runs
SPECIFICATION Spec
INVARIANTS PendingImports
PROPERTIES ImplementsMru UnseenImportsKept IndexCaptures

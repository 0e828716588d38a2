CONSTANTS
  Names = {"Default Printer", "A", "a"}
  DefaultName = "Default Printer"
  Hosts = {h1}
  Modes = {"password", "key"}
  Refs = {"default:password", "default:key", "a:password", "a:key"}
  RefOf <- MCRefOf
  Secrets = {v1, v2}
  None = None
  NoRow = NoRow
  PrinterBound = 3
  SshBound = 2
  SaveBound = 2
SYMMETRY Permuted
SPECIFICATION Spec
INVARIANTS TypeOK NoStaleSecret LinksExact
PROPERTIES SaveTakesEffect

CONSTANTS
  Names = {"Default Printer", "A", "B"}
  DefaultName = "Default Printer"
  Hosts = {h1}
  Modes = {"password"}
  Refs = {"default:password", "a:password", "b:password"}
  RefOf <- MCRefOf
  Secrets = {v1, v2}
  None = None
  NoRow = NoRow
  PrinterBound = 3
  SshBound = 2
  SaveBound = 3
SPECIFICATION Spec
PROPERTIES EditorScope

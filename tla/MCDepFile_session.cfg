CONSTANTS
  Sources = {"a", "b", "missing"}
  Paths <- MCPaths
  ImportLists <- MCImportLists
  Directory <- MCDirectoryOf
  Root = "root"
  Absolute = {"/q", "/r"}
  TooLong <- MCTooLong
  RealPath <- MCRealPath
  Kind <- MCKind
  Control = {"t.masm"}
  MaxCalls = 4

SPECIFICATION FairSpec
INVARIANTS
  DepFileTypeOK
  ManifestNamesImports
  OneEntryPerDependency
PROPERTIES
  FailureKeepsManifest
  CallsReturn

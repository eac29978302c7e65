CONSTANTS
  f = f
  a = a
  b = b
  x = x
  stem = stem
  sec = sec
  NoLabel = NoLabel
  NoSection = NoSection
  Labels = {f, a, b, x, stem}
  PublicLabels = {f}
  SectionNames = {sec}
  CutTo <- MCCutTo
  RegSpan = 8
  ImmSpan = 16
  Programs <- MCPrograms

SPECIFICATION FairSpec
INVARIANTS
  TypeOK
  LayoutContiguous
  PassesAgree
  WritesInBounds
  NothingUninitialised
  JumpReachesItsLabel
  ObjectInv
PROPERTIES
  WriteOnce
  RelocNamesItsTarget
  ImplementsObjectSpec
  Termination

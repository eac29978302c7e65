CONSTANTS
  f = f
  a = a
  b = b
  x = x
  stem = stem
  sec = sec
  NoLabel = NoLabel
  NoSection = NoSection
  Labels = {f, a, b, x, stem}
  PublicLabels = {f}
  SectionNames = {sec}
  CutTo <- MCCutTo
  RegSpan = 2
  ImmSpan = 8
  Programs <- FarPrograms

SPECIFICATION Spec
INVARIANT
  FarJumpsAreReported

CONSTANTS
  MachineCodes <- MCMachineCodes
  Byte <- MCByte
  Character <- MCCharacter
  Value <- MCValue
  NameField = 4
  SizeSpan = 4

SPECIFICATION Spec
INVARIANTS
  ReadsBack
  RelocationsResolve

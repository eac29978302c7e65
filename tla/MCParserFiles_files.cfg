CONSTANTS
  NoLabel = NoLabel
  NoSection = NoSection
  Labels <- MCLabels
  PublicLabels = {}
  SectionNames <- MCLabels
  CutTo <- MCCutTo
  RegSpan = 16
  ImmSpan = 512
  WordSpan = 1024
  Mnemonics <- MCMnemonics
  Opcode <- MCOpcode
  Mov = "mov"
  Movi = "movi"
  Registers <- MCRegisters
  Numerals <- MCNumerals
  Atoi <- MCAtoi
  Strtol <- MCStrtol
  TokenStreams <- MCTokenStreams
  Files <- MCFiles

SPECIFICATION MeaningSpec
INVARIANTS
  ParsesAsWritten
  EndsWellInABlock
  SectionsByPosition

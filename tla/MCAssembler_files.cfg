CONSTANTS
  NoLabel = NoLabel
  NoSection = NoSection
  Labels <- MCLabels
  PublicLabels = {"f_b"}
  SectionNames <- MCLabels
  CutTo <- MCCutTo
  RegSpan = 16
  ImmSpan = 512
  WordSpan = 1024
  Mnemonics <- MCMnemonics
  Opcode <- MCOpcode
  Mov = "mov"
  Movi = "movi"
  Registers <- MCRegisters
  Numerals <- MCNumerals
  Literals <- MCLiterals
  Spelling <- MCSpelling
  Texts <- MCTexts
  Litter <- MCLitter
  BufferSize = 48
  MaxTokenLen = 12
  LongMax = 99999
  Files <- MCFiles
  Layouts <- MCLayouts

SPECIFICATION MeaningSpec
INVARIANTS
  AssemblesAsWritten
  StagesGetTheirDomain
PROPERTY
  AssemblerTermination

CONSTANTS
  Texts <- MCTexts
  Litter <- MCLitter
  BufferSize = 12
  MaxTokenLen = 7
  LongMax = 9999
  RegisterNames <- MCRegisterNames
  MnemonicNames <- MCMnemonicNames
  Sources <- MCSources

SPECIFICATION MeaningSpec
INVARIANTS
  LexerTypeOK
  LexesAsWritten
  StaysInItsLine
PROPERTY
  LexerTermination

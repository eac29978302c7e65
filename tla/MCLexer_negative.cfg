CONSTANTS
  Texts <- MCTexts
  Litter <- MCLitter
  BufferSize = 24
  MaxTokenLen = 7
  LongMax = 9999
  RegisterNames <- MCRegisterNames
  MnemonicNames <- MCMnemonicNames
  Sources <- NegativeSources

SPECIFICATION MeaningSpec
INVARIANT
  MovesPastTheNumber

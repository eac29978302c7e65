CONSTANTS
  Links <- MCLinks
  TagSize = 5
  NameSize = 11
  AlphaNum <- MCAlphaNum
  Character <- MCCharacter
  MaxCount = 3
  Printed <- MCPrinted

SPECIFICATION Spec
INVARIANTS
  NamesTypeOK
  PrivateNamesApart

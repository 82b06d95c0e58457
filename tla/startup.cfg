CONSTANTS
  i1 = i1 i2 = i2 i3 = i3
  Chars <- MCChars
  Symbols <- MCSymbols
  Scheme <- MCScheme
  Files <- MCFiles
  CapsOf <- MCCapsOf
  ToolNames <- MCToolNames
  Headers <- MCHeaders
  MaxBackends = 3
SPECIFICATION FairSpec
INVARIANTS TypeOK OmittingIsNoError ServedConfigIsUsable RetryHintIsHonest
  ListedTokensOpen NoSessionLeaks ListedNamesComeBack DownBackendBlocksNobody
PROPERTIES ServedWithoutTheDown
CHECK_DEADLOCK FALSE

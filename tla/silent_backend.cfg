CONSTANTS
  i1 = i1 i2 = i2 i3 = i3
  Chars <- MCChars
  Symbols <- MCSymbols
  Scheme <- MCScheme
  Files <- MCFiles
  CapsOf <- MCCapsOf
  ToolNames <- MCToolNames
  Headers <- MCHeaders
  MaxBackends = 2
SPECIFICATION FairSpec
PROPERTIES OthersAreServed
CHECK_DEADLOCK FALSE

CONSTANTS
  Texts <- MCTexts
  Limits <- MCLimits
  MaxBlocks = 2
SPECIFICATION Spec
INVARIANTS IsErrorUntouched
CHECK_DEADLOCK FALSE

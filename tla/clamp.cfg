CONSTANTS
  Texts <- MCTexts
  Limits <- MCLimits
  MaxBlocks = 4
SPECIFICATION Spec
INVARIANTS LongestTextInBudget OthersUntouched
CHECK_DEADLOCK FALSE

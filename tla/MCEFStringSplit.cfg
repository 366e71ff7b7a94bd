SPECIFICATION Spec
CONSTANTS
  Texts <- MCTexts
  Separators <- MCSeparators
  Behind <- MCBehind
  MaxComponents = 6
CHECK_DEADLOCK FALSE
INVARIANTS
  TypeOK
  SplitIsRight
  OnlyMemoryFails
PROPERTY
  Returns

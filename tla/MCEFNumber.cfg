SPECIFICATION Spec
CONSTANTS
  n1 = n1
  n2 = n2
  Numbers = {n1, n2}
  Bits <- MCBits
  Null = Null
INVARIANT
  EqualIsSameType

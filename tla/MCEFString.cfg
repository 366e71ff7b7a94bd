SPECIFICATION Spec
CONSTANTS
  s1 = s1
  s2 = s2
  s3 = s3
  b1 = b1
  b2 = b2
  f1 = f1
  f2 = f2
  Strings = {s1, s2, s3}
  Heap = {b1, b2}
  Foreign = {f1, f2}
  contents <- MCContents
  Character = {"a", " ", "e", "x"}
  Space = {" "}
  NUL = "0"
  Encodings = {"UTF7", "UTF8"}
  Complying <- MCComplying
  Null = Null
  MaxLength = 2
  Borrowing = TRUE
SYMMETRY Symmetry
CHECK_DEADLOCK FALSE
INVARIANTS
  TypeOK
  BuffersOwned
  TextsComply
  EqualIsSameText
PROPERTY
  ImplementsText

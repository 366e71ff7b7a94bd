SPECIFICATION FairSpec
CONSTANTS
  Threads = {t1, t2, t3}
  BuiltIn = {EFArray, EFPage}
  Direct = {Client}
  EF_MAX_CLASSES = 3
  NoClass = NoClass
INVARIANTS
  TypeOK
  AnswersResolve
  AnswersAgree
  ObjectsKeepTheirClass
  ExhaustionIsReal
PROPERTIES
  SlotsWrittenOnce
  AbortOnlyWhenFull
  CallsReturn
\* The process ends when an assert fails.
CHECK_DEADLOCK FALSE

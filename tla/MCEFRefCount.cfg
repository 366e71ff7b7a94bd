SPECIFICATION FairSpec
CONSTANTS
  Threads = {t1, t2, t3}
  References = {r1, r2, r3}
  NoOne = NoOne
INVARIANTS
  TypeOK
  RefCountExact
  NoUseAfterFree
  SingleDeinit
  TeardownAfterEveryAccess
PROPERTIES
  ImplementsOwnership
\* A freed object has no more steps.
CHECK_DEADLOCK FALSE

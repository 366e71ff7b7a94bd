SPECIFICATION Spec
CONSTANT
  Buffers <- MCBuffers
CHECK_DEADLOCK FALSE
INVARIANTS
  TypeOK
  AnswerIsRFC3629

SPECIFICATION Spec
CONSTANTS
  BULK_EP_SIZE = 4
  HEADER = 2
  WORD = 2
  CRC = 2
  RHEADER = 1
  Kinds <- MCKinds
  RETRIES = 2
  MaxCalls = 2
  DEV_TIMEOUT = 2
  FLUSH_TIMEOUT = 1
  SLEEP = 1
  WRITE_TIMEOUT = 7
  READ_TIMEOUT = 9
  MaxWork = 5
INVARIANTS
  TypeOK
  AttemptStartsClean
  AnswerIsOwn
PROPERTIES
  ImplementsRpc
  CallReturns
  FramingRecovers

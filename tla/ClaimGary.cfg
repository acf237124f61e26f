SPECIFICATION Spec
CONSTANTS
  SlotWords = 2
  bit = bit
  Bits = {bit}
  Sector <- MCSector
  Unknown = {unknown}
  IdCode = {idCode}
  StatusCode = {statusCode}
  None = none
  Requests <- Everyday
  MAX_WORDS_PER_CMD = 2
  Worn = FALSE
INVARIANT GaryGetsOeBack

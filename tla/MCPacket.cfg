SPECIFICATION Spec
CONSTANTS
  Requests <- MCRequests
  FlashWords <- MCWords
  MAX_WORDS_PER_CMD = 2
  MaxFlips = 3
  None = none
INVARIANTS
  Intact
  DamageDetected
  CrcIsRemainder

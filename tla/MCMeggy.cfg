SPECIFICATION MeggySpec
CONSTANTS
  SlotWords = 2
  bit = bit
  Bits = {bit}
  Sector <- MCSector
  Unknown = {unknown}
  IdCode = {idCode}
  StatusCode = {statusCode}
  None = none
  Requests <- MCRequests
  MAX_WORDS_PER_CMD = 1
  Worn = FALSE
  Sessions = {"write", "erase", "verify"}
  Images <- MCImages
  SECTOR_MAP <- MCSectorMap
  CHUNK_WORDS = 1
  RETRIES = 2
INVARIANTS
  HostTypeOK
  NeverRefused
  CleanSessionSucceeds
  HostInv
  SessionInv
PROPERTIES
  ImplementsRomStore
  SessionEnds

SPECIFICATION Spec
CONSTANTS
  SlotWords = 1
  bit = bit
  Bits = {bit}
  Sector <- TwoSectors
  Unknown = {unknown}
  IdCode = {idCode}
  StatusCode = {statusCode}
  None = none
  Requests <- Few
  MAX_WORDS_PER_CMD = 2
  Worn = TRUE
INVARIANTS
  IInv
  ReadOkMeansContents
PROPERTIES
  OnlyResetsTear
  HandlerReturns
  EraseCompletes

SPECIFICATION Spec
CONSTANTS
  ADDR_LOW = 8
  ADDR_HIGH = 2
  Addresses <- MCAddresses
  MaxCount = 2
  Installed = TRUE
INVARIANT GaryNotFought

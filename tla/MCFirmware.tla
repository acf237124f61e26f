----------------------------- MODULE MCFirmware -----------------------------
(* The instances TLC checks: two words a slot, one bit a word, slot 0 one   *)
(* sector, slot 1 two.  Word addresses 2 and 3 are in range and alias 0, 1. *)
EXTENDS Firmware

CONSTANT bit

MCSector == [c \in 0 .. 3 |-> IF c < 2 THEN 0 ELSE c]
One == {bit}
Zero == {}

Req(cmd, addr, len, data, fate) ==
  [cmd |-> cmd, addr |-> addr, len |-> len, data |-> data, fate |-> fate]
Whole(cmd, addr, len, data) == Req(cmd, addr, len, data, "whole")

\* Every command, at the boundaries of its range.
Valid ==
  { Whole("IDENTIFY", 0, 0, <<>>), Whole("READ", 1, 2, <<>>),
    Whole("READ", 3, 2, <<>>), Whole("CHIP_ERASE", 0, 0, <<>>),
    Whole("SECTOR_ERASE", 1, 0, <<>>), Whole("GET_STATUS", 0, 0, <<>>),
    Whole("PROGRAM", 0, 2, <<Zero, One>>), Whole("PROGRAM", 3, 1, <<Zero>>),
    Whole("PROGRAM", 3, 2, <<Zero, Zero>>), Whole("FLASH_RESET", 0, 0, <<>>) }

\* What does not parse, or parses to no command.
Malformed ==
  { Whole("undefined", 0, 0, <<>>), Whole("PROGRAM", 0, 3, <<Zero, Zero, Zero>>),
    Req("PROGRAM", 0, 1, <<Zero>>, "noPayload"), Req("READ", 0, 1, <<>>, "noPayload"),
    Req("CHIP_ERASE", 0, 0, <<>>, "badCrc"), Req("CHIP_ERASE", 0, 0, <<>>, "noCrc"),
    Req("CHIP_ERASE", 0, 0, <<>>, "badMagic") }

Everyday == Valid \cup Malformed

\* The instance with AVR resets and programs that time out: one word a slot.
TwoSectors == [c \in 0 .. 1 |-> c]
Few ==
  { Whole("AVR_RESET", 0, 0, <<>>), Whole("SECTOR_ERASE", 1, 0, <<>>),
    Whole("CHIP_ERASE", 0, 0, <<>>), Whole("FLASH_RESET", 0, 0, <<>>),
    Whole("PROGRAM", 0, 2, <<One, Zero>>), Whole("READ", 0, 2, <<>>),
    Whole("IDENTIFY", 0, 0, <<>>), Whole("GET_STATUS", 0, 0, <<>>) }
=============================================================================

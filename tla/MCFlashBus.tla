----------------------------- MODULE MCFlashBus -----------------------------
(* Eight values of A0-A15 and two of A16-A18, so that 0x555 and 0x2AA are    *)
(* different addresses, a buffer can cross from one value of A16-A18 to the  *)
(* next (7), and addresses beyond the AVR's lines wrap (15, 21).             *)
EXTENDS FlashBus

MCAddresses == {0, 7, 15, 21}

\* flash.c:100, "/OE starts high (deasserted) - flash_cmd and flash_read_buffer
\* will assert it at the right time": once flash_init() is done, the AVR pulls /OE
\* low to read only.
OeStartsHigh ==
  ddr["F"] /\ port["oe"] = 0 =>
    handler.name \in {"main", "identify", "read", "flashReset"}

\* flash.c:196, "Gary drives /OE low during ROM read cycles - must not fight
\* it": PF3 and the buffer never drive /OE to different levels.
GaryNotFought == handler.name # "main" => OeDrivers # {0, 1}
=============================================================================

--------------------------- MODULE FirmwareClaims ---------------------------
(* What comments and help texts say of the firmware, where it does not do so. *)
EXTENDS MCFirmware

\* protocol.c:241, "erase done - return /OE to Gary": once GET_STATUS has told
\* the host that the erase is over, Gary's buffer is enabled again.
GaryGetsOeBack ==
  Answered("GET_STATUS", "OK") /\ order.kind = "erase" => oe_buf = "enabled"

\* flash.c:239, "Release flash from reset, enter read mode": flash_init() leaves
\* the chip reading, whatever it was doing before.
InitReachesReadMode == [][pc = "boot" /\ pc' = "loop" => mode' = "read"]_vars

\* meggy_flash.py:536, "Dump full 2 MB flash": the word addresses CMD_READ
\* accepts are the chip's, so that reading all of them reads all of the chip.
ReadReachesWholeChip ==
  Answered("READ", "OK") /\ a19 = 0 =>
    answer.data = [j \in 1 .. req.len |-> mem[req.addr + j - 1]]

WithAvrReset == Everyday \cup {Whole("AVR_RESET", 0, 0, <<>>)}
=============================================================================

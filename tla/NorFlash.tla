------------------------------ MODULE NorFlash ------------------------------
(***************************************************************************)
(* The M29F160FT flash chip, as far as firmware/flash.c relies on it: the  *)
(* AMD command decoder, the embedded program and erase algorithms that run *)
(* on after the last command word, and the RY/BY line.  The chip is no     *)
(* part of the repository; every definition here is read off the command   *)
(* words flash.c sends, the waits it makes and the comments beside them.   *)
(*                                                                         *)
(* A 16-bit word is the set of its 1 bits, so an erased word is Bits and   *)
(* programming can only take bits away.  The chip's 2 * SlotWords words    *)
(* (FLASH_SIZE_WORDS) are its Cells.                                       *)
(***************************************************************************)
EXTENDS Integers

CONSTANTS
  SlotWords,   \* words the AVR's 19 address lines reach (SLOT_WORDS, 0x80000)
  Bits,        \* bit positions of a word
  Sector,      \* the erase sector of each cell
  Unknown,     \* content of a cell whose erase or program was cut short
  IdCode,      \* what an ID cell shows in autoselect mode
  StatusCode,  \* what any cell shows while the chip is busy
  Worn         \* past its specified life: slower than that, and it may fail

FLASH_SIZE_WORDS == 2 * SlotWords
Cells == 0 .. FLASH_SIZE_WORDS - 1
Words == SUBSET Bits
Contents == Words \cup {Unknown}
Readings == Contents \cup {IdCode, StatusCode}

ASSUME SlotAssumption == SlotWords \in Nat \ {0}
ASSUME SectorAssumption == DOMAIN Sector = Cells
ASSUME MarkerAssumption ==
  /\ Unknown \notin Words /\ IdCode \notin Contents
  /\ StatusCode \notin Contents \cup {IdCode}
ASSUME WornAssumption == Worn \in BOOLEAN

VARIABLES
  mode,   \* state of the command decoder, or the embedded algorithm running
  mem,    \* content of the cells
  job     \* cells the embedded algorithm works on, and the word it programs

chipVars == <<mode, mem, job>>

\* An algorithm that has failed keeps RY/BY low and shows its status until it is reset.
Algorithms == {"programming", "erasing"}
Busy == Algorithms \cup {"failed"}
Modes == {"read", "autoselect", "unlock1", "unlock2", "program",
          "erase", "eraseUnlock1", "eraseUnlock2"} \cup Busy

NoJob == [cells |-> {}, word |-> {}]
Ready == mode \notin Busy          \* RY/BY is high

ChipTypeOK ==
  /\ mode \in Modes
  /\ mem \in [Cells -> Contents]
  /\ job \in [cells: SUBSET Cells, word: Words]
  /\ mode = "failed" => Worn /\ job = NoJob

ChipInit ==
  /\ mode = "read"
  /\ mem \in [Cells -> {Bits, {}}]
  /\ job = NoJob

-----------------------------------------------------------------------------
(* Bus cycles.  A cycle is one flash_cmd(): a command code, or "data" when *)
(* the word on the bus is the one to program, and the cell its address     *)
(* lines select.                                                           *)

Codes == {"AA", "55", "A0", "80", "90", "10", "30", "F0", "data"}
Cycles == [code: Codes, cell: Cells, word: Words]
Cycle(code, cell, word) == [code |-> code, cell |-> cell, word |-> word]

\* The decoder's next state; a word out of sequence returns it to read mode.
Decoded(m, code) ==
  CASE m \in {"read", "autoselect"} /\ code = "AA" -> "unlock1"
    [] m = "unlock1" /\ code = "55"                -> "unlock2"
    [] m = "unlock2" /\ code = "90"                -> "autoselect"
    [] m = "unlock2" /\ code = "A0"                -> "program"
    [] m = "program" /\ code = "data"              -> "programming"
    [] m = "unlock2" /\ code = "80"                -> "erase"
    [] m = "erase" /\ code = "AA"                  -> "eraseUnlock1"
    [] m = "eraseUnlock1" /\ code = "55"           -> "eraseUnlock2"
    [] m = "eraseUnlock2" /\ code \in {"10", "30"} -> "erasing"
    [] OTHER                                       -> "read"

SectorCells(cell) == {c \in Cells : Sector[c] = Sector[cell]}

\* The cells the last word of a command sequence puts to work.
Target(c) ==
  CASE c.code = "data" -> [cells |-> {c.cell}, word |-> c.word]
    [] c.code = "30"   -> [cells |-> SectorCells(c.cell), word |-> {}]
    [] OTHER           -> [cells |-> Cells, word |-> {}]

\* One write cycle.  A chip at work ignores it, a reset command included; one
\* that has failed hears the reset command alone.
Write(c) ==
  /\ IF Ready
     THEN /\ mode' = Decoded(mode, c.code)
          /\ job' = IF mode' \in Busy THEN Target(c) ELSE NoJob
     ELSE /\ mode' = IF mode = "failed" /\ c.code = "F0" THEN "read" ELSE mode
          /\ UNCHANGED job
  /\ UNCHANGED mem

\* What a read cycle of this cell shows.
Readout(cell) ==
  CASE mode \in Busy        -> StatusCode
    [] mode = "autoselect"  -> IdCode
    [] OTHER                -> mem[cell]

\* Programming can only clear bits.
Overlay(old, word) == IF old = Unknown THEN Unknown ELSE old \cap word

\* The embedded algorithm ends: RY/BY rises, the chip is back in read mode ...
Succeed ==
  /\ mode \in Algorithms
  /\ mem' = [c \in Cells |->
               IF c \notin job.cells THEN mem[c]
               ELSE IF mode = "erasing" THEN Bits
               ELSE Overlay(mem[c], job.word)]
  /\ mode' = "read"
  /\ job' = NoJob

\* ... or it exceeds its limits, and leaves its cells half erased or programmed.
Fail ==
  /\ Worn /\ mode \in Algorithms
  /\ mem' = [c \in Cells |-> IF c \in job.cells THEN Unknown ELSE mem[c]]
  /\ mode' = "failed"
  /\ job' = NoJob

Finish == Succeed \/ Fail

\* A low /RST, or the loss of power: the embedded algorithm stops half way.
HwReset ==
  /\ mem' = [c \in Cells |-> IF c \in job.cells THEN Unknown ELSE mem[c]]
  /\ mode' = "read"
  /\ job' = NoJob
=============================================================================

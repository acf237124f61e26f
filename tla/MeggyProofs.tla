---------------------------- MODULE MeggyProofs ----------------------------
(***************************************************************************)
(* For every size of the chip, every sector map and every set of images:   *)
(* the host, the firmware and the chip together implement RomStore, so an  *)
(* image the host has called verified is in the flash and stays there.     *)
(* First the scripts, then HostInv on top of the firmware's IInv and       *)
(* DataInv, then the steps of the store.                                   *)
(***************************************************************************)
EXTENDS Meggy, FirmwareProofs

-----------------------------------------------------------------------------
(* The scripts.                                                            *)

NumChunks == SlotWords \div CHUNK_WORDS
WordLists == {<<>>} \cup {[j \in 1 .. CHUNK_WORDS |-> img[addr + j - 1]] :
                            img \in Images, addr \in Nat}
Calls == [cmd: HostCommands, addr: Nat, len: Nat, data: WordLists, fate: {"whole"}]

\* The chunks make up the slot.
LEMMA ChunksFill ==
  /\ SlotWords \in Nat \ {0} /\ CHUNK_WORDS \in Nat \ {0} /\ RETRIES \in Nat \ {0}
  /\ NumChunks \in Nat /\ NumChunks * CHUNK_WORDS = SlotWords
  /\ Chunks = [n \in 1 .. NumChunks |-> (n - 1) * CHUNK_WORDS]
  /\ DOMAIN Chunks = 1 .. NumChunks
<1>1. /\ SlotWords \in Nat \ {0} /\ CHUNK_WORDS \in Nat \ {0} /\ RETRIES \in Nat \ {0}
      /\ SlotWords % CHUNK_WORDS = 0
  BY SlotAssumption, HostAssumption
<1>2. /\ NumChunks \in Int
      /\ SlotWords = (CHUNK_WORDS * NumChunks) + (SlotWords % CHUNK_WORDS)
  BY <1>1 DEF NumChunks
<1>3. NumChunks >= 0
  BY <1>1 DEF NumChunks
<1>4. QED
  BY <1>1, <1>2, <1>3 DEF Chunks, NumChunks

\* A list made by a rule is a sequence.
LEMMA ListOf ==
  ASSUME NEW S, NEW N \in Nat, NEW s, s = [n \in 1 .. N |-> s[n]],
         \A n \in 1 .. N : s[n] \in S
  PROVE  s \in Seq(S) /\ Len(s) = N
<1>1. s \in [1 .. N -> S]
  OBVIOUS
<1>2. s \in Seq(S)
  BY <1>1, SeqDef
<1>3. DOMAIN s = 1 .. N /\ DOMAIN s = 1 .. Len(s) /\ Len(s) \in Nat
  BY <1>1, <1>2, LenProperties
<1>4. QED
  BY <1>2, <1>3

\* verify(): a FLASH_RESET, and the slot chunk by chunk.
LEMMA VerifyCalls ==
  /\ Verify \in Seq(Calls) /\ Len(Verify) = NumChunks + 1
  /\ Verify[1] = Reset
  /\ \A n \in 2 .. NumChunks + 1 :
       Verify[n] = Ask("READ", (n - 2) * CHUNK_WORDS, CHUNK_WORDS, <<>>)
<1> DEFINE reads == [n \in DOMAIN Chunks |-> Ask("READ", Chunks[n], CHUNK_WORDS, <<>>)]
<1>1. Reset \in Calls
  BY DEF Reset, Ask, Calls, HostCommands, WordLists
<1>2. <<Reset>> \in Seq(Calls) /\ Len(<<Reset>>) = 1
  BY <1>1
<1>3. ASSUME NEW n \in 1 .. NumChunks
      PROVE  /\ reads[n] \in Calls
             /\ reads[n] = Ask("READ", (n - 1) * CHUNK_WORDS, CHUNK_WORDS, <<>>)
  <2>1. (n - 1) * CHUNK_WORDS \in Nat /\ CHUNK_WORDS \in Nat
    BY ChunksFill
  <2>2. reads[n] = Ask("READ", (n - 1) * CHUNK_WORDS, CHUNK_WORDS, <<>>)
    BY ChunksFill
  <2>3. QED
    BY <2>1, <2>2 DEF Ask, Calls, HostCommands, WordLists
<1>4. reads \in Seq(Calls) /\ Len(reads) = NumChunks
  <2>1. reads = [n \in 1 .. NumChunks |-> reads[n]]
    BY ChunksFill
  <2>2. QED
    BY <1>3, <2>1, ChunksFill, ListOf
<1>5. Verify = <<Reset>> \o reads
  BY DEF Verify
<1> HIDE DEF reads
<1>6. /\ Verify \in Seq(Calls) /\ Len(Verify) = 1 + NumChunks
      /\ \A n \in 1 .. 1 + NumChunks :
           Verify[n] = IF n <= 1 THEN <<Reset>>[n] ELSE reads[n - 1]
  BY <1>2, <1>4, <1>5, ConcatProperties
<1>7. ASSUME NEW n \in 2 .. NumChunks + 1
      PROVE  Verify[n] = Ask("READ", (n - 2) * CHUNK_WORDS, CHUNK_WORDS, <<>>)
  <2>1. n \in 1 .. 1 + NumChunks /\ ~(n <= 1) /\ n - 1 \in 1 .. NumChunks
        /\ (n - 1) - 1 = n - 2
    BY ChunksFill
  <2>2. QED
    BY <1>3, <1>6, <2>1
<1>8. QED
  BY <1>6, <1>7, ChunksFill

\* write()'s programs are calls of the host.
LEMMA ProgramCalls ==
  ASSUME NEW img \in Images
  PROVE  ProgramImage(img) \in Seq(Calls)
<1>1. ASSUME NEW n \in 1 .. NumChunks
      PROVE  ProgramImage(img)[n] \in Calls
  <2>1. Chunks[n] \in Nat /\ CHUNK_WORDS \in Nat
    BY ChunksFill
  <2>2. PICK addr \in Nat : addr = Chunks[n]
    BY <2>1
  <2> DEFINE words == [j \in 1 .. CHUNK_WORDS |-> img[addr + j - 1]]
  <2>3. words \in WordLists
    BY DEF WordLists
  <2>4. ProgramImage(img)[n] = Ask("PROGRAM", addr, CHUNK_WORDS, words)
    BY <2>2, ChunksFill DEF ProgramImage, ProgramChunk
  <2> HIDE DEF words
  <2>5. QED
    BY <2>1, <2>3, <2>4 DEF Ask, Calls, HostCommands
<1>2. ProgramImage(img) = [n \in 1 .. NumChunks |-> ProgramImage(img)[n]]
  BY ChunksFill DEF ProgramImage
<1>3. QED
  BY <1>1, <1>2, ChunksFill, ListOf

\* So are the five calls for each sector.
LEMMA EraseCalls == EraseCurrentSlot \in Seq(Calls)
<1>1. ASSUME NEW addr \in Nat, NEW k \in 1 .. 5
      PROVE  EraseSector(addr)[k] \in Calls
  <2>1. /\ Ask("SECTOR_ERASE", addr, 0, <<>>) \in Calls
        /\ Ask("GET_STATUS", 0, 0, <<>>) \in Calls /\ Reset \in Calls
        /\ Ask("READ", addr, 1, <<>>) \in Calls
    BY DEF Reset, Ask, Calls, HostCommands, WordLists
  <2>2. QED
    BY <2>1 DEF EraseSector
<1>2. Len(EraseSector(0)) = 5
  BY DEF EraseSector
<1>3. SECTOR_MAP \in Seq(Nat) /\ Len(SECTOR_MAP) \in Nat /\ 5 * Len(SECTOR_MAP) \in Nat
  <2>1. 0 .. SlotWords - 1 \subseteq Nat
    BY SlotAssumption
  <2>2. SECTOR_MAP \in Seq(Nat)
    BY <2>1, HostAssumption, SeqMonotonic
  <2>3. QED
    BY <2>2, LenProperties
<1>4. EraseCurrentSlot =
        [n \in 1 .. 5 * Len(SECTOR_MAP) |->
           EraseSector(SECTOR_MAP[((n - 1) \div 5) + 1])[((n - 1) % 5) + 1]]
  BY <1>2 DEF EraseCurrentSlot
<1>5. ASSUME NEW n \in 1 .. 5 * Len(SECTOR_MAP)
      PROVE  EraseCurrentSlot[n] \in Calls
  <2>1. ((n - 1) % 5) + 1 \in 1 .. 5
    OBVIOUS
  <2>2. ((n - 1) \div 5) + 1 \in 1 .. Len(SECTOR_MAP)
    BY <1>3
  <2>3. SECTOR_MAP[((n - 1) \div 5) + 1] \in Nat
    BY <1>3, <2>2, ElementOfSeq
  <2>4. QED
    BY <1>1, <1>4, <2>1, <2>3
<1>6. EraseCurrentSlot = [n \in 1 .. 5 * Len(SECTOR_MAP) |-> EraseCurrentSlot[n]]
  BY <1>4
<1>7. QED
  BY <1>3, <1>5, <1>6, ListOf

\* What a session asks for: commands of HostCommands only; after the FLASH_RESET
\* with which verify() begins, nothing but the slot's chunks, in order.
LEMMA ScriptCalls ==
  ASSUME NEW kind \in Sessions, NEW img \in Images, NEW s, s = Script(kind, img)
  PROVE  /\ Len(s) \in Nat
         /\ \A n \in 1 .. Len(s) : s[n] \in Requests /\ s[n].cmd \in HostCommands
         /\ kind = "verify" => \A n \in 1 .. Len(s) : s[n].cmd \in {"FLASH_RESET", "READ"}
         /\ kind \in {"write", "verify"} => \E R \in 1 .. Len(s) :
              /\ R = Len(s) - Len(Verify) + 1 /\ Len(s) = R + NumChunks
              /\ s[R] = Reset
              /\ \A n \in R + 1 .. Len(s) :
                   s[n] = Ask("READ", (n - R - 1) * CHUNK_WORDS, CHUNK_WORDS, <<>>)
<1>1. kind \in {"write", "erase", "verify"}
  BY HostAssumption
<1>2. Verify \in Seq(Calls) /\ Len(Verify) = NumChunks + 1 /\ NumChunks \in Nat
  BY VerifyCalls, ChunksFill
<1>3. CASE kind = "erase"
  <2>1. s \in Seq(Calls)
    BY <1>3, EraseCalls DEF Script
  <2>2. Len(s) \in Nat /\ \A n \in 1 .. Len(s) : s[n] \in Calls
    BY <2>1, LenProperties, ElementOfSeq
  <2>3. \A n \in 1 .. Len(s) : s[n] \in Requests
    BY <2>1, LenProperties, ScriptsAssumption
  <2>4. QED
    BY <1>3, <2>2, <2>3 DEF Calls
<1>4. CASE kind \in {"write", "verify"}
  <2>1. PICK before \in Seq(Calls) :
          s = before \o Verify /\ (kind = "verify" => before = <<>>)
    <3>1. CASE kind = "verify"
      BY <1>2, <3>1, ConcatEmptySeq, EmptySeq DEF Script
    <3>2. CASE kind = "write"
      <4>1. /\ EraseCurrentSlot \in Seq(Calls) /\ ProgramImage(img) \in Seq(Calls)
            /\ <<Reset>> \in Seq(Calls)
        <5>1. Reset \in Calls
          BY DEF Reset, Ask, Calls, HostCommands, WordLists
        <5>2. QED
          BY <5>1, EraseCalls, ProgramCalls
      <4>2. EraseCurrentSlot \o ProgramImage(img) \in Seq(Calls)
        BY <4>1, ConcatProperties
      <4>3. EraseCurrentSlot \o ProgramImage(img) \o <<Reset>> \in Seq(Calls)
        BY <4>1, <4>2, ConcatProperties
      <4>4. s = EraseCurrentSlot \o ProgramImage(img) \o <<Reset>> \o Verify
        BY <3>2 DEF Script
      <4>5. QED
        BY <3>2, <4>3, <4>4
    <3>3. QED
      BY <1>4, <3>1, <3>2
  <2>2. Len(before) \in Nat
    BY <2>1, LenProperties
  <2>3. /\ s \in Seq(Calls) /\ Len(s) = Len(before) + Len(Verify)
        /\ \A n \in 1 .. Len(before) + Len(Verify) :
             s[n] = IF n <= Len(before) THEN before[n] ELSE Verify[n - Len(before)]
    <3>1. s = before \o Verify /\ Verify \in Seq(Calls)
      BY <1>2, <2>1
    <3>2. /\ before \o Verify \in Seq(Calls)
          /\ Len(before \o Verify) = Len(before) + Len(Verify)
          /\ \A n \in 1 .. Len(before) + Len(Verify) :
               (before \o Verify)[n] =
                 IF n <= Len(before) THEN before[n] ELSE Verify[n - Len(before)]
      BY <3>1, ConcatProperties
    <3>3. QED
      BY <3>1, <3>2
  <2>4. Len(s) \in Nat /\ \A n \in 1 .. Len(s) : s[n] \in Calls
    BY <2>3, LenProperties, ElementOfSeq
  <2>5. \A n \in 1 .. Len(s) : s[n] \in Requests
    BY <2>3, LenProperties, ScriptsAssumption
  <2> DEFINE R == Len(before) + 1
  <2>6. /\ R \in 1 .. Len(s) /\ R = Len(s) - Len(Verify) + 1 /\ Len(s) = R + NumChunks
    BY <1>2, <2>2, <2>3
  <2>7. s[R] = Reset
    <3>1. ~(R <= Len(before)) /\ R - Len(before) = 1
      BY <2>2
    <3>2. s[R] = Verify[1]
      BY <2>3, <2>6, <3>1
    <3>3. QED
      BY <3>2, VerifyCalls
  <2>8. ASSUME NEW n \in R + 1 .. Len(s)
        PROVE  s[n] = Ask("READ", (n - R - 1) * CHUNK_WORDS, CHUNK_WORDS, <<>>)
    <3>1. /\ n \in 1 .. Len(before) + Len(Verify) /\ ~(n <= Len(before))
          /\ n - Len(before) \in 2 .. NumChunks + 1
          /\ (n - Len(before)) - 2 = n - R - 1
      BY <1>2, <2>2, <2>3
    <3>2. s[n] = Verify[n - Len(before)]
      BY <2>3, <3>1
    <3>3. QED
      BY <3>1, <3>2, VerifyCalls
  <2>9. kind = "verify" => \A n \in 1 .. Len(s) : s[n].cmd \in {"FLASH_RESET", "READ"}
    <3>1. kind = "verify" => R = 1
      BY <2>1
    <3>2. Reset.cmd = "FLASH_RESET"
      BY DEF Reset, Ask
    <3>3. ASSUME NEW n \in R + 1 .. Len(s) PROVE s[n].cmd = "READ"
      <4>1. s[n] = Ask("READ", (n - R - 1) * CHUNK_WORDS, CHUNK_WORDS, <<>>)
        BY <2>8
      <4>2. QED
        BY <4>1 DEF Ask
    <3>4. QED
      BY <2>4, <2>7, <3>1, <3>2, <3>3
  <2> HIDE DEF R
  <2>10. QED
    BY <2>4, <2>5, <2>6, <2>7, <2>8, <2>9 DEF Calls
<1>5. QED
  BY <1>1, <1>3, <1>4

-----------------------------------------------------------------------------
(* The chip under the host's requests.                                     *)

\* A word address reaches the selected slot, which is half of the chip.
LEMMA CellInSlot ==
  ASSUME a19 \in {0, 1}, NEW wa \in Nat
  PROVE  /\ Cell(wa) \in SelectedSlot
         /\ SelectedSlot = {c \in Cells : c < SlotWords <=> a19 = 0}
<1>1. SlotWords \in Nat \ {0} /\ Cells = 0 .. (2 * SlotWords) - 1
  BY SlotAssumption DEF Cells, FLASH_SIZE_WORDS
<1>2. wa % SlotWords \in 0 .. SlotWords - 1
  BY <1>1
<1>3. ASSUME NEW a \in 0 .. SlotWords - 1
      PROVE  Cell(a) = IF a19 = 0 THEN a ELSE SlotWords + a
  BY <1>1 DEF Cell
<1>4. Cell(wa) = Cell(wa % SlotWords)
  <2>1. (wa % SlotWords) % SlotWords = wa % SlotWords
    BY <1>1, <1>2
  <2>2. QED
    BY <2>1 DEF Cell
<1>5. Cell(wa) \in SelectedSlot
  BY <1>2, <1>4 DEF SelectedSlot
<1>6. ASSUME NEW c \in Cells, c < SlotWords <=> a19 = 0
      PROVE  c \in SelectedSlot
  <2>1. CASE a19 = 0
    <3>1. c \in 0 .. SlotWords - 1 /\ Cell(c) = c
      BY <1>1, <1>3, <1>6, <2>1
    <3>2. QED
      BY <3>1 DEF SelectedSlot
  <2>2. CASE a19 = 1
    <3>1. c - SlotWords \in 0 .. SlotWords - 1 /\ Cell(c - SlotWords) = c
      BY <1>1, <1>3, <1>6, <2>2
    <3>2. QED
      BY <3>1 DEF SelectedSlot
  <2>3. QED
    BY <2>1, <2>2
<1>7. \A c \in SelectedSlot : c \in Cells /\ (c < SlotWords <=> a19 = 0)
  BY <1>1, <1>3 DEF SelectedSlot
<1>8. QED
  BY <1>5, <1>6, <1>7

\* A sector the firmware erases for SECTOR_ERASE lies in the selected slot.
LEMMA SectorInSlot ==
  ASSUME a19 \in {0, 1}, NEW wa \in Nat
  PROVE  SectorCells(Cell(wa)) \subseteq SelectedSlot
<1>1. Cell(wa) \in SelectedSlot /\ Cell(wa) \in Cells
  BY CellInSlot
<1>2. ASSUME NEW c \in SectorCells(Cell(wa)) PROVE c \in SelectedSlot
  <2>1. c \in Cells /\ Sector[c] = Sector[Cell(wa)]
    BY DEF SectorCells
  <2>2. c < SlotWords <=> Cell(wa) < SlotWords
    BY <1>1, <2>1, HalvesAssumption
  <2>3. QED
    BY <1>1, <2>1, <2>2, CellInSlot
<1>3. QED
  BY <1>2

\* A chip set to work by flash_cmd() works for a SECTOR_ERASE or a PROGRAM, on cells
\* of the selected slot: no session asks for a CHIP_ERASE.
LEMMA SetToWork ==
  ASSUME Known, OnTheWay, OnlyHostCommands, FlashCmd, Ready, ~Ready'
  PROVE  InFlight(req) /\ job'.cells \subseteq SelectedSlot
<1>1. /\ TypeInv /\ bus # <<>> /\ Len(bus) \in Nat \ {0} /\ Head(bus) = bus[1]
      /\ a19 \in {0, 1}
  BY BusTail DEF Known, FlashCmd, TypeInv, TypeOK
<1>2. mode' \in Busy /\ job' = Target(bus[1]) /\ bus[1].code \in {"10", "30", "data"}
  <2>1. Write(bus[1]) /\ mode' \in Busy
    BY <1>1 DEF FlashCmd, Ready
  <2>2. mode' = Decoded(mode, bus[1].code) /\ job' = Target(bus[1])
    BY <2>1 DEF Write
  <2>3. mode' \in {"erasing", "programming"}
    BY <2>1, <2>2 DEF Decoded, Busy, Algorithms
  <2>4. QED
    BY <2>1, <2>2, <2>3, DecodedBusy
<1>3. /\ bus[1] = LastOnBus /\ pc \in {"erase", "wait"}
      /\ bus[1].code = "data" <=> pc = "wait"
  BY <1>1, <1>2 DEF Known, Control, LastWord, LastOnBus
<1>4. req \in Requests /\ req # None /\ req.addr \in Nat /\ req.cmd \in HostCommands
  <2>1. req \in Requests
    BY <1>3 DEF Known, TypeInv, Locals
  <2>2. QED
    BY <2>1, RequestsAssumption DEF OnlyHostCommands
<1>5. CASE pc = "erase"
  <2>1. req.cmd = "SECTOR_ERASE" /\ bus[1] = Cycle("30", Cell(req.addr), {})
    BY <1>1, <1>3, <1>4, <1>5 DEF OnTheWay, HostCommands
  <2>2. job'.cells = SectorCells(Cell(req.addr))
    BY <1>2, <2>1 DEF Target, Cycle
  <2>3. QED
    BY <1>1, <1>4, <2>1, <2>2, SectorInSlot DEF InFlight
<1>6. CASE pc = "wait"
  <2>1. req.cmd = "PROGRAM" /\ i \in Nat
    BY <1>6 DEF Known, TypeInv, TypeOK, Locals
  <2>2. bus[1] = Cycle("data", Cell(req.addr + i), req.data[i + 1])
    BY <1>1, <1>3, <1>6 DEF OnTheWay
  <2>3. job'.cells = {Cell(req.addr + i)}
    BY <1>2, <2>2 DEF Target, Cycle
  <2>4. Cell(req.addr + i) \in SelectedSlot
    BY <1>1, <1>4, <2>1, CellInSlot
  <2>5. QED
    BY <1>4, <2>1, <2>3, <2>4 DEF InFlight
<1>7. QED
  BY <1>3, <1>5, <1>6

\* The steps that touch the chip.
LEMMA ChipMoves ==
  ASSUME [Next]_vars
  PROVE  UNCHANGED chipVars \/ HwReset \/ Finish \/ FlashCmd \/ FlashInit
BY DEF Next, Task, Environment, TaskPoll, Parse, Identify, SampleId, Read, FlashReset,
  StartRead, flash_hw_reset, ReadWord, ChipErase, SectorErase, RefuseWhileErasing,
  StartErase, EraseStarted, GetStatus, Release, Program, ProgramWord, WaitReady,
  WaitTimeout, Undefined, AvrReset, SendResponse, PullReset, ChipDone, HostSend,
  UsbChange, MoveSwitch, PowerLoss, vars

\* What a step may do to the chip: set it to work for the request being handled, or
\* let its work, or part of it, come about.
LEMMA ChipWork ==
  ASSUME Known, OnTheWay, OnlyHostCommands, [Next]_vars
  PROVE  /\ \/ job'.cells \subseteq job.cells /\ (Ready => Ready')
            \/ FlashCmd /\ InFlight(req) /\ job'.cells \subseteq SelectedSlot
         /\ \A c \in Cells : mem'[c] # mem[c] => c \in job.cells
<1>1. CASE UNCHANGED chipVars
  BY <1>1 DEF chipVars, Ready
<1>2. CASE HwReset
  BY <1>2 DEF HwReset, NoJob, Ready, Busy, Algorithms
<1>3. CASE Finish
  BY <1>3 DEF Finish, Succeed, Fail, NoJob, Ready, Busy
<1>4. CASE FlashCmd
  <2>1. mem' = mem
    BY <1>4 DEF FlashCmd, Write
  <2>2. CASE ~Ready
    BY <1>4, <2>1, <2>2 DEF FlashCmd, Write
  <2>3. CASE Ready /\ Ready'
    BY <1>4, <2>1, <2>3 DEF FlashCmd, Write, NoJob, Ready
  <2>4. CASE Ready /\ ~Ready'
    BY <1>4, <2>1, <2>4, SetToWork
  <2>5. QED
    BY <2>2, <2>3, <2>4
<1>5. CASE FlashInit
  <2>1. mode' \notin Busy \/ (mode' = mode /\ job' = job)
    BY <1>5, WordCodes DEF FlashInit, Write, Decoded, Ready, Busy, Algorithms
  <2>2. QED
    BY <1>5, <2>1 DEF FlashInit, Write, NoJob, Ready
<1>6. QED
  <2>1. UNCHANGED chipVars \/ HwReset \/ Finish \/ FlashCmd \/ FlashInit
    BY ChipMoves
  <2>2. QED
    BY <1>1, <1>2, <1>3, <1>4, <1>5, <2>1

-----------------------------------------------------------------------------
(* The host.                                                               *)

\* The call a session is at.
LEMMA Requested ==
  ASSUME HostTypeOK, session # "none"
  PROVE  /\ session \in Sessions /\ Len(script) \in Nat
         /\ ~Finished =>
              /\ step \in 1 .. Len(script)
              /\ request \in Requests /\ request # None /\ request.cmd \in HostCommands
              /\ InFlight(request) => session \in {"write", "erase"}
         /\ session \in {"write", "verify"} =>
              /\ ResetCall \in 1 .. Len(script) /\ Len(script) = ResetCall + NumChunks
              /\ step = ResetCall => request = Reset
              /\ ~Finished /\ step > ResetCall =>
                   request = Ask("READ", (step - ResetCall - 1) * CHUNK_WORDS,
                                 CHUNK_WORDS, <<>>)
<1>1. /\ session \in Sessions /\ image \in Images /\ step \in 1 .. Len(script) + 1
      /\ session \in {"write", "erase", "verify"}
  BY HostAssumption DEF HostTypeOK
<1>2. /\ Len(script) \in Nat
      /\ \A n \in 1 .. Len(script) :
           script[n] \in Requests /\ script[n].cmd \in HostCommands
      /\ session = "verify" =>
           \A n \in 1 .. Len(script) : script[n].cmd \in {"FLASH_RESET", "READ"}
      /\ session \in {"write", "verify"} => \E R \in 1 .. Len(script) :
           /\ R = Len(script) - Len(Verify) + 1 /\ Len(script) = R + NumChunks
           /\ script[R] = Reset
           /\ \A n \in R + 1 .. Len(script) :
                script[n] = Ask("READ", (n - R - 1) * CHUNK_WORDS, CHUNK_WORDS, <<>>)
  <2>1. script = Script(session, image)
    BY DEF script
  <2>2. QED
    BY <1>1, <2>1, ScriptCalls
<1>3. ASSUME ~Finished
      PROVE  /\ step \in 1 .. Len(script)
             /\ request \in Requests /\ request # None /\ request.cmd \in HostCommands
             /\ InFlight(request) => session \in {"write", "erase"}
  <2>1. step \in 1 .. Len(script)
    BY <1>1, <1>2, <1>3 DEF Finished
  <2>2. QED
    BY <1>1, <1>2, <2>1, RequestsAssumption DEF request, InFlight
<1>4. ASSUME session \in {"write", "verify"}
      PROVE  /\ ResetCall \in 1 .. Len(script) /\ Len(script) = ResetCall + NumChunks
             /\ step = ResetCall => request = Reset
             /\ ~Finished /\ step > ResetCall =>
                  request = Ask("READ", (step - ResetCall - 1) * CHUNK_WORDS,
                                CHUNK_WORDS, <<>>)
  <2>1. /\ ResetCall \in 1 .. Len(script) /\ Len(script) = ResetCall + NumChunks
        /\ script[ResetCall] = Reset
        /\ \A n \in ResetCall + 1 .. Len(script) :
             script[n] = Ask("READ", (n - ResetCall - 1) * CHUNK_WORDS, CHUNK_WORDS, <<>>)
    BY <1>2, <1>4 DEF ResetCall
  <2>2. ~Finished /\ step > ResetCall => step \in ResetCall + 1 .. Len(script)
    BY <1>3, <2>1
  <2>3. QED
    BY <2>1, <2>2 DEF request
<1>5. QED
  BY <1>1, <1>2, <1>3, <1>4

\* To the firmware, the host's calls are requests like any other.
LEMMA FirmwareStep ==
  ASSUME HostInv, [MeggyNext]_allVars
  PROVE  [Next]_vars
<1>1. ASSUME HostCall PROVE HostSend
  <2>1. session # "none" /\ ~Finished /\ usb /\ pc = "loop" /\ inbox = None
    BY <1>1 DEF HostCall, Silent, HostInv, OneAtATime
  <2>2. request \in Requests
    BY <2>1, Requested DEF HostInv
  <2>3. QED
    BY <1>1, <2>1, <2>2 DEF HostCall, HostSend
<1>2. QED
  BY <1>1 DEF MeggyNext, StartSession, Host, HostGivesUp, HostReply, HostDone, Abort,
    Deliver, Run, Chip, Switch, Cable, Supply, Next, Task, Environment, allVars

\* A ready chip stays ready, and its cells what they are, as long as the firmware
\* handles no SECTOR_ERASE or PROGRAM.
LEMMA StaysReady ==
  ASSUME Known, OnTheWay, Decoder, OnlyHostCommands, [Next]_vars, Ready, ~InFlight(req)
  PROVE  Ready' /\ mem' = mem
<1>1. /\ Ready'
      /\ \A c \in Cells : mem'[c] # mem[c] => c \in job.cells
  BY ChipWork
<1>2. job.cells = {}
  BY DEF Decoder, NoJob
<1>3. mem \in [Cells -> Contents] /\ mem' \in [Cells -> Contents]
  BY TypeStep DEF Known, TypeInv, TypeOK, ChipTypeOK
<1>4. QED
  BY <1>1, <1>2, <1>3

\* Everything proved of the firmware, the chip and the host.
SystemInv == IInv /\ DataInv /\ HostInv
LEMMA WhatIsKnown ==
  ASSUME SystemInv
  PROVE  /\ Known /\ TypeInv /\ TypeOK /\ OnTheWay /\ Decoder /\ AnswersTrue
         /\ HostTypeOK /\ OnlyHostCommands /\ OneAtATime /\ ReplyStillTrue /\ ReadSoFar
  BY DEF SystemInv, IInv, DataInv, HostInv, Known, TypeInv, Control

\* A step in which the session stays at its call.
LEMMA SameCall ==
  ASSUME HostTypeOK, TypeOK', UNCHANGED <<session, image, step, data, clean, told>>,
         attempt' \in 0 .. RETRIES, reply' \in Answers \cup {None}
  PROVE  /\ HostTypeOK'
         /\ UNCHANGED <<script, request, Finished, ResetCall>>
<1>1. script' = script
  BY DEF script
<1>2. UNCHANGED <<request, Finished, ResetCall>>
  BY <1>1 DEF request, Finished, ResetCall
<1>3. QED
  BY <1>1, <1>2 DEF HostTypeOK

\* While a session reads back, or an answer waits, no erase or program is handled.
LEMMA QuietReadBack ==
  ASSUME SystemInv,
         \/ session \in {"write", "verify"} /\ step > ResetCall
         \/ reply # None
  PROVE  ~InFlight(req) /\ session # "none"
<1>1. CASE reply # None
  <2>1. session # "none" /\ req = None
    BY <1>1, WhatIsKnown DEF OneAtATime
  <2>2. QED
    BY <2>1 DEF InFlight
<1>2. CASE session \in {"write", "verify"} /\ step > ResetCall
  <2>1. req = None \/ (~Finished /\ req = request)
    BY <1>2, WhatIsKnown DEF OneAtATime
  <2>2. ~Finished => request.cmd = "READ"
    <3>1. ASSUME ~Finished PROVE request.cmd = "READ"
      <4>1. request = Ask("READ", (step - ResetCall - 1) * CHUNK_WORDS, CHUNK_WORDS, <<>>)
        BY <1>2, <3>1, WhatIsKnown, Requested
      <4>2. QED
        BY <4>1 DEF Ask
    <3>2. QED
      BY <3>1
  <2>3. QED
    BY <1>2, <2>1, <2>2 DEF InFlight
<1>3. QED
  BY <1>1, <1>2

\* What has been read, and an answer that waits, stay true while J2 does not move.
LEMMA StillTrue ==
  ASSUME SystemInv, [Next]_vars, UNCHANGED <<session, image, step, data, a19>>,
         UNCHANGED <<script, request, ResetCall>>
  PROVE  /\ ReadSoFar'
         /\ reply' = reply => ReplyStillTrue'
<1>1. \A n : Cell(n)' = Cell(n)
  BY DEF Cell
<1>2. ASSUME session \in {"write", "verify"}, step > ResetCall
      PROVE  ReadSoFar'
  <2>1. /\ Ready
        /\ data = [j \in 1 .. (step - ResetCall - 1) * CHUNK_WORDS |-> mem[Cell(j - 1)]]
    BY <1>2, WhatIsKnown DEF ReadSoFar
  <2>2. Ready' /\ mem' = mem
    BY <1>2, <2>1, QuietReadBack, WhatIsKnown, StaysReady
  <2>3. QED
    BY <1>1, <1>2, <2>1, <2>2 DEF ReadSoFar
<1>3. ASSUME ~(session \in {"write", "verify"} /\ step > ResetCall)
      PROVE  ReadSoFar'
  BY <1>3, WhatIsKnown DEF ReadSoFar
<1>4. ASSUME reply' = reply, reply # None, reply.status = "OK",
             request.cmd \in {"READ", "FLASH_RESET"}
      PROVE  ReplyStillTrue'
  <2>1. /\ Ready
        /\ request.cmd = "READ" =>
             reply.data = [j \in 1 .. request.len |-> mem[Cell(request.addr + j - 1)]]
    BY <1>4, WhatIsKnown DEF ReplyStillTrue
  <2>2. Ready' /\ mem' = mem
    BY <1>4, <2>1, QuietReadBack, WhatIsKnown, StaysReady
  <2>3. QED
    BY <1>1, <1>4, <2>1, <2>2 DEF ReplyStillTrue
<1>5. reply' = reply => ReplyStillTrue'
  BY <1>4 DEF ReplyStillTrue
<1>6. QED
  BY <1>2, <1>3, <1>5

\* protocol_task() between commands and within one: where the request goes, and that
\* an idle loop with an empty endpoint stays one.
LEMMA TaskMoves ==
  ASSUME Known, OneAtATime, Run \/ Chip
  PROVE  /\ UNCHANGED <<a19, usb, hostVars>>
         /\ {req', inbox'} \subseteq {req, inbox, None}
         /\ pc' # "loop" => inbox' = None
         /\ pc' \in {"boot", "loop"} => req' = None
         /\ pc' # "reset"
         /\ pc = "loop" /\ inbox = None => pc' = "loop"
<1>1. /\ pc # "loop" => inbox = None
      /\ pc \in {"boot", "loop"} => req = None /\ bus = <<>>
      /\ pc # "reset"
  BY DEF Known, Control, LastWord, OneAtATime
<1>2. CASE Chip
  BY <1>1, <1>2 DEF Chip, FlashInit, ChipDone, fwVars, envVars
<1>3. CASE Run
  <2>1. CASE TaskPoll
    BY <1>1, <1>3, <2>1 DEF Run, TaskPoll, At
  <2>2. CASE Parse
    BY <1>1, <1>3, <2>2 DEF Run, Parse, Reject, At, envVars
  <2>3. CASE FlashCmd
    BY <1>1, <1>3, <2>3 DEF Run, FlashCmd, envVars
  <2>4. CASE \/ Identify \/ SampleId \/ Read \/ FlashReset \/ ReadWord \/ ChipErase
             \/ SectorErase \/ EraseStarted \/ GetStatus \/ Release \/ Program \/ ProgramWord
             \/ WaitReady \/ WaitTimeout \/ Undefined \/ AvrReset
    <3>1. /\ pc \notin {"boot", "loop"} /\ UNCHANGED <<req, envVars, hostVars>>
          /\ pc' \notin {"boot", "loop", "reset"}
      BY <1>1, <1>3, <2>4 DEF Run, Identify, SampleId, Read, FlashReset, StartRead,
        ReadWord, ChipErase, SectorErase, RefuseWhileErasing, StartErase, EraseStarted, GetStatus,
        Release, Program, ProgramWord, WaitReady, WaitTimeout, Undefined, AvrReset,
        Dispatch, Reject, At
    <3>2. QED
      BY <1>1, <3>1 DEF envVars
  <2>5. CASE SendResponse \/ PullReset
    BY <1>1, <1>3, <2>5 DEF Run, SendResponse, PullReset, At
  <2>6. QED
    BY <1>3, <2>1, <2>2, <2>3, <2>4, <2>5 DEF Run, Task
<1>4. QED
  BY <1>2, <1>3

\* The firmware and the chip at work.
LEMMA RunInv ==
  ASSUME SystemInv, [Next]_vars, Run \/ Chip
  PROVE  HostInv'
<1>1. /\ UNCHANGED <<a19, usb, session, image, step, attempt, reply, data, clean, told>>
      /\ {req', inbox'} \subseteq {req, inbox, None}
      /\ pc' # "loop" => inbox' = None
      /\ pc' \in {"boot", "loop"} => req' = None
      /\ pc' # "reset"
      /\ pc = "loop" /\ inbox = None => pc' = "loop"
  BY WhatIsKnown, TaskMoves DEF hostVars
<1>2. HostTypeOK' /\ UNCHANGED <<script, request, Finished, ResetCall>>
  <2>1. TypeOK'
    BY WhatIsKnown, TypeStep DEF TypeInv
  <2>2. attempt' \in 0 .. RETRIES /\ reply' \in Answers \cup {None}
    BY <1>1, WhatIsKnown DEF HostTypeOK
  <2>3. QED
    BY <1>1, <2>1, <2>2, WhatIsKnown, SameCall
<1>3. OnlyHostCommands'
  BY <1>1, WhatIsKnown DEF OnlyHostCommands
<1>4. OneAtATime'
  BY <1>1, <1>2, WhatIsKnown DEF OneAtATime
<1>5. ReplyStillTrue' /\ ReadSoFar'
  BY <1>1, <1>2, StillTrue
<1>6. QED
  BY <1>2, <1>3, <1>4, <1>5 DEF HostInv

\* _transact() sends a request.
LEMMA CallInv ==
  ASSUME SystemInv, [Next]_vars, HostCall
  PROVE  HostInv'
<1>1. /\ session # "none" /\ ~Finished /\ pc = "loop" /\ inbox = None /\ reply = None
      /\ inbox' = request /\ attempt < RETRIES /\ attempt' = attempt + 1
      /\ UNCHANGED <<pc, req, a19, usb, session, image, step, reply, data, clean, told>>
  BY DEF HostCall, Silent, fwVars
<1>2. HostTypeOK' /\ UNCHANGED <<script, request, Finished, ResetCall>>
  <2>1. TypeOK'
    BY WhatIsKnown, TypeStep DEF TypeInv
  <2>2. attempt' \in 0 .. RETRIES /\ reply' \in Answers \cup {None}
    BY <1>1, WhatIsKnown, ChunksFill DEF HostTypeOK
  <2>3. QED
    BY <1>1, <2>1, <2>2, WhatIsKnown, SameCall
<1>3. OnlyHostCommands'
  BY <1>1, WhatIsKnown, Requested DEF OnlyHostCommands
<1>4. OneAtATime'
  BY <1>1, <1>2, WhatIsKnown DEF OneAtATime
<1>5. ReplyStillTrue' /\ ReadSoFar'
  BY <1>1, <1>2, StillTrue
<1>6. QED
  BY <1>2, <1>3, <1>4, <1>5 DEF HostInv

\* The answer of the firmware, delivered or lost: it is the session's own.
LEMMA DeliverInv ==
  ASSUME SystemInv, [Next]_vars, Deliver
  PROVE  HostInv'
<1>1. /\ pc = "respond" /\ bus = <<>> /\ req' = None /\ reply' \in {None, answer}
      /\ session = "none" => reply' = None
      /\ UNCHANGED <<mode, mem, a19, usb, inbox, session, image, step, attempt, data,
                     clean, told>>
      /\ pc' = IF req.cmd = "AVR_RESET" /\ answer.status = "OK" THEN "reset" ELSE "loop"
  BY DEF Deliver, SendResponse, At, chipVars, envVars
<1>2. req \in Requests /\ req # None /\ req.cmd \in HostCommands /\ inbox = None
  <2>1. req \in Requests
    BY <1>1, WhatIsKnown DEF TypeInv, Locals
  <2>2. QED
    BY <1>1, <2>1, WhatIsKnown, RequestsAssumption DEF OnlyHostCommands, OneAtATime
<1>3. pc' = "loop"
  BY <1>1, <1>2 DEF HostCommands
<1>4. session # "none" => ~Finished /\ req = request
  BY <1>2, WhatIsKnown DEF OneAtATime
<1>5. HostTypeOK' /\ UNCHANGED <<script, request, Finished, ResetCall>>
  <2>1. TypeOK'
    BY WhatIsKnown, TypeStep DEF TypeInv
  <2>2. attempt' \in 0 .. RETRIES /\ reply' \in Answers \cup {None}
    BY <1>1, WhatIsKnown DEF HostTypeOK, TypeOK
  <2>3. QED
    BY <1>1, <2>1, <2>2, WhatIsKnown, SameCall
<1>6. OnlyHostCommands'
  BY <1>1, WhatIsKnown DEF OnlyHostCommands
<1>7. OneAtATime'
  BY <1>1, <1>2, <1>3, <1>4, <1>5, WhatIsKnown DEF OneAtATime
<1>8. ReplyStillTrue'
  <2>1. ASSUME reply' # None, reply'.status = "OK",
               request.cmd \in {"READ", "FLASH_RESET"}
        PROVE  /\ Ready
               /\ request.cmd = "READ" => reply'.data =
                    [j \in 1 .. request.len |-> mem[Cell(request.addr + j - 1)]]
    <3>1. reply' = answer /\ req = request
      BY <1>1, <1>4, <2>1
    <3>2. Answering({"READ", "FLASH_RESET"}) /\ (req.cmd = "READ" => Answering({"READ"}))
      BY <1>1, <2>1, <3>1 DEF Answering
    <3>3. QED
      BY <3>1, <3>2, WhatIsKnown DEF AnswersTrue
  <2>2. \A n : Cell(n)' = Cell(n)
    BY <1>1 DEF Cell
  <2>3. Ready' = Ready /\ mem' = mem /\ request' = request
    BY <1>1, <1>5 DEF Ready
  <2>4. QED
    BY <2>1, <2>2, <2>3 DEF ReplyStillTrue
<1>9. ReadSoFar'
  BY <1>1, <1>5, StillTrue
<1>10. QED
  BY <1>5, <1>6, <1>7, <1>8, <1>9 DEF HostInv

\* close(): what is left is the firmware's business.
LEMMA EndInv ==
  ASSUME SystemInv, TypeOK', EndSession, OnlyHostCommands',
         pc' # "loop" => inbox' = None, pc' \in {"boot", "loop"} => req' = None,
         pc' # "reset", told' \in [slot: {0, 1}, image: Images \cup {None}]
  PROVE  HostInv'
<1>1. /\ session' = "none" /\ step' = 1 /\ attempt' = 0 /\ reply' = None
      /\ data' = <<>> /\ clean' = FALSE /\ image' = image
  BY DEF EndSession
<1>2. Len(script') = 0
  BY <1>1 DEF script, Script
<1>3. <<>> \in Seq(Readings) /\ Len(<<>>) = 0 /\ Len(<<>>) <= SlotWords
  BY ChunksFill
<1>4. HostTypeOK'
  <2>1. image' \in Images
    BY <1>1, WhatIsKnown DEF HostTypeOK
  <2>2. step' \in 1 .. Len(script') + 1 /\ attempt' \in 0 .. RETRIES
    BY <1>1, <1>2, ChunksFill
  <2>3. QED
    BY <1>1, <1>3, <2>1, <2>2 DEF HostTypeOK
<1>5. OneAtATime' /\ ReplyStillTrue' /\ ReadSoFar'
  BY <1>1 DEF OneAtATime, ReplyStillTrue, ReadSoFar
<1>6. QED
  BY <1>4, <1>5 DEF HostInv

\* A session that ends where the host sees nothing but its own state.
LEMMA HostEndsInv ==
  ASSUME SystemInv, UNCHANGED vars, EndSession,
         told' = told \/ told' = [slot |-> a19, image |-> image]
  PROVE  HostInv'
<1>1. UNCHANGED <<pc, req, inbox, a19>> /\ TypeOK'
  BY WhatIsKnown, TypeStep DEF vars, fwVars, envVars, TypeInv
<1>2. OnlyHostCommands'
  BY <1>1, WhatIsKnown DEF OnlyHostCommands
<1>3. told' \in [slot: {0, 1}, image: Images \cup {None}]
  BY WhatIsKnown DEF HostTypeOK, TypeOK
<1>4. QED
  BY <1>1, <1>2, <1>3, WhatIsKnown, EndInv DEF OneAtATime

\* The cable or the supply ends it.
LEMMA CutInv ==
  ASSUME SystemInv, [Next]_vars, Cable \/ Supply
  PROVE  HostInv'
<1>1. EndSession /\ told' = told /\ inbox' = None
  BY DEF Cable, Supply, UsbChange, PowerLoss, Restart
<1>2. \/ UNCHANGED <<pc, req>>
      \/ pc' = "boot" /\ req' = None
  BY DEF Cable, Supply, UsbChange, PowerLoss, Restart, fwVars
<1>3. TypeOK' /\ told' \in [slot: {0, 1}, image: Images \cup {None}]
  BY <1>1, WhatIsKnown, TypeStep DEF TypeInv, HostTypeOK
<1>4. OnlyHostCommands'
  BY <1>1, <1>2, WhatIsKnown DEF OnlyHostCommands
<1>5. QED
  BY <1>1, <1>2, <1>3, <1>4, WhatIsKnown, EndInv DEF OneAtATime

\* J2 is moved between sessions.
LEMMA SwitchInv ==
  ASSUME SystemInv, [Next]_vars, Switch
  PROVE  HostInv'
<1>1. /\ session = "none" /\ pc' = pc
      /\ UNCHANGED <<req, inbox, usb, session, image, step, attempt, reply, data, clean,
                     told>>
  BY DEF Switch, MoveSwitch, hostVars, fwVars
<1>2. HostTypeOK' /\ UNCHANGED <<script, request, Finished, ResetCall>>
  <2>1. TypeOK'
    BY WhatIsKnown, TypeStep DEF TypeInv
  <2>2. attempt' \in 0 .. RETRIES /\ reply' \in Answers \cup {None}
    BY <1>1, WhatIsKnown DEF HostTypeOK
  <2>3. QED
    BY <1>1, <2>1, <2>2, WhatIsKnown, SameCall
<1>3. OnlyHostCommands' /\ OneAtATime'
  BY <1>1, <1>2, WhatIsKnown DEF OnlyHostCommands, OneAtATime
<1>4. reply = None
  BY <1>1, WhatIsKnown DEF OneAtATime
<1>5. ReplyStillTrue' /\ ReadSoFar'
  BY <1>1, <1>4, WhatIsKnown DEF ReplyStillTrue, ReadSoFar
<1>6. QED
  BY <1>2, <1>3, <1>5 DEF HostInv

\* main() is called: the script is at its first call, nothing has been read.
LEMMA StartInv ==
  ASSUME SystemInv, StartSession
  PROVE  HostInv'
<1>1. /\ session' \in Sessions /\ image' \in Images /\ session' # "none"
      /\ usb /\ pc = "loop" /\ inbox = None /\ step' = 1 /\ attempt' = 0
      /\ reply' = None /\ data' = <<>> /\ clean' = Ready /\ told' = NothingTold
      /\ UNCHANGED <<pc, req, inbox, usb>>
  BY HostAssumption DEF StartSession, vars, fwVars, envVars
<1>2. /\ Len(script') \in Nat
      /\ session' \in {"write", "verify"} => ResetCall' \in 1 .. Len(script')
  <2>1. script' = Script(session', image')
    BY DEF script
  <2>2. ResetCall' = Len(script') - Len(Verify) + 1
    BY DEF ResetCall
  <2>3. QED
    BY <1>1, <2>1, <2>2, ScriptCalls
<1>3. TypeOK'
  BY WhatIsKnown, TypeStep DEF StartSession, TypeInv
<1>4. HostTypeOK'
  <2>1. <<>> \in Seq(Readings) /\ Len(<<>>) = 0 /\ RETRIES \in Nat /\ SlotWords \in Nat
    BY ChunksFill
  <2>2. told' \in [slot: {0, 1}, image: Images \cup {None}] /\ clean' \in BOOLEAN
    BY <1>1 DEF NothingTold, Ready
  <2>3. QED
    BY <1>1, <1>2, <1>3, <2>1, <2>2 DEF HostTypeOK
<1>5. OnlyHostCommands' /\ OneAtATime'
  BY <1>1, WhatIsKnown DEF OnlyHostCommands, OneAtATime
<1>6. ReplyStillTrue' /\ ReadSoFar'
  BY <1>1, <1>2 DEF ReplyStillTrue, ReadSoFar
<1>7. QED
  BY <1>4, <1>5, <1>6 DEF HostInv

\* The first words of the selected slot.
FlashWords(n) == [j \in 1 .. n |-> mem[Cell(j - 1)]]
LEMMA FlashWordsType ==
  ASSUME TypeOK, NEW n \in Nat
  PROVE  FlashWords(n) \in Seq(Readings) /\ Len(FlashWords(n)) = n
<1>1. ASSUME NEW j \in 1 .. n PROVE FlashWords(n)[j] \in Readings
  <2>1. Cell(j - 1) \in Cells
    BY CellType DEF TypeOK
  <2>2. QED
    BY <2>1 DEF FlashWords, TypeOK, ChipTypeOK, Readings
<1>2. FlashWords(n) = [j \in 1 .. n |-> FlashWords(n)[j]]
  BY DEF FlashWords
<1>3. QED
  BY <1>1, <1>2, ListOf

\* One chunk more of them.
LEMMA OneChunkMore ==
  ASSUME TypeOK, NEW a \in Nat, NEW n \in Nat, NEW chunk,
         chunk = [j \in 1 .. n |-> mem[Cell(a + j - 1)]]
  PROVE  FlashWords(a) \o chunk = FlashWords(a + n)
<1>1. /\ FlashWords(a) \in Seq(Readings) /\ Len(FlashWords(a)) = a
      /\ FlashWords(a + n) \in Seq(Readings) /\ Len(FlashWords(a + n)) = a + n
  BY FlashWordsType
<1>2. chunk \in Seq(Readings) /\ Len(chunk) = n
  <2>1. ASSUME NEW j \in 1 .. n PROVE chunk[j] \in Readings
    <3>1. a + j - 1 \in Nat /\ chunk[j] = mem[Cell(a + j - 1)]
      OBVIOUS
    <3>2. Cell(a + j - 1) \in Cells
      BY <3>1, CellType DEF TypeOK
    <3>3. QED
      BY <3>1, <3>2 DEF TypeOK, ChipTypeOK, Readings
  <2>2. chunk = [j \in 1 .. n |-> chunk[j]]
    OBVIOUS
  <2>3. QED
    BY <2>1, <2>2, ListOf
<1> DEFINE both == FlashWords(a) \o chunk
<1>3. /\ both \in Seq(Readings)
      /\ Len(both) = Len(FlashWords(a)) + Len(chunk)
      /\ \A k \in 1 .. Len(FlashWords(a)) + Len(chunk) : both[k] =
           IF k <= Len(FlashWords(a)) THEN FlashWords(a)[k]
           ELSE chunk[k - Len(FlashWords(a))]
  BY <1>1, <1>2, ConcatProperties
<1> HIDE DEF both
<1>4. ASSUME NEW k \in 1 .. a + n PROVE both[k] = FlashWords(a + n)[k]
  <2>1. FlashWords(a + n)[k] = mem[Cell(k - 1)]
    BY DEF FlashWords
  <2>2. both[k] = IF k <= a THEN FlashWords(a)[k] ELSE chunk[k - a]
    BY <1>1, <1>2, <1>3
  <2>3. CASE k <= a
    <3>1. k \in 1 .. a
      BY <2>3
    <3>2. FlashWords(a)[k] = mem[Cell(k - 1)]
      BY <3>1 DEF FlashWords
    <3>3. QED
      BY <2>1, <2>2, <2>3, <3>2
  <2>4. CASE ~(k <= a)
    <3>1. k - a \in 1 .. n /\ a + (k - a) - 1 = k - 1
      BY <2>4
    <3>2. chunk[k - a] = mem[Cell(k - 1)]
      BY <3>1
    <3>3. QED
      BY <2>1, <2>2, <2>4, <3>2
  <2>5. QED
    BY <2>3, <2>4
<1>5. both = FlashWords(a + n)
  BY <1>1, <1>2, <1>3, <1>4, SeqEqual
<1>6. QED
  BY <1>5 DEF both

\* verify() never reads more than the slot.
LEMMA NoMoreThanSlot ==
  ASSUME NEW n \in 0 .. NumChunks
  PROVE  n * CHUNK_WORDS \in Nat /\ n * CHUNK_WORDS <= SlotWords
<1>1. /\ NumChunks \in Nat /\ CHUNK_WORDS \in Nat
      /\ NumChunks * CHUNK_WORDS = SlotWords
  BY ChunksFill
<1>2. PICK d \in Nat : NumChunks = n + d
  BY <1>1
<1>3. NumChunks * CHUNK_WORDS = (n * CHUNK_WORDS) + (d * CHUNK_WORDS)
  BY <1>1, <1>2
<1>4. n * CHUNK_WORDS \in Nat /\ d * CHUNK_WORDS \in Nat
  BY <1>1
<1>5. QED
  BY <1>1, <1>3, <1>4

\* An answer that lets the session go on: what it adds to what has been read is what
\* the slot holds.
LEMMA PassReads ==
  ASSUME SystemInv, session # "none", reply # None, Passes,
         UNCHANGED <<vars, session, image>>, step' = step + 1,
         data' = IF Verifying THEN data \o reply.data ELSE data
  PROVE  /\ ReadSoFar'
         /\ data' \in Seq(Readings) /\ Len(data') \in 0 .. SlotWords
<1>1. /\ ~Finished /\ step \in 1 .. Len(script) /\ Len(script) \in Nat
      /\ session \in {"write", "erase", "verify"}
  <2>1. ~Finished
    BY WhatIsKnown DEF OneAtATime
  <2>2. QED
    BY <2>1, Requested, WhatIsKnown, HostAssumption
<1>2. /\ UNCHANGED <<ResetCall, mem, a19, Ready>>
      /\ \A n : Cell(n)' = Cell(n)
  BY DEF ResetCall, script, Cell, Ready, vars, chipVars, envVars
<1>3. <<>> \in Seq(Readings) /\ Len(<<>>) \in 0 .. SlotWords
  BY ChunksFill
<1>4. CASE session \in {"write", "verify"} /\ step > ResetCall
  <2>1. /\ request = Ask("READ", (step - ResetCall - 1) * CHUNK_WORDS, CHUNK_WORDS, <<>>)
        /\ ResetCall \in 1 .. Len(script) /\ Len(script) = ResetCall + NumChunks
    BY <1>1, <1>4, Requested, WhatIsKnown
  <2>2. PICK k \in Nat : k = step - ResetCall - 1 /\ k + 1 \in 0 .. NumChunks
                         /\ k + 1 = step' - ResetCall - 1 /\ step' > ResetCall
    BY <1>1, <1>4, <2>1, ChunksFill
  <2>3. /\ request.cmd = "READ" /\ request.addr = k * CHUNK_WORDS
        /\ request.len = CHUNK_WORDS
    BY <2>1, <2>2 DEF Ask
  <2>4. Ready /\ data = FlashWords(k * CHUNK_WORDS)
    BY <1>4, <2>2, WhatIsKnown DEF ReadSoFar, FlashWords
  <2>5. reply.data = [j \in 1 .. CHUNK_WORDS |-> mem[Cell((k * CHUNK_WORDS) + j - 1)]]
    BY <2>3, WhatIsKnown DEF ReplyStillTrue, Passes
  <2>6. Verifying
    BY <1>1, <1>4, <2>1, <2>3, VerifyCalls, ChunksFill DEF Verifying, ResetCall
  <2>7. data' = FlashWords((k + 1) * CHUNK_WORDS)
    <3>1. PICK a \in Nat : a = k * CHUNK_WORDS /\ (k + 1) * CHUNK_WORDS = a + CHUNK_WORDS
      BY ChunksFill
    <3>2. FlashWords(a) \o reply.data = FlashWords(a + CHUNK_WORDS)
      BY <2>5, <3>1, OneChunkMore, WhatIsKnown, ChunksFill
    <3>3. QED
      BY <2>4, <2>6, <3>1, <3>2
  <2>8. ReadSoFar'
    <3>1. /\ session' \in {"write", "verify"} /\ step' > ResetCall' /\ Ready'
          /\ k + 1 = step' - ResetCall' - 1
      BY <1>2, <1>4, <2>2, <2>4
    <3>2. data' = [j \in 1 .. (step' - ResetCall' - 1) * CHUNK_WORDS |-> mem'[Cell(j - 1)']]
      BY <1>2, <2>7, <3>1 DEF FlashWords
    <3>3. QED
      BY <3>1, <3>2 DEF ReadSoFar
  <2>9. (k + 1) * CHUNK_WORDS \in Nat /\ (k + 1) * CHUNK_WORDS <= SlotWords
    BY <2>2, NoMoreThanSlot
  <2>10. data' \in Seq(Readings) /\ Len(data') = (k + 1) * CHUNK_WORDS
    BY <2>7, <2>9, FlashWordsType, WhatIsKnown
  <2>11. QED
    BY <2>8, <2>9, <2>10, ChunksFill
<1>5. CASE session \in {"write", "verify"} /\ step = ResetCall
  <2>1. request.cmd = "FLASH_RESET"
    <3>1. request = Reset
      BY <1>5, Requested, WhatIsKnown
    <3>2. QED
      BY <3>1 DEF Reset, Ask
  <2>2. Ready /\ data' = data
    BY <2>1, WhatIsKnown DEF ReplyStillTrue, Passes, Verifying
  <2>3. data = <<>> /\ step' - ResetCall - 1 = 0 /\ step' > ResetCall
    BY <1>1, <1>5, WhatIsKnown DEF ReadSoFar
  <2>4. ReadSoFar'
    <3>1. /\ session' \in {"write", "verify"} /\ step' > ResetCall' /\ Ready'
          /\ (step' - ResetCall' - 1) * CHUNK_WORDS = 0
      BY <1>2, <1>5, <2>2, <2>3, ChunksFill
    <3>2. data' = [j \in 1 .. (step' - ResetCall' - 1) * CHUNK_WORDS |-> mem'[Cell(j - 1)']]
      BY <2>2, <2>3, <3>1
    <3>3. QED
      BY <3>1, <3>2 DEF ReadSoFar
  <2>5. QED
    BY <1>3, <2>2, <2>3, <2>4
<1>6. CASE ~(session \in {"write", "verify"} /\ step >= ResetCall)
  <2>1. session \in {"write", "verify"} => ResetCall \in Nat /\ step < ResetCall
    BY <1>1, <1>6, Requested, WhatIsKnown
  <2>2. data = <<>> /\ ~Verifying
    BY <1>1, <2>1, WhatIsKnown, VerifyCalls, ChunksFill
    DEF ReadSoFar, Verifying, ResetCall
  <2>3. ~(session' \in {"write", "verify"} /\ step' > ResetCall')
    BY <1>1, <1>2, <2>1
  <2>4. QED
    BY <1>3, <2>2, <2>3 DEF ReadSoFar
<1>7. QED
  <2>1. session \in {"write", "verify"} => ResetCall \in Nat
    BY Requested, WhatIsKnown
  <2>2. QED
    BY <1>1, <1>4, <1>5, <1>6, <2>1

\* The caller of _transact() goes on, asks again, or raises an exception.
LEMMA ReplyInv ==
  ASSUME SystemInv, HostReply
  PROVE  HostInv'
<1>1. session # "none" /\ reply # None /\ UNCHANGED <<vars, told>>
  BY DEF HostReply
<1>2. /\ ~Finished /\ pc = "loop" /\ req = None /\ inbox = None /\ usb
      /\ UNCHANGED <<pc, req, inbox, usb>> /\ TypeOK'
  BY <1>1, WhatIsKnown, TypeStep DEF OneAtATime, vars, fwVars, envVars, TypeInv
<1>3. OnlyHostCommands'
  BY <1>2 DEF OnlyHostCommands
<1>4. CASE EndSession
  BY <1>1, <1>4, HostEndsInv
<1>5. CASE /\ attempt' = 0 /\ reply' = None
           /\ UNCHANGED <<session, image, step, data, clean>>
  <2>1. HostTypeOK' /\ UNCHANGED <<script, request, Finished, ResetCall>>
    BY <1>1, <1>2, <1>5, WhatIsKnown, SameCall, ChunksFill
  <2>2. ReadSoFar'
    <3>1. a19' = a19
      BY <1>1 DEF vars, envVars
    <3>2. QED
      BY <1>1, <1>5, <2>1, <3>1, StillTrue
  <2>3. OneAtATime' /\ ReplyStillTrue'
    BY <1>2, <1>5, <2>1 DEF OneAtATime, ReplyStillTrue
  <2>4. QED
    BY <1>3, <2>1, <2>2, <2>3 DEF HostInv
<1>6. CASE /\ Passes /\ step' = step + 1
           /\ data' = IF Verifying THEN data \o reply.data ELSE data
           /\ attempt' = 0 /\ reply' = None /\ UNCHANGED <<session, image, clean>>
  <2>1. /\ ReadSoFar'
        /\ data' \in Seq(Readings) /\ Len(data') \in 0 .. SlotWords
    BY <1>1, <1>6, PassReads
  <2>2. script' = script /\ step \in 1 .. Len(script) /\ Len(script) \in Nat
    BY <1>1, <1>2, <1>6, Requested, WhatIsKnown DEF script
  <2>3. HostTypeOK'
    <3>1. step' \in 1 .. Len(script') + 1
      BY <1>6, <2>2
    <3>2. attempt' \in 0 .. RETRIES /\ Len(data') <= SlotWords
      BY <1>6, <2>1, ChunksFill
    <3>3. QED
      BY <1>1, <1>2, <1>6, <2>1, <3>1, <3>2, WhatIsKnown DEF HostTypeOK
  <2>4. OneAtATime' /\ ReplyStillTrue'
    BY <1>2, <1>6 DEF OneAtATime, ReplyStillTrue
  <2>5. QED
    BY <1>3, <2>1, <2>3, <2>4 DEF HostInv
<1>7. QED
  BY <1>4, <1>5, <1>6 DEF HostReply

\* The host at power-up.
LEMMA InitHost == MeggyInit => SystemInv
<1> SUFFICES ASSUME MeggyInit PROVE SystemInv
  OBVIOUS
<1>1. IInv /\ DataInv
  BY InitType, InitControl, InitData DEF MeggyInit, IInv, TypeInv, Control
<1>2. /\ session = "none" /\ step = 1 /\ attempt = 0 /\ reply = None /\ data = <<>>
      /\ clean = FALSE /\ told = NothingTold /\ image \in Images
      /\ pc = "boot" /\ req = None /\ inbox = None
  BY DEF MeggyInit, Init
<1>3. HostTypeOK
  <2>1. Len(script) = 0
    BY <1>2 DEF script, Script
  <2>2. <<>> \in Seq(Readings) /\ Len(<<>>) = 0 /\ Len(<<>>) <= SlotWords
    BY ChunksFill
  <2>3. step \in 1 .. Len(script) + 1 /\ attempt \in 0 .. RETRIES
    BY <1>2, <2>1, ChunksFill
  <2>4. told \in [slot: {0, 1}, image: Images \cup {None}] /\ clean \in BOOLEAN
    BY <1>2 DEF NothingTold
  <2>5. QED
    BY <1>1, <1>2, <2>2, <2>3, <2>4 DEF HostTypeOK, IInv
<1>4. OnlyHostCommands /\ OneAtATime /\ ReplyStillTrue /\ ReadSoFar
  BY <1>2 DEF OnlyHostCommands, OneAtATime, ReplyStillTrue, ReadSoFar
<1>5. QED
  BY <1>1, <1>3, <1>4 DEF SystemInv, HostInv

\* Nothing happens.
LEMMA StutterInv ==
  ASSUME SystemInv, UNCHANGED allVars
  PROVE  HostInv'
<1>1. /\ UNCHANGED <<pc, req, inbox, usb, a19>> /\ UNCHANGED vars
      /\ UNCHANGED <<session, image, step, attempt, reply, data, clean, told>>
  BY DEF allVars, vars, fwVars, envVars, hostVars
<1>2. TypeOK'
  BY <1>1, WhatIsKnown, TypeStep DEF TypeInv
<1>3. HostTypeOK' /\ UNCHANGED <<script, request, Finished, ResetCall>>
  <2>1. attempt' \in 0 .. RETRIES /\ reply' \in Answers \cup {None}
    BY <1>1, WhatIsKnown DEF HostTypeOK
  <2>2. QED
    BY <1>1, <1>2, <2>1, WhatIsKnown, SameCall
<1>4. OnlyHostCommands' /\ OneAtATime'
  BY <1>1, <1>3, WhatIsKnown DEF OnlyHostCommands, OneAtATime
<1>5. ReplyStillTrue' /\ ReadSoFar'
  BY <1>1, <1>3, StillTrue
<1>6. QED
  BY <1>3, <1>4, <1>5 DEF HostInv

\* Every step of host, firmware and surroundings keeps what is known of them.
LEMMA SystemStep ==
  ASSUME SystemInv, [MeggyNext]_allVars
  PROVE  SystemInv'
<1>1. [Next]_vars
  BY FirmwareStep DEF SystemInv
<1>2. IInv' /\ DataInv'
  <2>1. TypeInv' /\ Control'
    BY <1>1, WhatIsKnown, TypeStep, ControlStep DEF Known
  <2>2. OnTheWay' /\ Decoder' /\ (Excused \/ Carried)' /\ AnswersTrue'
    BY <1>1, WhatIsKnown, OnTheWayStep, DecoderStep, CarriedStep, AnswersStep
    DEF SystemInv, DataInv
  <2>3. QED
    BY <2>1, <2>2 DEF IInv, DataInv, TypeInv, Control
<1>3. HostInv'
  <2>1. CASE StartSession
    BY <2>1, StartInv
  <2>2. CASE Host
    <3>1. CASE HostCall
      BY <1>1, <3>1, CallInv
    <3>2. CASE HostGivesUp
      BY <3>2, HostEndsInv DEF HostGivesUp
    <3>3. CASE HostReply
      BY <3>3, ReplyInv
    <3>4. CASE HostDone
      BY <3>4, HostEndsInv DEF HostDone
    <3>5. QED
      BY <2>2, <3>1, <3>2, <3>3, <3>4 DEF Host
  <2>3. CASE Abort
    BY <2>3, HostEndsInv DEF Abort
  <2>4. CASE Deliver
    BY <1>1, <2>4, DeliverInv
  <2>5. CASE Run \/ Chip
    BY <1>1, <2>5, RunInv
  <2>6. CASE Switch
    BY <1>1, <2>6, SwitchInv
  <2>7. CASE Cable \/ Supply
    BY <1>1, <2>7, CutInv
  <2>8. CASE UNCHANGED allVars
    BY <2>8, StutterInv
  <2>9. QED
    BY <2>1, <2>2, <2>3, <2>4, <2>5, <2>6, <2>7, <2>8 DEF MeggyNext
<1>4. QED
  BY <1>2, <1>3 DEF SystemInv

\* What the host believes of the flash is so: an answer that waits for it is still true,
\* and what verify() has read is what the slot holds, whatever happened before
\* (meggy_flash.py:439-457).
THEOREM HostIsRight == MeggySpec => []HostInv
<1>1. SystemInv => HostInv
  BY DEF SystemInv
<1>2. QED
  BY InitHost, SystemStep, <1>1, PTL DEF MeggySpec

\* The host's variables, and the firmware's under it, have their types; verify() never
\* reads past the slot.
THEOREM HostTypeCorrect == MeggySpec => []HostTypeOK
<1>1. HostInv => HostTypeOK
  BY DEF HostInv
<1>2. QED
  BY HostIsRight, <1>1, PTL

-----------------------------------------------------------------------------
(* The store.                                                              *)

\* The store's slots are the chip's halves, and A19 selects one.
LEMMA SlotReached ==
  ASSUME a19 \in {0, 1}
  PROVE  SelectedSlot \subseteq Store!Slot(a19)
<1>1. SlotWords \in Nat \ {0}
  BY SlotAssumption
<1>2. ASSUME NEW a \in 0 .. SlotWords - 1
      PROVE  Cell(a) \in Store!Slot(a19)
  <2>1. a % SlotWords = a
    BY <1>1
  <2>2. CASE a19 = 0
    BY <1>1, <2>1, <2>2 DEF Cell, Store!Slot
  <2>3. CASE a19 = 1
    BY <1>1, <2>1, <2>3 DEF Cell, Store!Slot
  <2>4. QED
    BY <2>2, <2>3
<1>3. QED
  BY <1>2 DEF SelectedSlot

\* The store begins as the system does, with any flash and nothing loose.
LEMMA StoreInit == MeggyInit => Store!Init
<1> SUFFICES ASSUME MeggyInit PROVE Store!Init
  OBVIOUS
<1>1. mem \in [Cells -> Contents] /\ a19 \in {0, 1}
  BY InitType DEF MeggyInit, TypeInv, TypeOK, ChipTypeOK
<1>2. job.cells = {} /\ req = None /\ inbox = None
  BY DEF MeggyInit, Init, ChipInit, NoJob
<1>3. Loose = {}
  BY <1>2 DEF Loose, InFlight
<1>4. Store!Cells = Cells
  BY DEF Store!Cells, Cells, FLASH_SIZE_WORDS
<1>5. QED
  BY <1>1, <1>3, <1>4 DEF MeggyInit, Store!Init, NothingTold, Store!NothingTold

\* Whatever the firmware and the chip do, they touch the cells of the requests under
\* way and of the chip's work only, as long as J2 stays.
LEMMA TouchesReach ==
  ASSUME SystemInv, [Next]_vars, a19' = a19, {req', inbox'} \subseteq {req, inbox, None}
  PROVE  Store!Touch
<1>1. /\ \/ job'.cells \subseteq job.cells
         \/ InFlight(req) /\ job'.cells \subseteq SelectedSlot
      /\ \A c \in Cells : mem'[c] # mem[c] => c \in job.cells
  BY WhatIsKnown, ChipWork
<1>2. mem' \in [Cells -> Contents] /\ Store!Cells = Cells
  BY WhatIsKnown, TypeStep
  DEF TypeInv, TypeOK, ChipTypeOK, Store!Cells, Cells, FLASH_SIZE_WORDS
<1>3. InFlight(req)' \/ InFlight(inbox)' => InFlight(req) \/ InFlight(inbox)
  BY DEF InFlight
<1>4. SelectedSlot' = SelectedSlot
  BY DEF SelectedSlot, Cell
<1>5. Loose' \subseteq Loose /\ job.cells \subseteq Loose
  BY <1>1, <1>3, <1>4 DEF Loose
<1>6. QED
  BY <1>1, <1>2, <1>5 DEF Store!Touch, Store!Reach

\* A request goes out only from a session that may change its slot.
LEMMA CallTouchesReach ==
  ASSUME SystemInv, HostCall
  PROVE  Store!Touch
<1>1. /\ session # "none" /\ ~Finished /\ pc = "loop" /\ inbox' = request
      /\ UNCHANGED <<mem, job, req, a19>>
  BY DEF HostCall, Silent, chipVars, fwVars
<1>2. req = None /\ (InFlight(request) => session \in {"write", "erase"})
  BY <1>1, WhatIsKnown, Requested DEF OneAtATime
<1>3. SelectedSlot' = SelectedSlot /\ SelectedSlot \subseteq Store!Slot(a19)
  <2>1. a19 \in {0, 1}
    BY WhatIsKnown DEF TypeOK
  <2>2. QED
    BY <1>1, <2>1, SlotReached DEF SelectedSlot, Cell
<1>4. Loose' \subseteq job.cells \cup IF InFlight(request) THEN SelectedSlot ELSE {}
  BY <1>1, <1>2, <1>3 DEF Loose, InFlight
<1>5. Loose' \subseteq Store!Reach
  BY <1>2, <1>3, <1>4 DEF Store!Reach, Loose
<1>6. mem' \in [Cells -> Contents] /\ Store!Cells = Cells
  BY <1>1, WhatIsKnown DEF TypeOK, ChipTypeOK, Store!Cells, Cells, FLASH_SIZE_WORDS
<1>7. QED
  BY <1>1, <1>5, <1>6 DEF Store!Touch

\* "Verify OK": the chip is idle and holds the image, and no request is under way that
\* could change it.
LEMMA DoneVerified ==
  ASSUME SystemInv, Finished, session \in {"write", "verify"}, VerifyOk
  PROVE  Loose = {} /\ Store!Holds(a19, image)
<1>1. /\ Len(script) \in Nat /\ step = Len(script) + 1
      /\ ResetCall \in 1 .. Len(script) /\ Len(script) = ResetCall + NumChunks
  BY WhatIsKnown, Requested DEF Finished, HostTypeOK
<1>2. step > ResetCall /\ step - ResetCall - 1 = NumChunks
  BY <1>1, ChunksFill
<1>3. Ready /\ data = [j \in 1 .. SlotWords |-> mem[Cell(j - 1)]]
  BY <1>2, WhatIsKnown, ChunksFill DEF ReadSoFar
<1>4. Loose = {}
  <2>1. req = None /\ inbox = None
    BY WhatIsKnown DEF OneAtATime
  <2>2. job.cells = {}
    BY <1>3, WhatIsKnown DEF Decoder, NoJob
  <2>3. QED
    BY <2>1, <2>2 DEF Loose, InFlight
<1>5. /\ image \in [0 .. SlotWords - 1 -> Words] /\ a19 \in {0, 1}
      /\ SlotWords \in Nat \ {0}
  BY WhatIsKnown, HostAssumption, SlotAssumption DEF HostTypeOK, TypeOK
<1>6. ASSUME NEW a \in DOMAIN image
      PROVE  mem[(a19 * SlotWords) + a] = image[a]
  <2>1. a \in 0 .. SlotWords - 1 /\ a + 1 \in 1 .. SlotWords /\ (a + 1) - 1 = a
    BY <1>5
  <2>2. data[a + 1] = mem[Cell(a)]
    BY <1>3, <2>1
  <2>3. Cell(a) = (a19 * SlotWords) + a
    BY <1>5, <2>1 DEF Cell
  <2>4. QED
    BY <2>1, <2>2, <2>3 DEF VerifyOk
<1>7. QED
  BY <1>4, <1>6 DEF Store!Holds

\* Each step of the system is one of the store, or none.
LEMMA StoreStep ==
  ASSUME SystemInv, [MeggyNext]_allVars
  PROVE  [Store!Next]_(Store!vars)
<1> USE DEF Store!Next, Store!vars
<1>1. [Next]_vars /\ session \in {"write", "erase", "verify", "none"}
  BY FirmwareStep, HostAssumption DEF SystemInv, HostInv, HostTypeOK
<1>2. ASSUME EndSession, told' = told, a19' = a19,
             {req', inbox'} \subseteq {req, inbox, None}
      PROVE  [Store!Next]_(Store!vars)
  <2>1. Store!Touch
    BY <1>1, <1>2, TouchesReach
  <2>2. QED
    BY <1>2, <2>1 DEF EndSession, Store!End, Store!Work
<1>3. UNCHANGED vars => UNCHANGED <<mem, job, req, inbox, a19, Loose>>
  BY DEF vars, chipVars, fwVars, envVars, Loose, InFlight, SelectedSlot, Cell
<1>4. CASE StartSession
  BY <1>3, <1>4, HostAssumption
  DEF StartSession, Store!Start, Store!Kinds, NothingTold, Store!NothingTold
<1>5. CASE HostCall
  BY <1>5, CallTouchesReach DEF HostCall, Store!Work
<1>6. CASE HostGivesUp \/ Abort
  BY <1>2, <1>3, <1>6 DEF HostGivesUp, Abort
<1>7. CASE HostReply
  <2>1. CASE EndSession
    BY <1>2, <1>3, <1>7, <2>1 DEF HostReply
  <2>2. CASE UNCHANGED <<session, image>>
    BY <1>3, <1>7, <2>2 DEF HostReply
  <2>3. QED
    BY <1>7, <2>1, <2>2 DEF HostReply
<1>8. CASE HostDone
  <2>1. CASE session # "erase" /\ VerifyOk
    <3>1. session \in {"write", "verify"} /\ Finished
      BY <1>1, <1>8, <2>1 DEF HostDone, Finished
    <3>2. Loose = {} /\ Store!Holds(a19, image)
      BY <2>1, <3>1, DoneVerified
    <3>3. Store!Verified
      BY <1>3, <1>8, <2>1, <3>1, <3>2 DEF HostDone, EndSession, Store!Verified
    <3>4. QED
      BY <3>3
  <2>2. CASE ~(session # "erase" /\ VerifyOk)
    BY <1>2, <1>3, <1>8, <2>2 DEF HostDone
  <2>3. QED
    BY <2>1, <2>2
<1>9. CASE Deliver
  <2>1. a19' = a19 /\ {req', inbox'} \subseteq {req, inbox, None}
    BY <1>9 DEF Deliver, SendResponse, envVars
  <2>2. Store!Touch
    BY <1>1, <2>1, TouchesReach
  <2>3. QED
    BY <1>9, <2>1, <2>2 DEF Deliver, Store!Work
<1>10. CASE Run \/ Chip
  <2>1. /\ a19' = a19 /\ {req', inbox'} \subseteq {req, inbox, None}
        /\ UNCHANGED <<session, image, told>>
    BY <1>10, WhatIsKnown, TaskMoves DEF hostVars
  <2>2. Store!Touch
    BY <1>1, <2>1, TouchesReach
  <2>3. QED
    BY <2>1, <2>2 DEF Store!Work
<1>11. CASE Switch
  <2>1. /\ session = "none" /\ req = None /\ inbox = None
        /\ UNCHANGED <<mem, job, req, inbox, session, image, told>>
    BY <1>11, WhatIsKnown DEF Switch, MoveSwitch, OneAtATime, chipVars, fwVars, hostVars
  <2>2. Loose' = Loose
    BY <2>1 DEF Loose, InFlight
  <2>3. a19' \in {0, 1}
    BY <1>1, WhatIsKnown, TypeStep DEF TypeInv, TypeOK
  <2>4. QED
    BY <2>1, <2>2, <2>3 DEF Store!Move
<1>12. CASE Cable \/ Supply
  BY <1>2, <1>12 DEF Cable, Supply, UsbChange, PowerLoss, Restart, fwVars
<1>13. CASE UNCHANGED allVars
  BY <1>3, <1>13 DEF allVars, hostVars
<1>14. QED
  BY <1>4, <1>5, <1>6, <1>7, <1>8, <1>9, <1>10, <1>11, <1>12, <1>13
  DEF MeggyNext, Host

\* The system keeps the store's promises: every session works on the selected slot
\* alone, and "Verify OK" is said only of an image that is in the flash and that no
\* command on the way can change.
THEOREM ImplementsStore == MeggySpec => ImplementsRomStore
<1>1. MeggyInit => SystemInv /\ Store!Init
  BY InitHost, StoreInit
<1>2. SystemInv /\ [MeggyNext]_allVars => SystemInv'
  BY SystemStep
<1>3. SystemInv /\ [MeggyNext]_allVars => [Store!Next]_(Store!vars)
  BY StoreStep
<1>4. QED
  BY <1>1, <1>2, <1>3, PTL DEF MeggySpec, ImplementsRomStore, Store!Spec

\* "Verify OK" lasts: until the next session the image stays in the slot it was verified
\* in, word for word, whatever the firmware still had to do, wherever J2 is moved and
\* whenever the cable or the supply goes (meggy_flash.py:447).
THEOREM VerifiedStays == MeggySpec => []Store!Kept
<1>1. Store!StoreAssumption
  BY HostAssumption, SlotAssumption DEF Store!StoreAssumption, Contents
<1>2. Store!Spec => []Store!Kept
  BY <1>1, Store!VerifiedImageStays
<1>3. QED
  BY ImplementsStore, <1>2, PTL DEF ImplementsRomStore
=============================================================================

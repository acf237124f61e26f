--------------------------- MODULE FirmwareProofs ---------------------------
(***************************************************************************)
(* For every size of the chip, every sector map and every set of requests: *)
(* the types of Firmware, that the firmware never loses track of an erase, *)
(* and that an OK is true of the flash.  Types come first, with the locals *)
(* they depend on (TypeInv); then the control invariant (Control), under   *)
(* TypeInv; then what the data say (DataInv), under both.                  *)
(***************************************************************************)
EXTENDS Firmware, SequenceTheorems, TLAPS

TypeInv == TypeOK /\ Locals
Control ==
  /\ LastWord /\ Guarded /\ ReadyHere /\ ProgramWaited
  /\ EraseTracked /\ BusyIsolated

\* The firmware's names for one conjunct each: of no interest to the proofs.
USE DEF flash_is_ready, flash_hw_reset, oe_buf_isolate, oe_buf_release, Algorithms

-----------------------------------------------------------------------------
(* The chip's operations keep its types.                                   *)

\* A write cycle, heard or not, leaves the chip well-typed.
LEMMA WriteType ==
  ASSUME ChipTypeOK, NEW c \in Cycles, Write(c)
  PROVE  ChipTypeOK'
<1>1. mode' \in Modes
  BY DEF Write, ChipTypeOK, Decoded, Modes, Busy
<1>2. Target(c) \in [cells: SUBSET Cells, word: Words]
  BY DEF Target, SectorCells, Cycles, Words
<1>3. NoJob \in [cells: SUBSET Cells, word: Words]
  BY DEF NoJob, Words
<1>4. mode' = "failed" => Worn /\ job' = NoJob
  <2>1. \A m : Decoded(m, c.code) # "failed"
    BY DEF Decoded
  <2>2. CASE Ready
    BY <2>1, <2>2 DEF Write
  <2>3. CASE ~Ready
    BY <2>3 DEF Write, ChipTypeOK
  <2>4. QED
    BY <2>2, <2>3
<1>5. job' \in [cells: SUBSET Cells, word: Words] /\ mem' \in [Cells -> Contents]
  BY <1>2, <1>3 DEF Write, ChipTypeOK
<1>6. QED
  BY <1>1, <1>4, <1>5 DEF ChipTypeOK

\* /RST low leaves the chip well-typed and reading (flash_hw_reset).
LEMMA HwResetType ==
  ASSUME ChipTypeOK, HwReset
  PROVE  ChipTypeOK' /\ mode' = "read"
  BY DEF HwReset, ChipTypeOK, NoJob, Words, Contents, Modes

\* The end of an embedded algorithm leaves the chip well-typed, and reading if it is
\* not worn.
LEMMA FinishType ==
  ASSUME ChipTypeOK, Finish
  PROVE  ChipTypeOK' /\ mode' \in {"read", "failed"} /\ (~Worn => mode' = "read")
<1>1. \A c \in Cells : Overlay(mem[c], job.word) \in Contents
  BY DEF ChipTypeOK, Overlay, Contents, Words
<1>2. NoJob \in [cells: SUBSET Cells, word: Words] /\ Bits \in Contents
      /\ Unknown \in Contents /\ "read" \in Modes /\ "failed" \in Modes
  BY DEF NoJob, Words, Contents, Modes, Busy
<1>3. CASE Succeed
  BY <1>1, <1>2, <1>3 DEF Succeed, ChipTypeOK
<1>4. CASE Fail
  BY <1>2, <1>4 DEF Fail, ChipTypeOK
<1>5. QED
  BY <1>3, <1>4 DEF Finish

\* Every word address reaches a cell, whatever the switch.
LEMMA CellType ==
  ASSUME a19 \in {0, 1}, NEW wa \in Nat
  PROVE  Cell(wa) \in Cells
<1>1. SlotWords \in Nat /\ SlotWords > 0
  BY SlotAssumption
<1>2. wa % SlotWords \in 0 .. SlotWords - 1
  BY <1>1
<1>3. a19 * SlotWords = 0 \/ a19 * SlotWords = SlotWords
  BY <1>1
<1>4. QED
  BY <1>1, <1>2, <1>3 DEF Cell, Cells, FLASH_SIZE_WORDS

\* A command code without data is a cycle.
LEMMA WordType ==
  ASSUME NEW code \in Codes
  PROVE  Word(code) \in Cycles
<1>1. 0 \in Cells
  BY SlotAssumption DEF Cells, FLASH_SIZE_WORDS
<1>2. QED
  BY <1>1 DEF Word, Cycle, Cycles, Words

\* What a read cycle shows is a reading.
LEMMA ReadoutType ==
  ASSUME ChipTypeOK, NEW c \in Cells
  PROVE  Readout(c) \in Readings
  BY DEF Readout, ChipTypeOK, Readings

\* The command sequences are sequences of cycles.
LEMMA SequenceType ==
  ASSUME a19 \in {0, 1}, NEW last \in Cycles, NEW wa \in Nat, NEW w \in Words
  PROVE  /\ ResetWord \in Seq(Cycles)
         /\ ResetTwice \in Seq(Cycles)
         /\ IdSequence \in Seq(Cycles)
         /\ EraseSequence(last) \in Seq(Cycles)
         /\ ProgramSequence(wa, w) \in Seq(Cycles)
<1>1. \A code \in Codes : Word(code) \in Cycles
  BY WordType
<1>2. {"AA", "55", "A0", "80", "90", "F0"} \subseteq Codes
  BY DEF Codes
<1>3. Cycle("data", Cell(wa), w) \in Cycles
  BY CellType DEF Cycle, Cycles, Codes
<1>4. ResetWord \in Seq(Cycles)
  BY <1>1, <1>2 DEF ResetWord
<1>5. ResetTwice \in Seq(Cycles)
  BY <1>1, <1>2 DEF ResetTwice
<1>6. IdSequence \in Seq(Cycles)
  BY <1>1, <1>2 DEF IdSequence
<1>7. EraseSequence(last) \in Seq(Cycles)
  BY <1>1, <1>2 DEF EraseSequence
<1>8. ProgramSequence(wa, w) \in Seq(Cycles)
  BY <1>1, <1>2, <1>3 DEF ProgramSequence
<1>9. QED
  BY <1>4, <1>5, <1>6, <1>7, <1>8

-----------------------------------------------------------------------------
(* Types.                                                                  *)

\* The types hold at power-up.
LEMMA InitType == Init => TypeInv
<1> SUFFICES ASSUME Init PROVE TypeInv
  OBVIOUS
<1>1. ChipTypeOK
  BY DEF Init, ChipInit, ChipTypeOK, NoJob, Words, Contents, Modes
<1>2. mem \in [Cells -> Contents]
  BY <1>1 DEF ChipTypeOK
<1>3. answer \in Answers /\ bus \in Seq(Cycles)
  BY DEF Init, Answer, Answers, Statuses
<1>4. QED
  BY <1>1, <1>2, <1>3
  DEF Init, TypeInv, TypeOK, Locals, NoOrder, Labels, Cycles, Answers

\* flash_cmd() takes one word off a typed sequence.
LEMMA FlashCmdType ==
  ASSUME TypeInv, FlashCmd
  PROVE  TypeInv'
<1>1. bus \in Seq(Cycles) /\ bus # <<>>
  BY DEF TypeInv, TypeOK, FlashCmd
<1>2. Head(bus) \in Cycles /\ Tail(bus) \in Seq(Cycles)
  BY <1>1, HeadTailProperties
<1>3. ChipTypeOK'
  BY <1>2, WriteType DEF TypeInv, TypeOK, FlashCmd
<1>4. QED
  BY <1>2, <1>3 DEF TypeInv, TypeOK, Locals, FlashCmd, envVars

\* The steps that touch neither the chip nor the order.
LEMMA PollAndParseType ==
  ASSUME TypeInv, TaskPoll \/ Parse
  PROVE  TypeInv'
<1>1. ASSUME TaskPoll PROVE TypeInv'
  BY <1>1 DEF TypeInv, TypeOK, Locals, TaskPoll, chipVars, ChipTypeOK, Labels
<1>2. ASSUME Parse PROVE TypeInv'
  <2>1. Answer("ERROR", <<>>) \in Answers /\ Answer("CRC_ERROR", <<>>) \in Answers
    BY DEF Answer, Answers, Statuses
  <2>2. QED
    BY <1>2, <2>1 DEF TypeInv, TypeOK, Locals, Parse, Reject, At, chipVars,
      envVars, ChipTypeOK, Labels
<1>3. QED
  BY <1>1, <1>2

\* An answer without words.
LEMMA AnswerType ==
  ASSUME NEW status \in Statuses
  PROVE  Answer(status, <<>>) \in Answers
  BY DEF Answer, Answers

\* IDENTIFY and the two words flash_read_id() samples.
LEMMA IdentifyType ==
  ASSUME TypeInv, Identify \/ SampleId
  PROVE  TypeInv'
<1>1. IdSequence \in Seq(Cycles) /\ ResetWord \in Seq(Cycles)
  <2>1. \A code \in Codes : Word(code) \in Cycles
    BY WordType
  <2>2. QED
    BY <2>1 DEF IdSequence, ResetWord, Codes
<1>2. ASSUME Identify PROVE TypeInv'
  BY <1>1, <1>2 DEF TypeInv, TypeOK, Locals, Identify, Dispatch, At, Answer, Answers,
    Statuses, chipVars, envVars, ChipTypeOK, Labels
<1>3. ASSUME SampleId PROVE TypeInv'
  <2>1. ChipTypeOK /\ answer.data \in Seq(Readings) /\ a19 \in {0, 1}
    BY DEF TypeInv, TypeOK, Answers
  <2>2. Readout(Cell(Len(answer.data))) \in Readings
    BY <2>1, CellType, ReadoutType, LenProperties
  <2>3. answer' \in Answers
    BY <1>3, <2>1, <2>2, AppendProperties DEF SampleId, Answer, Answers, Statuses
  <2>4. /\ pc = "identify" /\ pc' \in {"identify", "respond"} /\ bus' \in {bus, ResetWord}
        /\ UNCHANGED <<chipVars, req, i, erase_in_progress, oe_buf, envVars, order>>
    BY <1>3 DEF SampleId, At
  <2>5. bus' \in Seq(Cycles)
    BY <1>1, <2>4 DEF TypeInv, TypeOK
  <2>6. QED
    BY <2>3, <2>4, <2>5 DEF TypeInv, TypeOK, Locals, chipVars, envVars, ChipTypeOK, Labels
<1>4. QED
  BY <1>2, <1>3

\* The number of words flash_read_buffer() is asked for, and the first.
LEMMA ReadBounds ==
  ASSUME TypeInv, pc \in {"read", "dispatch"}
  PROVE  From \in Nat /\ Count \in Nat
  BY RequestsAssumption DEF TypeInv, Locals, From, Count

\* flash_hw_reset(): the chip reads, and one reset word is on its way.
LEMMA StartReadType ==
  ASSUME TypeInv, req.cmd \in {"READ", "FLASH_RESET"}, StartRead
  PROVE  /\ ChipTypeOK' /\ answer' \in Answers /\ pc' = "read"
         /\ bus' \in Seq(Cycles)
         /\ order' \in [kind: {"none", "erase", "program"}, cells: SUBSET Cells,
                        mem: [Cells -> Contents],
                        upset: {"none", "READ", "FLASH_RESET", "AVR_RESET"}]
<1>1. ChipTypeOK'
  BY HwResetType DEF TypeInv, TypeOK, StartRead
<1>2. answer' \in Answers
  BY AnswerType DEF StartRead, Statuses
<1>3. bus' \in Seq(Cycles)
  BY WordType DEF StartRead, ResetWord, Codes
<1>4. QED
  BY <1>1, <1>2, <1>3 DEF TypeInv, TypeOK, StartRead

\* READ and FLASH_RESET.
LEMMA ReadType ==
  ASSUME TypeInv, Read \/ FlashReset
  PROVE  TypeInv'
<1>1. ASSUME Read PROVE TypeInv'
  <2>1. req \in Requests /\ req.cmd = "READ"
    BY <1>1 DEF TypeInv, Locals, Read, Dispatch, At
  <2>2. CASE OutOfRange /\ Reject("ERROR") /\ UNCHANGED <<chipVars, bus, order>>
    BY <1>1, <2>1, <2>2 DEF TypeInv, TypeOK, Locals, Read, Reject, Answer, Answers,
      Statuses, chipVars, envVars, ChipTypeOK, Labels
  <2>3. CASE ~OutOfRange /\ StartRead
    BY <1>1, <2>1, <2>3, StartReadType DEF TypeInv, TypeOK, Locals, Read, envVars, Labels
  <2>4. QED
    BY <1>1, <2>2, <2>3 DEF Read
<1>2. ASSUME FlashReset PROVE TypeInv'
  <2>1. req \in Requests /\ req.cmd = "FLASH_RESET" /\ StartRead
    BY <1>2 DEF TypeInv, Locals, FlashReset, Dispatch, At
  <2>2. QED
    BY <1>2, <2>1, StartReadType
    DEF TypeInv, TypeOK, Locals, FlashReset, envVars, Labels
<1>3. QED
  BY <1>1, <1>2

\* One word read, whatever the chip shows.
LEMMA ReadWordType ==
  ASSUME TypeInv, ReadWord
  PROVE  TypeInv'
<1>1. ChipTypeOK /\ answer.data \in Seq(Readings) /\ a19 \in {0, 1}
  BY DEF TypeInv, TypeOK, Answers
<1>2. From + Len(answer.data) \in Nat
  <2>1. pc = "read"
    BY DEF ReadWord, At
  <2>2. QED
    BY <1>1, <2>1, ReadBounds, LenProperties
<1>3. Readout(Cell(From + Len(answer.data))) \in Readings
  BY <1>1, <1>2, CellType, ReadoutType
<1>4. answer' \in Answers
  <2>1. \A d \in Seq(Readings) : Answer("OK", d) \in Answers
    BY DEF Answer, Answers, Statuses
  <2>2. CASE Len(answer.data) < Count
    BY <1>1, <1>3, <2>1, <2>2, AppendProperties DEF ReadWord
  <2>3. QED
    BY <1>1, <2>1, <2>2 DEF ReadWord
<1>5. pc' \in {"read", "respond"} /\ UNCHANGED <<chipVars, bus, req, i, erase_in_progress,
        oe_buf, envVars, order>> /\ pc = "read"
  BY DEF ReadWord, At
<1>6. QED
  BY <1>4, <1>5 DEF TypeInv, TypeOK, Locals, chipVars, envVars, ChipTypeOK, Labels

\* The answer BUSY while erasing.
LEMMA RefuseType ==
  ASSUME TypeInv, NEW cmd \in Commands, RefuseWhileErasing(cmd)
  PROVE  TypeInv'
  BY DEF TypeInv, TypeOK, Locals, RefuseWhileErasing, Dispatch, At, Reject, Answer,
    Answers, Statuses, chipVars, envVars, ChipTypeOK, Labels

\* Beginning an erase or a program.
LEMMA BeginType ==
  ASSUME TypeInv, NEW kind \in {"erase", "program"}, NEW cells \in SUBSET Cells,
         NEW goal \in [Cells -> Contents], Begin(kind, cells, goal)
  PROVE  order' \in [kind: {"none", "erase", "program"}, cells: SUBSET Cells,
                     mem: [Cells -> Contents],
                     upset: {"none", "READ", "FLASH_RESET", "AVR_RESET"}]
  BY DEF TypeInv, TypeOK, Begin

\* The common part of both erase commands.
LEMMA StartEraseType ==
  ASSUME TypeInv, NEW last \in Cycles, At("dispatch"), StartErase(last)
  PROVE  TypeInv'
<1>1. EraseSequence(last) \in Seq(Cycles)
  <2>1. \A code \in Codes : Word(code) \in Cycles
    BY WordType
  <2>2. QED
    BY <2>1 DEF EraseSequence, Codes
<1>2. Target(last).cells \in SUBSET Cells
  BY DEF Target, SectorCells, Cycles
<1>3. [c \in Cells |-> IF c \in Target(last).cells THEN Bits ELSE mem[c]]
        \in [Cells -> Contents]
  BY DEF TypeInv, TypeOK, ChipTypeOK, Contents, Words
<1>4. order' \in [kind: {"none", "erase", "program"}, cells: SUBSET Cells,
                  mem: [Cells -> Contents],
                  upset: {"none", "READ", "FLASH_RESET", "AVR_RESET"}]
  BY <1>2, <1>3, BeginType DEF StartErase
<1>5. QED
  BY <1>1, <1>4 DEF TypeInv, TypeOK, Locals, StartErase, At, chipVars, envVars,
    ChipTypeOK, Labels

\* CHIP_ERASE, SECTOR_ERASE and their ends.
LEMMA EraseType ==
  ASSUME TypeInv, ChipErase \/ SectorErase \/ EraseStarted
  PROVE  TypeInv'
<1>1. ASSUME ChipErase PROVE TypeInv'
  <2>1. Word("10") \in Cycles
    BY WordType DEF Codes
  <2>2. QED
    BY <1>1, <2>1, RefuseType, StartEraseType DEF ChipErase, Dispatch, Commands
<1>2. ASSUME SectorErase PROVE TypeInv'
  <2>1. CASE RefuseWhileErasing("SECTOR_ERASE")
    BY <2>1, RefuseType DEF Commands
  <2>2. CASE Dispatch("SECTOR_ERASE") /\ StartErase(Cycle("30", Cell(req.addr), {}))
    <3>1. req.addr \in Nat
      BY <2>2, RequestsAssumption DEF TypeInv, Locals, Dispatch, At
    <3>2. Cycle("30", Cell(req.addr), {}) \in Cycles
      BY <3>1, CellType DEF TypeInv, TypeOK, Cycle, Cycles, Codes, Words
    <3>3. QED
      BY <2>2, <3>2, StartEraseType DEF Dispatch
  <2>3. QED
    BY <1>2, <2>1, <2>2 DEF SectorErase
<1>3. ASSUME EraseStarted PROVE TypeInv'
  BY <1>3 DEF TypeInv, TypeOK, Locals, EraseStarted, At, Reject, Answer, Answers,
    Statuses, chipVars, envVars, ChipTypeOK, Labels
<1>4. QED
  BY <1>1, <1>2, <1>3

\* GET_STATUS, and the release of the buffer.
LEMMA StatusType ==
  ASSUME TypeInv, GetStatus \/ Release
  PROVE  TypeInv'
<1>1. ResetWord \in Seq(Cycles)
  BY WordType DEF ResetWord, Codes
<1>2. ASSUME GetStatus PROVE TypeInv'
  <2>1. answer' \in Answers
    <3>1. /\ Answer("OK", <<>>) \in Answers /\ Answer("BUSY", <<>>) \in Answers
      BY AnswerType DEF Statuses
    <3>2. QED
      BY <1>2, <3>1 DEF GetStatus, Reject
  <2>2. erase_in_progress' \in BOOLEAN /\ bus' \in Seq(Cycles)
    BY <1>1, <1>2 DEF TypeInv, TypeOK, GetStatus
  <2>3. pc' \in {"release", "respond"} /\ req \in Requests
    BY <1>2 DEF TypeInv, Locals, GetStatus, Dispatch, At, Reject
  <2>4. QED
    BY <1>2, <2>1, <2>2, <2>3 DEF TypeInv, TypeOK, Locals, GetStatus, chipVars,
      envVars, ChipTypeOK, Labels
<1>3. ASSUME Release PROVE TypeInv'
  BY <1>3 DEF TypeInv, TypeOK, Locals, Release, At, chipVars, envVars, ChipTypeOK,
    Labels
<1>4. QED
  BY <1>2, <1>3

\* PROGRAM up to the loop of flash_program_buffer().
LEMMA ProgramType ==
  ASSUME TypeInv, Program
  PROVE  TypeInv'
<1>1. CASE RefuseWhileErasing("PROGRAM")
  BY <1>1, RefuseType DEF Commands
<1>2. CASE /\ Dispatch("PROGRAM") /\ ~erase_in_progress /\ OutOfRange
           /\ Reject("ERROR")
           /\ UNCHANGED <<chipVars, bus, req, i, erase_in_progress, oe_buf,
                          envVars, order>>
  BY <1>2 DEF TypeInv, TypeOK, Locals, Dispatch, At, Reject, Answer, Answers,
    Statuses, chipVars, envVars, ChipTypeOK, Labels
<1>3. CASE /\ Dispatch("PROGRAM") /\ ~erase_in_progress /\ ~OutOfRange
           /\ oe_buf' = "isolated" /\ i' = 0 /\ pc' = "program"
           /\ Begin("program", {c \in Cells : WordsFor(0, c) # {}},
                    [c \in Cells |-> Programmed(0, c)])
           /\ UNCHANGED <<chipVars, bus, req, answer, erase_in_progress, envVars>>
  <2>1. \A c \in Cells : Programmed(0, c) \in Contents
    BY DEF TypeInv, TypeOK, ChipTypeOK, Programmed, Contents, Words
  <2>2. order' \in [kind: {"none", "erase", "program"}, cells: SUBSET Cells,
                    mem: [Cells -> Contents],
                    upset: {"none", "READ", "FLASH_RESET", "AVR_RESET"}]
    BY <1>3, <2>1, BeginType
  <2>3. req \in Requests /\ req.cmd = "PROGRAM" /\ req.len \in Nat
    BY <1>3, RequestsAssumption DEF TypeInv, Locals, Dispatch, At
  <2>4. QED
    BY <1>3, <2>2, <2>3 DEF TypeInv, TypeOK, Locals, chipVars, envVars, ChipTypeOK,
      Labels
<1>4. QED
  BY <1>1, <1>2, <1>3 DEF Program

\* The loop: i stays within the request's data.
LEMMA ProgramLoopType ==
  ASSUME TypeInv, ProgramWord \/ WaitReady \/ WaitTimeout
  PROVE  TypeInv'
<1>1. ResetWord \in Seq(Cycles) /\ ResetTwice \in Seq(Cycles)
  BY WordType DEF ResetWord, ResetTwice, Codes
<1>2. ASSUME ProgramWord PROVE TypeInv'
  <2>1. /\ req \in Requests /\ req.addr \in Nat /\ req.len \in Nat
        /\ req.data \in Seq(Words) /\ Len(req.data) = req.len
    BY <1>2, RequestsAssumption DEF TypeInv, Locals, ProgramWord, At
  <2>2. ASSUME i < req.len
        PROVE  ProgramSequence(req.addr + i, req.data[i + 1]) \in Seq(Cycles)
    <3>1. req.data[i + 1] \in Words /\ req.addr + i \in Nat
      BY <2>1, <2>2, ElementOfSeq DEF TypeInv, TypeOK
    <3>2. Cycle("data", Cell(req.addr + i), req.data[i + 1]) \in Cycles
      BY <3>1, CellType DEF TypeInv, TypeOK, Cycle, Cycles, Codes
    <3>3. Word("AA") \in Cycles /\ Word("55") \in Cycles /\ Word("A0") \in Cycles
      BY WordType DEF Codes
    <3>4. QED
      BY <3>2, <3>3 DEF ProgramSequence
  <2>3. answer' \in Answers /\ bus' \in Seq(Cycles)
    <3>1. Answer("OK", <<>>) \in Answers
      BY AnswerType DEF Statuses
    <3>2. QED
      BY <1>1, <1>2, <2>2, <3>1 DEF TypeInv, TypeOK, ProgramWord
  <2>4. QED
    BY <1>2, <2>1, <2>3 DEF TypeInv, TypeOK, Locals, ProgramWord, At, chipVars,
      envVars, ChipTypeOK, Labels
<1>3. ASSUME WaitReady PROVE TypeInv'
  <2>1. req.len \in Nat /\ i \in Nat
    BY <1>3, RequestsAssumption DEF TypeInv, TypeOK, Locals, WaitReady, At
  <2>2. QED
    BY <1>3, <2>1 DEF TypeInv, TypeOK, Locals, WaitReady, At, chipVars, envVars,
      ChipTypeOK, Labels
<1>4. ASSUME WaitTimeout PROVE TypeInv'
  <2>1. answer' \in Answers
    BY <1>4, AnswerType DEF WaitTimeout, Statuses
  <2>2. QED
    BY <1>1, <1>4, <2>1 DEF TypeInv, TypeOK, Locals, WaitTimeout, At, chipVars,
      envVars, ChipTypeOK, Labels
<1>5. QED
  BY <1>2, <1>3, <1>4

\* Undefined commands, AVR_RESET's answer and send_response().
LEMMA AnswerStepType ==
  ASSUME TypeInv, Undefined \/ AvrReset \/ SendResponse
  PROVE  TypeInv'
<1>1. ASSUME Undefined \/ AvrReset PROVE TypeInv'
  <2>1. answer' \in Answers
    BY <1>1, AnswerType DEF Undefined, AvrReset, Reject, Statuses
  <2>2. QED
    BY <1>1, <2>1 DEF TypeInv, TypeOK, Locals, Undefined, AvrReset, Dispatch, At,
      Reject, chipVars, envVars, ChipTypeOK, Labels
<1>2. ASSUME SendResponse PROVE TypeInv'
  <2>1. answer' \in Answers
    BY <1>2, AnswerType DEF SendResponse, Statuses
  <2>2. QED
    BY <1>2, <2>1 DEF TypeInv, TypeOK, Locals, SendResponse, chipVars, envVars,
      ChipTypeOK, Labels
<1>3. QED
  BY <1>1, <1>2

\* An AVR reset, the loss of power and flash_init().
LEMMA RestartType ==
  ASSUME TypeInv, PullReset \/ FlashInit \/ PowerLoss
  PROVE  TypeInv'
<1>1. Answer("OK", <<>>) \in Answers /\ <<>> \in Seq(Cycles)
  BY AnswerType DEF Statuses
<1>2. ASSUME PullReset PROVE TypeInv'
  <2>1. order' \in [kind: {"none", "erase", "program"}, cells: SUBSET Cells,
                    mem: [Cells -> Contents],
                    upset: {"none", "READ", "FLASH_RESET", "AVR_RESET"}]
    BY <1>2 DEF TypeInv, TypeOK, PullReset
  <2>2. ChipTypeOK'
    BY <1>2 DEF TypeInv, TypeOK, PullReset, chipVars, ChipTypeOK
  <2>3. QED
    BY <1>1, <1>2, <2>1, <2>2 DEF TypeInv, TypeOK, Locals, PullReset, Restart, Labels
<1>3. ASSUME FlashInit PROVE TypeInv'
  <2>1. Word("F0") \in Cycles
    BY WordType DEF Codes
  <2>2. ChipTypeOK'
    BY <1>3, <2>1, WriteType DEF TypeInv, TypeOK, FlashInit
  <2>3. QED
    BY <1>3, <2>2 DEF TypeInv, TypeOK, Locals, FlashInit, envVars, Labels
<1>4. ASSUME PowerLoss PROVE TypeInv'
  <2>1. ChipTypeOK'
    BY <1>4, HwResetType DEF TypeInv, TypeOK, PowerLoss
  <2>2. order' = [kind |-> "none", cells |-> {}, mem |-> mem', upset |-> "none"]
    BY <1>4 DEF PowerLoss, NoOrder
  <2>3. order' \in [kind: {"none", "erase", "program"}, cells: SUBSET Cells,
                    mem: [Cells -> Contents],
                    upset: {"none", "READ", "FLASH_RESET", "AVR_RESET"}]
    BY <2>1, <2>2 DEF ChipTypeOK
  <2>4. QED
    BY <1>1, <1>4, <2>1, <2>3 DEF TypeInv, TypeOK, Locals, PowerLoss, Restart, Labels
<1>5. QED
  BY <1>2, <1>3, <1>4

\* The host, the cable, the switch and the chip's own steps.
LEMMA EnvironmentType ==
  ASSUME TypeInv, HostSend \/ UsbChange \/ MoveSwitch \/ ChipDone
  PROVE  TypeInv'
<1>1. ASSUME HostSend \/ UsbChange \/ MoveSwitch PROVE TypeInv'
  <2>1. ChipTypeOK' /\ UNCHANGED <<fwVars, order>>
    BY <1>1 DEF TypeInv, TypeOK, ChipTypeOK, HostSend, UsbChange, MoveSwitch, chipVars
  <2>2. a19' \in {0, 1} /\ usb' \in BOOLEAN /\ inbox' \in Requests \cup {None}
    <3>1. a19 \in {0, 1} /\ usb \in BOOLEAN /\ inbox \in Requests \cup {None}
      BY DEF TypeInv, TypeOK
    <3>2. CASE HostSend
      BY <3>1, <3>2, Zenon DEF HostSend
    <3>3. CASE UsbChange
      BY <3>1, <3>3, Zenon DEF UsbChange
    <3>4. CASE MoveSwitch
      <4>1. a19' \in {0, 1}
        BY <3>1, <3>4, SMT DEF MoveSwitch
      <4>2. QED
        BY <3>1, <3>4, <4>1, Zenon DEF MoveSwitch
    <3>5. QED
      BY <1>1, <3>2, <3>3, <3>4
  <2>3. QED
    BY <2>1, <2>2 DEF TypeInv, TypeOK, Locals, fwVars
<1>2. ASSUME ChipDone PROVE TypeInv'
  <2>1. ChipTypeOK'
    BY <1>2, FinishType DEF TypeInv, TypeOK, ChipDone
  <2>2. QED
    BY <1>2, <2>1 DEF TypeInv, TypeOK, Locals, ChipDone, fwVars, envVars
<1>3. QED
  BY <1>1, <1>2

\* Every step keeps the types.
LEMMA TypeStep == TypeInv /\ [Next]_vars => TypeInv'
<1> SUFFICES ASSUME TypeInv, [Next]_vars PROVE TypeInv'
  OBVIOUS
<1>1. CASE Task
  BY <1>1, FlashCmdType, PollAndParseType, IdentifyType, ReadType, ReadWordType, EraseType,
    StatusType, ProgramType, ProgramLoopType, AnswerStepType, RestartType
  DEF Task
<1>2. CASE FlashInit \/ ChipDone \/ Environment
  BY <1>2, RestartType, EnvironmentType DEF Environment
<1>3. CASE UNCHANGED vars
  BY <1>3 DEF TypeInv, TypeOK, Locals, vars, chipVars, fwVars, envVars, ChipTypeOK
<1>4. QED
  BY <1>1, <1>2, <1>3 DEF Next

\* Every variable keeps its type, and the locals of protocol_task() and of
\* flash_program_buffer() are what their code takes them to be.
THEOREM TypeCorrect == Spec => []TypeOK
<1>1. TypeInv => TypeOK
  BY DEF TypeInv
<1>2. QED
  BY InitType, TypeStep, <1>1, PTL DEF Spec

-----------------------------------------------------------------------------
(* Control.                                                                *)

\* The embedded algorithms start on their own command word only.
LEMMA DecodedBusy ==
  ASSUME NEW m, NEW code
  PROVE  /\ Decoded(m, code) = "erasing" => code \in {"10", "30"}
         /\ Decoded(m, code) = "programming" => code = "data"
  BY DEF Decoded

\* A busy chip ignores a write, unless it has failed; a ready one becomes busy on its
\* word only.
LEMMA WriteBusy ==
  ASSUME NEW c, Write(c)
  PROVE  /\ ~Ready => mode' = mode \/ (mode = "failed" /\ mode' = "read")
         /\ mode' = "erasing" /\ Ready => c.code \in {"10", "30"}
         /\ mode' = "programming" /\ Ready => c.code = "data"
  BY DecodedBusy DEF Write

\* The control invariant holds at power-up.
LEMMA InitControl == Init => Control
<1> SUFFICES ASSUME Init PROVE Control
  OBVIOUS
<1>1. mode = "read" /\ bus = <<>> /\ pc = "boot" /\ Len(bus) = 0
  BY DEF Init, ChipInit
<1>2. QED
  BY <1>1 DEF Control, LastWord, Guarded, ReadyHere, ProgramWaited, EraseTracked,
    BusyIsolated, Ready, Busy

\* flash_cmd(): the one step of the firmware that can make the chip busy.
LEMMA FlashCmdControl ==
  ASSUME TypeInv, Control, FlashCmd
  PROVE  Control'
<1> DEFINE c == Head(bus)
<1>1. bus \in Seq(Cycles) /\ bus # <<>>
  BY DEF TypeInv, TypeOK, FlashCmd
<1>2. /\ Len(bus) \in Nat /\ Len(bus) > 0 /\ c = bus[1]
      /\ Len(bus') = Len(bus) - 1
      /\ \A j \in 1 .. Len(bus') : bus'[j] = bus[j + 1]
      /\ bus' = <<>> <=> Len(bus) = 1
  <2>1. Len(bus) \in Nat \ {0}
    BY <1>1, EmptySeq
  <2>2. c = bus[1] /\ bus' = Tail(bus)
    BY DEF FlashCmd
  <2>3. /\ bus' \in Seq(Cycles) /\ Len(bus') = Len(bus) - 1
        /\ \A j \in 1 .. Len(bus') : bus'[j] = bus[j + 1]
    BY <1>1, <2>2, HeadTailProperties
  <2>4. bus' = <<>> <=> Len(bus') = 0
    BY <2>3, EmptySeq
  <2>5. QED
    BY <2>1, <2>2, <2>3, <2>4
<1>3. /\ UNCHANGED <<pc, erase_in_progress, oe_buf, order>>
      /\ Write(c) /\ pc \notin {"boot", "loop"}
  BY <1>1 DEF FlashCmd, Control, LastWord
<1>4. LastWord'
  BY <1>2, <1>3 DEF Control, LastWord
<1>5. Guarded'
  BY <1>3 DEF Control, Guarded
<1>6. CASE ~Ready
  <2>1. CASE mode' = mode /\ ~Ready'
    BY <1>1, <1>3, <1>4, <1>5, <1>6, <2>1
    DEF Control, ReadyHere, ProgramWaited, EraseTracked, BusyIsolated, Excused
  <2>2. CASE mode' = "read"
    BY <1>4, <1>5, <2>2
    DEF Control, ReadyHere, ProgramWaited, EraseTracked, BusyIsolated, Ready, Busy
  <2>3. QED
    BY <1>3, <1>6, <2>1, <2>2, WriteBusy DEF Ready
<1>7. CASE Ready
  <2>1. CASE mode' = "erasing"
    <3>1. pc = "erase" /\ Len(bus) = 1
      BY <1>2, <1>3, <1>7, <2>1, WriteBusy DEF Control, LastWord
    <3>2. QED
      BY <1>2, <1>3, <1>4, <1>5, <2>1, <3>1
      DEF Control, Guarded, ReadyHere, ProgramWaited, EraseTracked, BusyIsolated
  <2>2. CASE mode' = "programming"
    <3>1. pc = "wait" /\ Len(bus) = 1
      BY <1>2, <1>3, <1>7, <2>2, WriteBusy DEF Control, LastWord
    <3>2. QED
      BY <1>2, <1>3, <1>4, <1>5, <2>2, <3>1
      DEF Control, Guarded, ReadyHere, ProgramWaited, EraseTracked, BusyIsolated
  <2>3. CASE mode' \notin {"erasing", "programming"}
    <3>1. mode' # "failed"
      BY <1>3, <1>7 DEF Write, Decoded, Ready, Busy
    <3>2. QED
      BY <1>4, <1>5, <2>3, <3>1
      DEF Control, ReadyHere, ProgramWaited, EraseTracked, BusyIsolated, Ready, Busy
  <2>4. QED
    BY <2>1, <2>2, <2>3
<1>8. QED
  BY <1>6, <1>7

\* Nothing an idle, ready chip with no words on the way could contradict.
LEMMA IdleControl ==
  ASSUME mode' = "read", bus' = <<>>,
         pc' \notin {"erase", "program", "wait"}
  PROVE  Control'
<1>1. Len(bus') = 0
  OBVIOUS
<1>2. QED
  BY <1>1 DEF Control, LastWord, Guarded, ReadyHere, ProgramWaited, EraseTracked,
    BusyIsolated, Ready, Busy

\* Only the last words of an erase and of a program set the chip to work.
Working == {"10", "30", "data"}

\* Word carries the code it is given.
LEMMA WordCodes ==
  /\ Word("AA").code = "AA" /\ Word("55").code = "55" /\ Word("80").code = "80"
  /\ Word("90").code = "90" /\ Word("A0").code = "A0" /\ Word("F0").code = "F0"
<1>1. \A code \in Codes : Word(code).code = code
  BY DEF Word, Cycle
<1>2. QED
  BY <1>1 DEF Codes

\* The reset and ID sequences hold no word that sets the chip to work.
LEMMA IdleWords ==
  \A s \in {ResetWord, ResetTwice, IdSequence} :
     \A j \in 1 .. Len(s) : s[j].code \notin Working
<1>1. \A j \in 1 .. Len(ResetWord) : ResetWord[j].code \notin Working
  BY WordCodes DEF ResetWord, Working
<1>2. \A j \in 1 .. Len(ResetTwice) : ResetTwice[j].code \notin Working
  BY WordCodes DEF ResetTwice, Working
<1>3. \A j \in 1 .. Len(IdSequence) : IdSequence[j].code \notin Working
  BY WordCodes DEF IdSequence, Working
<1>4. QED
  BY <1>1, <1>2, <1>3

\* Of an erase sequence's six words only the last does.
LEMMA EraseWords ==
  ASSUME NEW last
  PROVE  /\ Len(EraseSequence(last)) = 6 /\ EraseSequence(last)[6] = last
         /\ \A j \in 1 .. 5 : EraseSequence(last)[j].code \notin Working
  BY WordCodes DEF EraseSequence, Working

\* Of a program sequence's four words only the last does.
LEMMA ProgramWords ==
  ASSUME NEW wa, NEW w
  PROVE  /\ Len(ProgramSequence(wa, w)) = 4 /\ ProgramSequence(wa, w)[4].code = "data"
         /\ \A j \in 1 .. 3 : ProgramSequence(wa, w)[j].code \notin Working
  BY WordCodes DEF ProgramSequence, Cycle, Working

\* Steps that leave the chip, the buffer and the order alone and go to a place
\* that asks nothing of the chip.
LEMMA PassiveControl ==
  ASSUME TypeInv, Control,
         \/ TaskPoll \/ Parse \/ Identify \/ SampleId \/ ReadWord \/ EraseStarted
         \/ Undefined \/ AvrReset \/ SendResponse \/ \E cmd \in Commands : RefuseWhileErasing(cmd)
  PROVE  Control'
<1>1. /\ UNCHANGED <<mode, oe_buf, order>> /\ bus = <<>>
      /\ pc \in {"loop", "parse", "dispatch", "identify", "read", "erase", "respond"}
  BY DEF TaskPoll, Parse, Identify, SampleId, ReadWord, EraseStarted, Undefined, AvrReset,
    SendResponse, RefuseWhileErasing, Dispatch, At, Reject, chipVars
<1>2. /\ pc' \in {"loop", "parse", "dispatch", "identify", "read", "respond", "reset"}
      /\ bus' \in {<<>>, IdSequence, ResetWord} /\ (pc' = "loop" => bus' = <<>>)
  BY DEF TaskPoll, Parse, Identify, SampleId, ReadWord, EraseStarted, Undefined, AvrReset,
    SendResponse, RefuseWhileErasing, Dispatch, At, Reject
<1>3. /\ pc = "erase" => erase_in_progress'
      /\ ~Ready => (erase_in_progress => erase_in_progress')
  <2>1. CASE TaskPoll
    BY <2>1, Zenon DEF TaskPoll, At
  <2>2. CASE EraseStarted
    BY <2>2, Zenon DEF EraseStarted
  <2>3. CASE Parse \/ Identify \/ SampleId \/ ReadWord \/ Undefined \/ AvrReset
             \/ SendResponse \/ \E cmd \in Commands : RefuseWhileErasing(cmd)
    <3>1. pc # "erase" /\ erase_in_progress' = erase_in_progress
      BY <2>3 DEF Parse, Identify, SampleId, ReadWord, Undefined, AvrReset, SendResponse,
        RefuseWhileErasing, Dispatch, At
    <3>2. QED
      BY <3>1, Zenon
  <2>4. QED
    BY <2>1, <2>2, <2>3
<1>4. LastWord'
  BY <1>1, <1>2, IdleWords DEF LastWord, Working
<1>5. QED
  BY <1>1, <1>2, <1>3, <1>4 DEF Control, Guarded, ReadyHere, ProgramWaited,
    EraseTracked, BusyIsolated, Ready, Busy, Excused

\* Only a worn chip fails, and what that leaves behind is excused.
LEMMA FailedIsWorn ==
  ASSUME TypeInv
  PROVE  mode = "failed" => Excused
  BY DEF TypeInv, TypeOK, ChipTypeOK, Excused

\* READ and FLASH_RESET leave the chip ready.
LEMMA ReadControl ==
  ASSUME TypeInv, Control, Read \/ FlashReset
  PROVE  Control'
<1>1. /\ bus = <<>> /\ bus' \in {<<>>, ResetWord}
      /\ pc = "dispatch" /\ pc' \in {"read", "respond"}
  BY DEF Read, FlashReset, Dispatch, At, Reject, StartRead
<1>2. CASE HwReset
  <2>1. mode' = "read"
    BY <1>2 DEF HwReset
  <2>2. LastWord'
    BY <1>1, IdleWords DEF LastWord, Working
  <2>3. QED
    BY <1>1, <2>1, <2>2 DEF Control, Guarded, ReadyHere, ProgramWaited, EraseTracked,
      BusyIsolated, Ready, Busy
<1>3. CASE UNCHANGED <<mode, bus, erase_in_progress, oe_buf, order>>
  <2>1. Len(bus') = 0
    BY <1>1, <1>3
  <2>2. QED
    BY <1>1, <1>3, <2>1 DEF Control, LastWord, Guarded, ReadyHere, ProgramWaited,
      EraseTracked, BusyIsolated, Ready, Busy, Excused
<1>4. QED
  BY <1>2, <1>3 DEF Read, FlashReset, StartRead, chipVars

\* An erase begins on a chip that is ready, or that an AVR reset has left busy.
LEMMA StartEraseControl ==
  ASSUME TypeInv, Control, NEW last, last.code \in {"10", "30"},
         At("dispatch"), StartErase(last)
  PROVE  Control'
<1>1. /\ UNCHANGED mode /\ ~erase_in_progress /\ ~erase_in_progress'
      /\ oe_buf' = "isolated" /\ pc = "dispatch" /\ pc' = "erase"
      /\ bus' = EraseSequence(last)
      /\ order'.upset = IF Ready THEN "none" ELSE order.upset
  BY DEF StartErase, Begin, At, chipVars
<1>2. /\ Len(bus') = 6 /\ bus'[6] = last
      /\ \A j \in 1 .. 5 : bus'[j].code \notin Working
  BY <1>1, EraseWords
<1>3. LastWord'
  <2>1. last.code # "data"
    OBVIOUS
  <2>2. \A j \in 1 .. 6 : j = 6 \/ j \in 1 .. 5
    OBVIOUS
  <2>3. QED
    BY <1>1, <1>2, <2>1, <2>2 DEF LastWord, Working
<1>4. Ready \/ Excused
  BY <1>1, FailedIsWorn DEF Control, EraseTracked, ProgramWaited, Ready, Busy, Excused
<1>5. (Ready \/ Excused)'
  BY <1>1, <1>4 DEF Ready, Excused
<1>6. QED
  BY <1>1, <1>3, <1>5 DEF Control, Guarded, ReadyHere, ProgramWaited, EraseTracked,
    BusyIsolated

\* Both erase commands isolate first, and start on a chip that is ready.
LEMMA EraseControl ==
  ASSUME TypeInv, Control, ChipErase \/ SectorErase
  PROVE  Control'
<1>1. Word("10").code = "10" /\ Cycle("30", Cell(req.addr), {}).code = "30"
  BY DEF Word, Cycle
<1>2. QED
  BY <1>1, PassiveControl, StartEraseControl
  DEF ChipErase, SectorErase, Dispatch, Commands

\* The buffer is given back, and the reset word sent, to a chip that is ready.
LEMMA StatusControl ==
  ASSUME TypeInv, Control, GetStatus \/ Release
  PROVE  Control'
<1>1. CASE GetStatus /\ erase_in_progress /\ Ready
  <2>1. /\ UNCHANGED <<mode, oe_buf, order>> /\ bus' = ResetWord /\ pc' = "release"
    BY <1>1 DEF GetStatus, chipVars
  <2>2. LastWord'
    BY <2>1, IdleWords DEF LastWord, Working
  <2>3. QED
    BY <1>1, <2>1, <2>2 DEF Control, Guarded, ReadyHere, ProgramWaited, EraseTracked,
      BusyIsolated, Ready, Busy
<1>2. CASE GetStatus /\ ~(erase_in_progress /\ Ready)
  <2>1. /\ UNCHANGED <<mode, erase_in_progress, oe_buf, order>>
        /\ bus = <<>> /\ bus' = <<>> /\ pc = "dispatch" /\ pc' = "respond"
    BY <1>2 DEF GetStatus, Dispatch, At, Reject, chipVars
  <2>2. Len(bus') = 0
    BY <2>1
  <2>3. QED
    BY <2>1, <2>2 DEF Control, LastWord, Guarded, ReadyHere, ProgramWaited,
      EraseTracked, BusyIsolated, Ready, Busy, Excused
<1>3. CASE Release
  <2>1. /\ UNCHANGED <<mode, erase_in_progress, order>> /\ bus = <<>> /\ bus' = <<>>
        /\ pc = "release" /\ pc' = "respond"
    BY <1>3 DEF Release, At, chipVars
  <2>2. Len(bus') = 0 /\ (Ready \/ Excused)
    BY <2>1 DEF Control, ReadyHere
  <2>3. QED
    BY <2>1, <2>2 DEF Control, LastWord, Guarded, ReadyHere, ProgramWaited,
      EraseTracked, BusyIsolated, Ready, Busy, Excused
<1>4. QED
  BY <1>1, <1>2, <1>3

\* PROGRAM begins as an erase does; its loop waits for every word.
LEMMA ProgramControl ==
  ASSUME TypeInv, Control, Program
  PROVE  Control'
<1>1. CASE RefuseWhileErasing("PROGRAM")
  BY <1>1, PassiveControl DEF Commands
<1>2. CASE Dispatch("PROGRAM") /\ OutOfRange
           /\ UNCHANGED <<chipVars, bus, erase_in_progress, oe_buf, order>>
           /\ pc' = "respond"
  <2>1. /\ UNCHANGED <<mode, erase_in_progress, oe_buf, order>>
        /\ bus = <<>> /\ bus' = <<>> /\ pc = "dispatch" /\ pc' = "respond"
    BY <1>2 DEF Dispatch, At, chipVars
  <2>2. Len(bus') = 0
    BY <2>1
  <2>3. QED
    BY <2>1, <2>2 DEF Control, LastWord, Guarded, ReadyHere, ProgramWaited,
      EraseTracked, BusyIsolated, Ready, Busy, Excused
<1>3. CASE /\ Dispatch("PROGRAM") /\ ~erase_in_progress
           /\ oe_buf' = "isolated" /\ pc' = "program"
           /\ order'.upset = IF Ready THEN "none" ELSE order.upset
           /\ UNCHANGED <<chipVars, bus, erase_in_progress>>
  <2>1. /\ UNCHANGED <<mode, erase_in_progress>> /\ bus = <<>> /\ bus' = <<>>
        /\ pc = "dispatch" /\ ~erase_in_progress /\ ~erase_in_progress'
    BY <1>3 DEF Dispatch, At, chipVars
  <2>2. Len(bus') = 0
    BY <2>1
  <2>3. Ready \/ Excused
    BY <2>1, FailedIsWorn DEF Control, EraseTracked, ProgramWaited, Ready, Busy, Excused
  <2>4. (Ready \/ Excused)'
    BY <1>3, <2>1, <2>3 DEF Ready, Excused
  <2>5. mode' = "erasing" => order'.upset = "AVR_RESET"
    BY <1>3, <2>1 DEF Control, EraseTracked, Ready, Busy
  <2>6. mode' = "programming" => Worn
    BY <2>1 DEF Control, ProgramWaited
  <2>7. QED
    BY <1>3, <2>1, <2>2, <2>4, <2>5, <2>6 DEF Control, LastWord, Guarded, ReadyHere,
      ProgramWaited, EraseTracked, BusyIsolated
<1>4. QED
  BY <1>1, <1>2, <1>3 DEF Program, Begin, Reject

\* The next word is sent to a chip that is ready.
LEMMA ProgramWordControl ==
  ASSUME TypeInv, Control, ProgramWord
  PROVE  Control'
<1>1. /\ UNCHANGED <<mode, erase_in_progress, oe_buf, order>> /\ bus = <<>>
      /\ pc = "program"
  BY DEF ProgramWord, At, chipVars
<1>2. Ready \/ Excused
  BY <1>1 DEF Control, ReadyHere
<1>3. mode = "programming" => Worn
  BY <1>1 DEF Control, ProgramWaited
<1>4. CASE pc' = "release" /\ bus' = ResetWord
  <2>1. LastWord'
    BY <1>4, IdleWords DEF LastWord, Working
  <2>2. QED
    BY <1>1, <1>2, <1>3, <1>4, <2>1 DEF Control, Guarded, ReadyHere, ProgramWaited,
      EraseTracked, BusyIsolated, Ready, Excused
<1>5. CASE pc' = "wait" /\ bus' = ProgramSequence(req.addr + i, req.data[i + 1])
  <2>1. /\ Len(bus') = 4 /\ bus'[4].code = "data"
        /\ \A j \in 1 .. 3 : bus'[j].code \notin Working
    BY <1>5, ProgramWords
  <2>2. \A j \in 1 .. 4 : j = 4 \/ j \in 1 .. 3
    OBVIOUS
  <2>3. LastWord'
    BY <1>5, <2>1, <2>2 DEF LastWord, Working
  <2>4. QED
    BY <1>1, <1>2, <1>3, <1>5, <2>3 DEF Control, Guarded, ReadyHere, ProgramWaited,
      EraseTracked, BusyIsolated, Ready, Excused
<1>6. QED
  BY <1>4, <1>5 DEF ProgramWord

\* wait_ready(): the next word is reached on RY/BY high only.
LEMMA WaitControl ==
  ASSUME TypeInv, Control, WaitReady \/ WaitTimeout
  PROVE  Control'
<1>1. /\ UNCHANGED <<mode, erase_in_progress, oe_buf, order>> /\ bus = <<>>
      /\ pc = "wait"
  BY DEF WaitReady, WaitTimeout, At, chipVars
<1>2. CASE WaitReady
  <2>1. Ready /\ pc' = "program" /\ bus' = <<>>
    BY <1>2, <1>1 DEF WaitReady
  <2>2. Len(bus') = 0
    BY <2>1
  <2>3. QED
    BY <1>1, <2>1, <2>2 DEF Control, LastWord, Guarded, ReadyHere, ProgramWaited,
      EraseTracked, BusyIsolated, Ready, Busy
<1>3. CASE WaitTimeout
  <2>1. /\ Worn \/ mode = "erasing"
        /\ pc' = "release" /\ bus' = ResetTwice
    BY <1>3 DEF WaitTimeout
  <2>2. Excused
    BY <1>1, <2>1 DEF Control, Guarded, EraseTracked, Excused
  <2>3. LastWord'
    BY <2>1, IdleWords DEF LastWord, Working
  <2>4. QED
    BY <1>1, <2>1, <2>2, <2>3 DEF Control, Guarded, ReadyHere, ProgramWaited,
      EraseTracked, BusyIsolated, Excused
<1>4. QED
  BY <1>2, <1>3

\* A restart forgets the flag: the order remembers that it did.
LEMMA RestartControl ==
  ASSUME TypeInv, Control, PullReset \/ FlashInit \/ PowerLoss
  PROVE  Control'
<1>1. CASE PullReset
  <2>1. /\ UNCHANGED mode /\ pc = "reset" /\ pc' = "boot" /\ bus' = <<>>
        /\ ~Ready => order'.upset = "AVR_RESET"
    BY <1>1 DEF PullReset, Restart, At, chipVars, TypeInv, TypeOK
  <2>2. Len(bus') = 0
    BY <2>1
  <2>3. mode = "programming" => Worn
    BY <2>1 DEF Control, ProgramWaited
  <2>4. QED
    BY <2>1, <2>2, <2>3 DEF Control, LastWord, Guarded, ReadyHere, ProgramWaited,
      EraseTracked, BusyIsolated, Ready, Busy, Excused
<1>2. CASE FlashInit
  <2>1. /\ UNCHANGED <<bus, erase_in_progress, oe_buf, order>> /\ bus = <<>>
        /\ pc = "boot" /\ pc' = "loop"
    BY <1>2 DEF FlashInit, Control, LastWord
  <2>2. mode' \notin Busy \/ mode' = mode
    BY <1>2, WordCodes DEF FlashInit, Write, Decoded, Ready, Busy
  <2>3. Len(bus') = 0
    BY <2>1
  <2>4. QED
    BY <2>1, <2>2, <2>3 DEF Control, LastWord, Guarded, ReadyHere, ProgramWaited,
      EraseTracked, BusyIsolated, Ready, Busy, Excused
<1>3. CASE PowerLoss
  BY <1>3, IdleControl DEF PowerLoss, HwReset, Restart
<1>4. QED
  BY <1>1, <1>2, <1>3

\* The end of an algorithm only ever makes the chip ready.
LEMMA EnvironmentControl ==
  ASSUME TypeInv, Control, HostSend \/ UsbChange \/ MoveSwitch \/ ChipDone
  PROVE  Control'
<1>1. CASE HostSend \/ UsbChange \/ MoveSwitch
  <2>1. UNCHANGED <<mode, pc, bus, erase_in_progress, oe_buf, order>>
    BY <1>1 DEF HostSend, UsbChange, MoveSwitch, chipVars, fwVars
  <2>2. QED
    BY <2>1 DEF Control, LastWord, Guarded, ReadyHere, ProgramWaited, EraseTracked,
      BusyIsolated, Ready, Excused
<1>2. CASE ChipDone
  <2>1. /\ UNCHANGED <<pc, bus, erase_in_progress, oe_buf, order>>
        /\ mode' = "read" \/ (mode' = "failed" /\ Worn)
    BY <1>2 DEF ChipDone, Finish, Succeed, Fail, fwVars
  <2>2. QED
    BY <2>1 DEF Control, LastWord, Guarded, ReadyHere, ProgramWaited, EraseTracked,
      BusyIsolated, Ready, Busy, Excused
<1>3. QED
  BY <1>1, <1>2

\* Every step keeps the control invariant.
LEMMA ControlStep == TypeInv /\ Control /\ [Next]_vars => Control'
<1> SUFFICES ASSUME TypeInv, Control, [Next]_vars PROVE Control'
  OBVIOUS
<1>1. CASE Task
  BY <1>1, FlashCmdControl, PassiveControl, ReadControl, EraseControl, StatusControl,
    ProgramControl, ProgramWordControl, WaitControl, RestartControl
  DEF Task
<1>2. CASE FlashInit \/ ChipDone \/ Environment
  BY <1>2, RestartControl, EnvironmentControl DEF Environment
<1>3. CASE UNCHANGED vars
  BY <1>3 DEF Control, LastWord, Guarded, ReadyHere, ProgramWaited, EraseTracked,
    BusyIsolated, Ready, Excused, vars, chipVars, fwVars
<1>4. QED
  BY <1>1, <1>2, <1>3 DEF Next

\* The inductive invariant, for every chip, sector map and set of requests.
THEOREM Invariance == Spec => []IInv
<1>1. TypeInv /\ Control => IInv
  BY DEF TypeInv, Control, IInv
<1>2. QED
  BY InitType, TypeStep, InitControl, ControlStep, <1>1, PTL DEF Spec

\* While the chip erases, erase_in_progress is up, or the erase sequence has only
\* just been sent; only an AVR reset makes the firmware forget.
THEOREM EraseIsTracked == Spec => []EraseTracked
<1>1. IInv => EraseTracked
  BY DEF IInv
<1>2. QED
  BY Invariance, <1>1, PTL

\* While the chip is busy Gary's buffer is off /OE.
THEOREM BusyIsIsolated == Spec => []BusyIsolated
<1>1. IInv => BusyIsolated
  BY DEF IInv
<1>2. QED
  BY Invariance, <1>1, PTL

\* No word of an erase or program sequence is sent to a busy chip.
THEOREM WordsAreHeard == Spec => []EveryWordHeard
<1>1. IInv => EveryWordHeard
  BY DEF IInv, ReadyHere, EveryWordHeard, Excused
<1>2. QED
  BY Invariance, <1>1, PTL

-----------------------------------------------------------------------------
(* Torn cells.                                                             *)

\* Only the end of an algorithm and a reset of the chip change a cell.
LEMMA MemoryChanges ==
  ASSUME Next, mem' # mem
  PROVE  \/ Finish
         \/ HwReset /\ pc = "dispatch" /\ req.cmd \in {"READ", "FLASH_RESET"}
         \/ HwReset /\ pc' = "boot"
<1>1. ASSUME Task PROVE HwReset /\ pc = "dispatch" /\ req.cmd \in {"READ", "FLASH_RESET"}
  BY <1>1 DEF Task, FlashCmd, Write, TaskPoll, Parse, Identify, SampleId, Read,
    FlashReset, StartRead, ReadWord, ChipErase, SectorErase, RefuseWhileErasing, StartErase,
    EraseStarted, GetStatus, Release, Program, ProgramWord, WaitReady, WaitTimeout,
    Undefined, AvrReset, SendResponse, PullReset, Dispatch, At, chipVars
<1>2. ASSUME FlashInit \/ ChipDone \/ Environment
      PROVE  Finish \/ (HwReset /\ pc' = "boot")
  BY <1>2 DEF FlashInit, Write, ChipDone, Environment, HostSend, UsbChange,
    MoveSwitch, PowerLoss, Restart, chipVars
<1>3. QED
  BY <1>1, <1>2 DEF Next

\* A cell holds a word, or is torn, and an algorithm that succeeds tears none.
LEMMA SuccessTearsNone ==
  ASSUME ChipTypeOK, Succeed, NEW c \in Cells, mem[c] # Unknown
  PROVE  mem'[c] # Unknown
<1>1. mem[c] \in Words /\ job.word \in Words
  BY DEF ChipTypeOK, Contents
<1>2. Overlay(mem[c], job.word) \in Words /\ Bits \in Words
  BY <1>1 DEF Overlay, Words
<1>3. Unknown \notin Words
  BY MarkerAssumption
<1>4. QED
  BY <1>2, <1>3 DEF Succeed

\* No cell is torn by an erase or program left to run: only a READ or a
\* FLASH_RESET in the middle of it does that, the loss of power, or its own failure.
THEOREM ResetsAloneTear == Spec => OnlyResetsTear
<1> DEFINE Tear == \A c \in Cells : mem[c] # Unknown /\ mem'[c] = Unknown =>
                     \/ pc = "dispatch" /\ req.cmd \in {"READ", "FLASH_RESET"}
                     \/ pc' = "boot" \/ mode' = "failed"
<1>1. TypeOK /\ [Next]_vars => [Tear]_vars
  <2> SUFFICES ASSUME TypeOK, Next,
                      NEW c \in Cells, mem[c] # Unknown, mem'[c] = Unknown
               PROVE  \/ pc = "dispatch" /\ req.cmd \in {"READ", "FLASH_RESET"}
                      \/ pc' = "boot" \/ mode' = "failed"
    OBVIOUS
  <2>1. mem' # mem
    OBVIOUS
  <2>2. Finish => mode' = "failed"
    BY SuccessTearsNone DEF TypeOK, Finish, Fail
  <2>3. QED
    BY <2>1, <2>2, MemoryChanges
<1>2. QED
  BY TypeCorrect, <1>1, PTL DEF Spec, OnlyResetsTear

-----------------------------------------------------------------------------
(***************************************************************************)
(* An OK is true of the flash, and a cell changes only as an order says.   *)
(* DataInv is proved part by part, each under the invariants above and the *)
(* parts before it: which words are on the way, what the chip's decoder    *)
(* has made of them, what is left of the order, what the answers say.      *)
(***************************************************************************)

\* What every part may rely on.
Known == TypeInv /\ Control

-----------------------------------------------------------------------------
(* The words on the way.                                                   *)

\* flash_cmd() takes the first word off the bus and leaves the others in order.
LEMMA BusTail ==
  ASSUME TypeInv, FlashCmd
  PROVE  /\ Len(bus) \in Nat \ {0} /\ Head(bus) = bus[1]
         /\ Len(bus') = Len(bus) - 1
         /\ \A j \in 1 .. Len(bus') : bus'[j] = bus[j + 1]
         /\ bus' = <<>> <=> Len(bus) = 1
         /\ bus' # <<>> => LastOnBus' = LastOnBus
<1>1. bus \in Seq(Cycles) /\ bus # <<>> /\ bus' = Tail(bus)
  BY DEF TypeInv, TypeOK, FlashCmd
<1>2. Len(bus) \in Nat \ {0} /\ Head(bus) = bus[1]
  BY <1>1, EmptySeq
<1>3. /\ bus' \in Seq(Cycles) /\ Len(bus') = Len(bus) - 1
      /\ \A j \in 1 .. Len(bus') : bus'[j] = bus[j + 1]
  BY <1>1, HeadTailProperties
<1>4. bus' = <<>> <=> Len(bus') = 0
  BY <1>3, EmptySeq
<1>5. ASSUME bus' # <<>> PROVE LastOnBus' = LastOnBus
  <2>1. Len(bus') \in 1 .. Len(bus')
    BY <1>2, <1>3, <1>4, <1>5
  <2>2. bus'[Len(bus')] = bus[Len(bus') + 1]
    BY <1>3, <2>1
  <2>3. QED
    BY <1>2, <1>3, <2>2 DEF LastOnBus
<1>6. QED
  BY <1>2, <1>3, <1>4, <1>5

\* What is left of a sequence stays what is left of it.
LEMMA RestShifts ==
  ASSUME TypeInv, FlashCmd, NEW codes, Len(codes) \in Nat, Rest(codes)
  PROVE  Rest(codes)'
<1>1. /\ Len(bus) \in Nat \ {0} /\ Len(bus') = Len(bus) - 1
      /\ \A j \in 1 .. Len(bus') : bus'[j] = bus[j + 1]
  BY BusTail
<1>2. ASSUME NEW j \in 1 .. Len(bus')
      PROVE  bus'[j].code = codes[Len(codes) - Len(bus') + j]
  <2>1. j + 1 \in 1 .. Len(bus) /\ bus'[j] = bus[j + 1]
    BY <1>1
  <2>2. bus[j + 1].code = codes[Len(codes) - Len(bus) + (j + 1)]
    BY <2>1 DEF Rest
  <2>3. Len(codes) - Len(bus) + (j + 1) = Len(codes) - Len(bus') + j
    BY <1>1
  <2>4. QED
    BY <2>1, <2>2, <2>3
<1>3. Len(bus') <= Len(codes)
  BY <1>1 DEF Rest
<1>4. QED
  BY <1>2, <1>3 DEF Rest

\* The sequences protocol.c sends are the ones OnTheWay names.
LEMMA SequenceRests ==
  ASSUME NEW last, NEW wa, NEW w
  PROVE  /\ bus' = <<>> => Rest(<<"F0", "F0">>)'
         /\ bus' = ResetWord => Rest(<<"F0", "F0">>)' /\ Rest(<<"F0">>)'
         /\ bus' = ResetTwice => Rest(<<"F0", "F0">>)'
         /\ bus' = IdSequence => Rest(<<"AA", "55", "90">>)'
         /\ bus' = <<>> => Rest(<<"AA", "55", "90">>)'
         /\ bus' = EraseSequence(last) =>
              Rest(<<"AA", "55", "80", "AA", "55", last.code>>)' /\ LastOnBus' = last
         /\ bus' = ProgramSequence(wa, w) =>
              /\ Rest(<<"AA", "55", "A0", "data">>)'
              /\ LastOnBus' = Cycle("data", Cell(wa), w)
<1>1. bus' = <<>> => Rest(<<"F0", "F0">>)' /\ Rest(<<"AA", "55", "90">>)'
  BY DEF Rest
<1>2. bus' = ResetWord => Rest(<<"F0", "F0">>)' /\ Rest(<<"F0">>)'
  BY WordCodes DEF Rest, ResetWord
<1>3. bus' = ResetTwice => Rest(<<"F0", "F0">>)'
  BY WordCodes DEF Rest, ResetTwice
<1>4. bus' = IdSequence => Rest(<<"AA", "55", "90">>)'
  BY WordCodes DEF Rest, IdSequence
<1>5. bus' = EraseSequence(last) =>
        Rest(<<"AA", "55", "80", "AA", "55", last.code>>)' /\ LastOnBus' = last
  BY WordCodes DEF Rest, EraseSequence, LastOnBus
<1>6. bus' = ProgramSequence(wa, w) =>
        /\ Rest(<<"AA", "55", "A0", "data">>)'
        /\ LastOnBus' = Cycle("data", Cell(wa), w)
  BY WordCodes DEF Rest, ProgramSequence, LastOnBus, Cycle
<1>7. QED
  BY <1>1, <1>2, <1>3, <1>4, <1>5, <1>6

\* OnTheWay holds where nothing is on the way, and no word is expected.
LEMMA NothingOnTheWay ==
  ASSUME bus' = <<>>
  PROVE  OnTheWay'
<1>1. Len(bus') = 0
  OBVIOUS
<1>2. \A codes \in {<<"AA", "55", "90">>, <<"AA", "55", "A0", "data">>, <<"F0", "F0">>,
                    <<"F0">>, <<"AA", "55", "80", "AA", "55", "10">>} : Rest(codes)'
  BY <1>1 DEF Rest
<1>3. QED
  BY <1>2 DEF OnTheWay

\* flash_cmd() takes away the first of them.
LEMMA FlashCmdOnTheWay ==
  ASSUME Known, OnTheWay, FlashCmd
  PROVE  OnTheWay'
<1>1. /\ TypeInv /\ bus # <<>> /\ UNCHANGED <<pc, req, i, a19>>
      /\ bus' # <<>> => LastOnBus' = LastOnBus
  BY BusTail DEF Known, FlashCmd, envVars
<1>2. \A codes \in {<<"AA", "55", "90">>, <<"AA", "55", "A0", "data">>, <<"F0", "F0">>,
                    <<"F0">>, <<"AA", "55", "80", "AA", "55", "10">>,
                    <<"AA", "55", "80", "AA", "55", "30">>} :
        Rest(codes) => Rest(codes)'
  BY <1>1, RestShifts
<1>3. Cell(req.addr + i)' = Cell(req.addr + i) /\ Cell(req.addr)' = Cell(req.addr)
  BY <1>1 DEF Cell
<1>4. pc \in {"erase", "wait"} /\ bus' # <<>> => OnTheWay'
  <2>1. pc = "erase" /\ bus' # <<>> =>
          \/ req'.cmd = "CHIP_ERASE" /\ LastOnBus' = Word("10")
          \/ req'.cmd = "SECTOR_ERASE" /\ LastOnBus' = Cycle("30", Cell(req.addr)', {})
    BY <1>1, <1>3 DEF OnTheWay
  <2>2. pc = "wait" /\ bus' # <<>> =>
          LastOnBus' = Cycle("data", Cell(req.addr + i)', req'.data[i' + 1])
    BY <1>1, <1>3 DEF OnTheWay
  <2>3. QED
    BY <1>1, <1>2, <2>1, <2>2 DEF OnTheWay
<1>5. pc \notin {"erase", "wait"} \/ bus' = <<>> => OnTheWay'
  BY <1>1, <1>2 DEF OnTheWay
<1>6. QED
  BY <1>4, <1>5

\* Every function that sends words sends its own; the others find none on the way
\* and leave none.
LEMMA OnTheWayStep ==
  ASSUME Known, OnTheWay, [Next]_vars
  PROVE  OnTheWay'
<1>1. ASSUME HostSend \/ UsbChange \/ MoveSwitch \/ ChipDone \/ UNCHANGED vars
      PROVE  OnTheWay'
  <2>1. UNCHANGED <<pc, bus, req, i>> /\ (pc = "loop" \/ a19' = a19)
    BY <1>1 DEF HostSend, UsbChange, MoveSwitch, ChipDone, vars, fwVars, envVars
  <2>2. pc = "loop" => bus' = <<>>
    BY <2>1 DEF OnTheWay
  <2>3. pc # "loop" => /\ Cell(req.addr + i)' = Cell(req.addr + i)
                       /\ Cell(req.addr)' = Cell(req.addr)
    BY <2>1 DEF Cell
  <2>4. QED
    BY <2>1, <2>2, <2>3, NothingOnTheWay DEF OnTheWay, Rest, LastOnBus
<1>2. ASSUME \/ TaskPoll \/ Parse \/ ReadWord \/ EraseStarted \/ Release
             \/ WaitReady \/ Undefined \/ AvrReset \/ SendResponse \/ PullReset
             \/ PowerLoss \/ FlashInit \/ Program
             \/ \E cmd \in Commands : RefuseWhileErasing(cmd)
      PROVE  OnTheWay'
  <2>1. bus' = <<>>
    BY <1>2 DEF TaskPoll, Parse, ReadWord, EraseStarted, Release, WaitReady,
      Undefined, AvrReset, SendResponse, PullReset, PowerLoss, FlashInit, Program,
      RefuseWhileErasing, Restart, Dispatch, At, OnTheWay
  <2>2. QED
    BY <2>1, NothingOnTheWay
<1>3. ASSUME Identify PROVE OnTheWay'
  BY <1>3, SequenceRests DEF Identify, OnTheWay
<1>4. ASSUME SampleId \/ GetStatus \/ WaitTimeout \/ Read \/ FlashReset PROVE OnTheWay'
  <2>1. \/ bus' = <<>>
        \/ bus' \in {ResetWord, ResetTwice} /\ pc' \in {"respond", "release"}
        \/ bus' = ResetWord /\ pc' = "read"
    BY <1>4 DEF SampleId, GetStatus, WaitTimeout, Read, FlashReset, StartRead, Dispatch, At
  <2>2. QED
    BY <2>1, NothingOnTheWay, SequenceRests DEF OnTheWay
<1>5. ASSUME NEW last, last.code \in {"10", "30"}, StartErase(last),
             \/ req.cmd = "CHIP_ERASE" /\ last = Word("10")
             \/ req.cmd = "SECTOR_ERASE" /\ last = Cycle("30", Cell(req.addr), {})
      PROVE  OnTheWay'
  <2>1. UNCHANGED <<req, a19>> /\ Cell(req.addr)' = Cell(req.addr)
    BY <1>5 DEF StartErase, envVars, Cell
  <2>2. QED
    BY <1>5, <2>1, SequenceRests DEF StartErase, OnTheWay
<1>6. ASSUME ProgramWord PROVE OnTheWay'
  <2>1. CASE bus' = ResetWord /\ pc' = "release"
    BY <2>1, SequenceRests DEF OnTheWay
  <2>2. CASE /\ bus' = ProgramSequence(req.addr + i, req.data[i + 1])
             /\ pc' = "wait"
    <3>1. UNCHANGED <<req, i, a19>>
      BY <1>6 DEF ProgramWord, envVars
    <3>2. Cell(req.addr + i)' = Cell(req.addr + i)
      BY <3>1 DEF Cell
    <3>3. QED
      BY <2>2, <3>1, <3>2, SequenceRests DEF OnTheWay
  <2>3. QED
    BY <1>6, <2>1, <2>2 DEF ProgramWord
<1>7. ASSUME ChipErase \/ SectorErase PROVE OnTheWay'
  <2>1. Word("10").code = "10" /\ Cycle("30", Cell(req.addr), {}).code = "30"
    BY DEF Word, Cycle
  <2>2. QED
    BY <1>2, <1>5, <1>7, <2>1 DEF ChipErase, SectorErase, Commands, Dispatch
<1>8. QED
  BY <1>1, <1>2, <1>3, <1>4, <1>6, <1>7, FlashCmdOnTheWay
  DEF Next, Task, Environment

-----------------------------------------------------------------------------
(* The decoder.                                                            *)

\* A step that leaves the chip in read mode, with no sequence begun, or with its
\* first word still to come.
LEMMA DecoderAtRest ==
  ASSUME mode' = "read", job' = NoJob,
         \/ pc' \notin {"erase", "wait", "identify"}
         \/ pc' # "identify" /\ bus' = <<>>
         \/ pc' = "erase" /\ Len(bus') = 6
         \/ pc' = "wait" /\ Len(bus') = 4
         \/ pc' = "identify" /\ Len(bus') = 3
  PROVE  Decoder'
<1>1. Heard' \/ pc' \notin {"erase", "wait", "identify"}
  <2>1. /\ EraseModes[7 - 6] = "read" /\ ProgramModes[5 - 4] = "read"
        /\ IdModes[4 - 3] = "read"
    BY DEF EraseModes, ProgramModes, IdModes
  <2>2. CASE pc' # "identify" /\ bus' = <<>>
    BY <2>2 DEF Heard
  <2>3. CASE pc' = "erase" /\ Len(bus') = 6
    BY <2>1, <2>3 DEF Heard
  <2>4. CASE pc' = "wait" /\ Len(bus') = 4
    BY <2>1, <2>4 DEF Heard
  <2>5. CASE pc' = "identify" /\ Len(bus') = 3
    BY <2>1, <2>5 DEF Heard
  <2>6. QED
    BY <2>2, <2>3, <2>4, <2>5
<1>2. Astray'
  BY DEF Astray
<1>3. QED
  BY <1>1, <1>2 DEF Decoder

\* A step at the end of which the chip is busy.
LEMMA DecoderBusy ==
  ASSUME ~Ready'
  PROVE  Decoder'
  BY DEF Decoder

\* With no word on the way the decoder is where it started.
LEMMA DecoderIdle ==
  ASSUME Decoder, Ready, bus = <<>>, pc # "identify"
  PROVE  mode = "read" /\ job = NoJob
<1>1. Len(bus) = 0
  OBVIOUS
<1>2. QED
  BY <1>1 DEF Decoder, Heard, Astray

\* The next word of each sequence, by the number n of words left.
LEMMA NextCodes ==
  ASSUME NEW n \in Nat \ {0}, Len(bus) = n, NEW last
  PROVE  /\ Rest(<<"AA", "55", "90">>) =>
              /\ n \in 1 .. 3
              /\ n = 3 => bus[1].code = "AA"
              /\ n = 2 => bus[1].code = "55"
              /\ n = 1 => bus[1].code = "90"
         /\ Rest(<<"AA", "55", "A0", "data">>) =>
              /\ n \in 1 .. 4
              /\ n = 4 => bus[1].code = "AA"
              /\ n = 3 => bus[1].code = "55"
              /\ n = 2 => bus[1].code = "A0"
              /\ n = 1 => bus[1].code = "data"
         /\ Rest(<<"AA", "55", "80", "AA", "55", last>>) =>
              /\ n \in 1 .. 6
              /\ n = 6 => bus[1].code = "AA"
              /\ n = 5 => bus[1].code = "55"
              /\ n = 4 => bus[1].code = "80"
              /\ n = 3 => bus[1].code = "AA"
              /\ n = 2 => bus[1].code = "55"
              /\ n = 1 => bus[1].code = last
         /\ Rest(<<"F0", "F0">>) \/ Rest(<<"F0">>) => bus[1].code = "F0"
<1>1. ASSUME Rest(<<"AA", "55", "90">>)
      PROVE  n <= 3 /\ bus[1].code = <<"AA", "55", "90">>[3 - n + 1]
  BY <1>1 DEF Rest
<1>2. ASSUME Rest(<<"AA", "55", "A0", "data">>)
      PROVE  n <= 4 /\ bus[1].code = <<"AA", "55", "A0", "data">>[4 - n + 1]
  BY <1>2 DEF Rest
<1>3. ASSUME Rest(<<"AA", "55", "80", "AA", "55", last>>)
      PROVE  n <= 6 /\ bus[1].code = <<"AA", "55", "80", "AA", "55", last>>[6 - n + 1]
  <2>1. n <= 6
    BY <1>3 DEF Rest
  <2>2. bus[1].code = <<"AA", "55", "80", "AA", "55", last>>[6 - n + 1]
    BY <1>3, SMTT(20) DEF Rest
  <2>3. QED
    BY <2>1, <2>2
<1>4. ASSUME Rest(<<"F0", "F0">>)
      PROVE  n <= 2 /\ bus[1].code = <<"F0", "F0">>[2 - n + 1]
  BY <1>4 DEF Rest
<1>5. ASSUME Rest(<<"F0">>)
      PROVE  n <= 1 /\ bus[1].code = <<"F0">>[1 - n + 1]
  BY <1>5 DEF Rest
<1>6. QED
  BY <1>1, <1>2, <1>3, <1>4, <1>5

\* IDENTIFY's words.
LEMMA IdDecoded ==
  ASSUME NEW n \in Nat \ {0}, Len(bus) = n, Len(bus') = n - 1, pc = "identify", pc' = pc,
         Rest(<<"AA", "55", "90">>), mode' = Decoded(mode, bus[1].code)
  PROVE  /\ Heard => Heard' /\ mode' \notin Busy
         /\ Astray => (Heard' \/ Astray') /\ mode' \notin Busy
<1>1. /\ n \in 1 .. 3
      /\ n = 3 => bus[1].code = "AA"
      /\ n = 2 => bus[1].code = "55"
      /\ n = 1 => bus[1].code = "90"
  BY NextCodes
<1>2. Heard => mode = IdModes[4 - n]
  BY DEF Heard
<1>3. mode' = IdModes[4 - (n - 1)] => Heard'
  BY DEF Heard
<1>4. CASE n = 3
  BY <1>1, <1>2, <1>3, <1>4 DEF IdModes, Decoded, Astray, Busy
<1>5. CASE n = 2
  BY <1>1, <1>2, <1>3, <1>5 DEF IdModes, Decoded, Astray, Busy
<1>6. CASE n = 1
  BY <1>1, <1>2, <1>3, <1>6 DEF IdModes, Decoded, Astray, Busy
<1>7. QED
  BY <1>1, <1>4, <1>5, <1>6

\* The words of one word's programming.
LEMMA ProgramDecoded ==
  ASSUME NEW n \in Nat \ {0}, Len(bus) = n, Len(bus') = n - 1, pc = "wait", pc' = pc,
         bus # <<>>, bus' = <<>> <=> n = 1,
         Rest(<<"AA", "55", "A0", "data">>), mode' = Decoded(mode, bus[1].code)
  PROVE  /\ Heard => mode' = "programming" \/ (Heard' /\ bus' # <<>> /\ mode' \notin Busy)
         /\ Astray => (Heard' \/ Astray') /\ mode' \notin Busy
<1>1. /\ n \in 1 .. 4
      /\ n = 4 => bus[1].code = "AA"
      /\ n = 3 => bus[1].code = "55"
      /\ n = 2 => bus[1].code = "A0"
      /\ n = 1 => bus[1].code = "data"
  BY NextCodes
<1>2. Heard => mode = ProgramModes[5 - n]
  BY DEF Heard
<1>3. bus' # <<>> /\ mode' = ProgramModes[5 - (n - 1)] => Heard'
  BY DEF Heard
<1>4. CASE n = 4
  BY <1>1, <1>2, <1>3, <1>4 DEF ProgramModes, Decoded, Astray, Busy
<1>5. CASE n = 3
  BY <1>1, <1>2, <1>3, <1>5 DEF ProgramModes, Decoded, Astray, Busy
<1>6. CASE n = 2
  BY <1>1, <1>2, <1>3, <1>6 DEF ProgramModes, Decoded, Astray, Busy
<1>7. CASE n = 1
  BY <1>1, <1>2, <1>7 DEF ProgramModes, Decoded, Astray, Busy
<1>8. QED
  BY <1>1, <1>4, <1>5, <1>6, <1>7

\* An erase's words.
LEMMA EraseDecoded ==
  ASSUME NEW n \in Nat \ {0}, Len(bus) = n, Len(bus') = n - 1, pc = "erase", pc' = pc,
         bus # <<>>, bus' = <<>> <=> n = 1, NEW last \in {"10", "30"},
         Rest(<<"AA", "55", "80", "AA", "55", last>>), mode' = Decoded(mode, bus[1].code)
  PROVE  /\ Heard => mode' = "erasing" \/ (Heard' /\ bus' # <<>> /\ mode' \notin Busy)
         /\ Astray => (Heard' \/ Astray') /\ mode' \notin Busy
<1>1. /\ n \in 1 .. 6
      /\ n = 6 => bus[1].code = "AA"
      /\ n = 5 => bus[1].code = "55"
      /\ n = 4 => bus[1].code = "80"
      /\ n = 3 => bus[1].code = "AA"
      /\ n = 2 => bus[1].code = "55"
      /\ n = 1 => bus[1].code = last
  BY NextCodes
<1>2. Heard => mode = EraseModes[7 - n]
  BY DEF Heard
<1>3. bus' # <<>> /\ mode' = EraseModes[7 - (n - 1)] => Heard'
  BY DEF Heard
<1>4. CASE n = 6
  BY <1>1, <1>2, <1>3, <1>4 DEF EraseModes, Decoded, Astray, Busy
<1>5. CASE n = 5
  BY <1>1, <1>2, <1>3, <1>5 DEF EraseModes, Decoded, Astray, Busy
<1>6. CASE n = 4
  BY <1>1, <1>2, <1>3, <1>6 DEF EraseModes, Decoded, Astray, Busy
<1>7. CASE n = 3
  BY <1>1, <1>2, <1>3, <1>7 DEF EraseModes, Decoded, Astray, Busy
<1>8. CASE n = 2
  BY <1>1, <1>2, <1>3, <1>8 DEF EraseModes, Decoded, Astray, Busy
<1>9. CASE n = 1
  BY <1>1, <1>2, <1>9 DEF EraseModes, Decoded, Astray, Busy
<1>10. QED
  BY <1>1, <1>4, <1>5, <1>6, <1>7, <1>8, <1>9

\* One word of a sequence, heard in sequence or ignored until the chip is ready.
LEMMA FlashCmdDecoder ==
  ASSUME Known, OnTheWay, Decoder, FlashCmd
  PROVE  Decoder'
<1>1. /\ TypeInv /\ bus # <<>> /\ UNCHANGED <<pc, erase_in_progress, order>>
      /\ Len(bus) \in Nat \ {0} /\ Len(bus') = Len(bus) - 1
      /\ bus' = <<>> <=> Len(bus) = 1
  BY BusTail DEF Known, FlashCmd
<1>2. PICK n \in Nat \ {0} : Len(bus) = n
  BY <1>1
<1>3. CASE ~Ready
  <2>1. CASE mode' = mode
    BY <1>3, <2>1, DecoderBusy DEF Ready
  <2>2. CASE mode = "failed" /\ mode' = "read"
    <3>1. job' = NoJob /\ Worn
      BY <1>1, <1>3, <2>2 DEF FlashCmd, Write, TypeInv, TypeOK, ChipTypeOK
    <3>2. QED
      BY <2>2, <3>1 DEF Decoder, Astray, Excused
  <2>3. QED
    BY <1>3, <2>1, <2>2 DEF FlashCmd, Write
<1>4. CASE Ready
  <2>1. mode' = Decoded(mode, bus[1].code) /\ (mode' \notin Busy => job' = NoJob)
    <3>1. Head(bus) = bus[1]
      BY BusTail DEF Known
    <3>2. QED
      BY <1>4, <3>1 DEF FlashCmd, Write
  <2>2. Heard \/ Astray
    BY <1>4 DEF Decoder
  <2>3. CASE pc = "identify"
    <3>1. Rest(<<"AA", "55", "90">>)
      BY <2>3 DEF OnTheWay
    <3>2. (Heard => Heard') /\ (Heard' \/ Astray') /\ mode' \notin Busy
      BY <1>1, <1>2, <2>1, <2>2, <2>3, <3>1, IdDecoded
    <3>3. QED
      BY <1>1, <1>4, <2>1, <2>3, <3>2 DEF Decoder, Excused
  <2>4. CASE pc = "wait"
    <3>1. Rest(<<"AA", "55", "A0", "data">>)
      BY <2>4 DEF OnTheWay
    <3>2. /\ Heard => mode' = "programming" \/ (Heard' /\ bus' # <<>> /\ mode' \notin Busy)
          /\ Astray => (Heard' \/ Astray') /\ mode' \notin Busy
      BY <1>1, <1>2, <2>1, <2>4, <3>1, ProgramDecoded
    <3>3. QED
      BY <1>1, <1>4, <2>1, <2>2, <2>4, <3>2 DEF Decoder, Excused, Ready, Busy
  <2>5. CASE pc = "erase"
    <3>1. PICK last \in {"10", "30"} : Rest(<<"AA", "55", "80", "AA", "55", last>>)
      BY <2>5 DEF OnTheWay
    <3>2. /\ Heard => mode' = "erasing" \/ (Heard' /\ bus' # <<>> /\ mode' \notin Busy)
          /\ Astray => (Heard' \/ Astray') /\ mode' \notin Busy
      BY <1>1, <1>2, <2>1, <2>5, <3>1, EraseDecoded
    <3>3. QED
      BY <1>1, <1>4, <2>1, <2>2, <2>5, <3>2 DEF Decoder, Excused, Ready, Busy
  <2>6. CASE pc \in {"read", "release", "respond"}
    <3>1. bus[1].code = "F0"
      BY <1>2, <2>6, NextCodes DEF OnTheWay
    <3>2. mode' = "read" /\ job' = NoJob
      BY <2>1, <3>1 DEF Decoded, Busy
    <3>3. QED
      BY <1>1, <2>6, <3>2, DecoderAtRest
  <2>7. QED
    BY <1>1, <2>3, <2>4, <2>5, <2>6 DEF OnTheWay, TypeInv, TypeOK, Labels
<1>5. QED
  BY <1>3, <1>4

\* A sequence begins with the chip in read mode; only a chip that became ready in
\* the middle of one, unknown to the firmware, has missed a word of it.
LEMMA DecoderStep ==
  ASSUME Known, OnTheWay, Decoder, [Next]_vars
  PROVE  Decoder'
<1> USE DEF Known
<1>1. ASSUME HostSend \/ UsbChange \/ MoveSwitch \/ UNCHANGED vars
      PROVE  Decoder'
  <2>1. UNCHANGED <<mode, job, pc, bus, erase_in_progress, order>>
    BY <1>1 DEF HostSend, UsbChange, MoveSwitch, vars, fwVars, chipVars
  <2>2. QED
    BY <2>1 DEF Decoder, Ready, Heard, Astray, Excused
<1>2. ASSUME /\ UNCHANGED chipVars /\ bus = <<>> /\ pc # "identify"
             /\ \/ pc' \notin {"erase", "wait", "identify"}
                \/ pc' = "erase" /\ Len(bus') = 6
                \/ pc' = "wait" /\ Len(bus') = 4
                \/ pc' = "identify" /\ Len(bus') = 3
      PROVE  Decoder'
  <2>1. CASE Ready
    BY <1>2, <2>1, DecoderIdle, DecoderAtRest DEF chipVars
  <2>2. CASE ~Ready
    BY <1>2, <2>2, DecoderBusy DEF chipVars, Ready
  <2>3. QED
    BY <2>1, <2>2
<1>3. ASSUME \/ TaskPoll \/ Parse \/ ReadWord \/ EraseStarted \/ GetStatus \/ Release
             \/ WaitReady \/ WaitTimeout \/ Undefined \/ AvrReset \/ SendResponse
             \/ PullReset \/ Program \/ \E cmd \in Commands : RefuseWhileErasing(cmd)
      PROVE  Decoder'
  <2>1. /\ UNCHANGED chipVars /\ bus = <<>> /\ pc # "identify"
        /\ pc' \notin {"erase", "wait", "identify"}
    BY <1>3 DEF TaskPoll, Parse, ReadWord, EraseStarted, GetStatus, Release, WaitReady,
      WaitTimeout, Undefined, AvrReset, SendResponse, PullReset, Restart, Program,
      RefuseWhileErasing, Reject, Dispatch, At
  <2>2. QED
    BY <1>2, <2>1
<1>4. ASSUME Identify PROVE Decoder'
  BY <1>2, <1>4 DEF Identify, IdSequence, Dispatch, At
<1>5. ASSUME NEW last, At("dispatch"), StartErase(last) PROVE Decoder'
  BY <1>2, <1>5 DEF StartErase, EraseSequence, At
<1>6. ASSUME ProgramWord PROVE Decoder'
  BY <1>2, <1>6 DEF ProgramWord, ProgramSequence, At
<1>7. ASSUME SampleId PROVE Decoder'
  <2>1. /\ UNCHANGED <<mode, job, erase_in_progress, order>> /\ bus = <<>> /\ Len(bus) = 0
        /\ pc = "identify"
        /\ (pc' = pc /\ bus' = bus) \/ (pc' = "respond" /\ Len(bus') = 1)
    BY <1>7 DEF SampleId, ResetWord, At, chipVars
  <2>2. CASE Ready
    <3>1. mode \in {"read", "autoselect"} /\ job = NoJob
      BY <2>1, <2>2 DEF Decoder, Heard, Astray, IdModes
    <3>2. QED
      BY <2>1, <2>2, <3>1 DEF Decoder, Heard, Astray, Excused, Ready
  <2>3. CASE ~Ready
    BY <2>1, <2>3, DecoderBusy DEF Ready
  <2>4. QED
    BY <2>2, <2>3
<1>8. ASSUME ChipErase \/ SectorErase PROVE Decoder'
  BY <1>3, <1>5, <1>8 DEF ChipErase, SectorErase, Dispatch, Commands
<1>9. ASSUME Read \/ FlashReset \/ PowerLoss PROVE Decoder'
  <2>1. CASE HwReset /\ pc' \in {"read", "boot"}
    BY <2>1, DecoderAtRest DEF HwReset
  <2>2. CASE UNCHANGED chipVars /\ pc' = "respond" /\ pc = "dispatch" /\ bus = <<>>
    BY <1>2, <2>2
  <2>3. QED
    BY <1>9, <2>1, <2>2 DEF Read, FlashReset, StartRead, PowerLoss, Restart, Reject,
      Dispatch, At
<1>10. ASSUME FlashInit PROVE Decoder'
  <2>1. Word("F0").code = "F0" /\ pc' = "loop" /\ Write(Word("F0"))
    BY <1>10, WordCodes DEF FlashInit
  <2>2. CASE Ready
    BY <2>1, <2>2, DecoderAtRest DEF Write, Decoded, Busy
  <2>3. CASE ~Ready
    <3>1. CASE mode' = mode
      BY <2>3, <3>1, DecoderBusy DEF Ready
    <3>2. CASE mode = "failed" /\ mode' = "read"
      <4>1. job' = NoJob
        BY <2>1, <2>3, <3>2 DEF Write, TypeInv, TypeOK, ChipTypeOK
      <4>2. QED
        BY <2>1, <3>2, <4>1, DecoderAtRest
    <3>3. QED
      BY <2>1, <2>3, <3>1, <3>2 DEF Write
  <2>4. QED
    BY <2>2, <2>3
<1>11. ASSUME ChipDone PROVE Decoder'
  <2>1. /\ mode' = "read" \/ mode' = "failed"
        /\ job' = NoJob /\ ~Ready /\ mode # "failed"
        /\ UNCHANGED <<pc, bus, erase_in_progress, order>>
    BY <1>11 DEF ChipDone, Finish, Succeed, Fail, Ready, Busy, fwVars
  <2>2. \/ pc \in {"erase", "wait"} /\ bus # <<>>
        \/ pc = "identify" /\ ~erase_in_progress
        => Excused
    BY <2>1 DEF Control, ReadyHere, EraseTracked, ProgramWaited, Ready, Busy, Excused
  <2>3. CASE mode' = "read"
    BY <2>1, <2>2, <2>3 DEF Decoder, Astray, Excused
  <2>4. CASE mode' = "failed"
    BY <2>4, DecoderBusy DEF Ready, Busy
  <2>5. QED
    BY <2>1, <2>3, <2>4
<1>12. QED
  BY <1>1, <1>3, <1>4, <1>6, <1>7, <1>8, <1>9, <1>10, <1>11, FlashCmdDecoder
  DEF Next, Task, Environment

-----------------------------------------------------------------------------
(* The order.                                                              *)

\* The last word of an erase or a program is heard: the chip sets to work on it.
LEMMA LastWordWorks ==
  ASSUME Known, OnTheWay, Decoder, FlashCmd, ~Excused,
         pc \in {"erase", "wait"}, bus' = <<>>
  PROVE  ~Ready'
<1>1. /\ TypeInv /\ bus # <<>> /\ pc' = pc
      /\ Len(bus) = 1 /\ Len(bus') = Len(bus) - 1
  BY BusTail DEF Known, FlashCmd
<1>2. Ready /\ Heard
  BY <1>1 DEF Known, Control, ReadyHere, Decoder
<1>3. mode' = Decoded(mode, bus[1].code)
  <2>1. Head(bus) = bus[1]
    BY <1>1, BusTail
  <2>2. QED
    BY <1>2, <2>1 DEF FlashCmd, Write
<1>4. PICK n \in Nat \ {0} : n = 1 /\ Len(bus) = n /\ Len(bus') = n - 1
  BY <1>1
<1>5. CASE pc = "erase"
  <2>1. PICK last \in {"10", "30"} : Rest(<<"AA", "55", "80", "AA", "55", last>>)
    BY <1>5 DEF OnTheWay
  <2>2. mode' = "erasing"
    BY <1>1, <1>2, <1>3, <1>4, <1>5, <2>1, EraseDecoded
  <2>3. QED
    BY <2>2 DEF Ready, Busy
<1>6. CASE pc = "wait"
  <2>1. Rest(<<"AA", "55", "A0", "data">>)
    BY <1>6 DEF OnTheWay
  <2>2. mode' = "programming"
    BY <1>1, <1>2, <1>3, <1>4, <1>6, <2>1, ProgramDecoded
  <2>3. QED
    BY <2>2 DEF Ready, Busy
<1>7. QED
  BY <1>5, <1>6

\* flash_cmd(): the chip sets to work on what was ordered.
LEMMA FlashCmdCarried ==
  ASSUME Known, OnTheWay, Decoder, Carried, ~Excused, FlashCmd
  PROVE  Carried'
<1>1. /\ TypeInv /\ bus # <<>> /\ UNCHANGED <<pc, req, i, a19, mem, order>>
      /\ Head(bus) = bus[1] /\ Len(bus) \in Nat \ {0}
      /\ bus' # <<>> => LastOnBus' = LastOnBus
  BY BusTail DEF Known, FlashCmd, Write, envVars
<1>2. /\ \A cells : EraseLeft(cells)' <=> EraseLeft(cells)
      /\ \A n : ProgramLeft(n)' <=> ProgramLeft(n)
      /\ Cell(req.addr + i)' = Cell(req.addr + i)
  BY <1>1 DEF EraseLeft, ProgramLeft, Programmed, WordsFor, Cell
<1>3. CASE ~Ready
  <2>0. mode # "failed"
    BY <1>1 DEF TypeInv, TypeOK, ChipTypeOK, Excused
  <2>1. UNCHANGED <<mode, job>> /\ ~Ready'
    BY <1>3, <2>0 DEF FlashCmd, Write, Ready
  <2>2. pc \notin {"program", "erase", "wait"}
    BY <1>1, <1>3 DEF Known, Control, ReadyHere
  <2>3. mode # "programming"
    BY <2>2 DEF Known, Control, ProgramWaited, Excused
  <2>4. QED
    BY <1>1, <1>2, <2>1, <2>2, <2>3 DEF Carried
<1>4. CASE Ready
  <2>1. mode' \in Busy => Head(bus) = LastOnBus /\ job' = Target(LastOnBus)
    <3>1. ASSUME mode' \in Busy PROVE bus[1].code \in {"10", "30", "data"}
      <4>1. mode' # "failed"
        BY <1>4 DEF FlashCmd, Write, Decoded, Ready, Busy
      <4>2. QED
        BY <1>1, <1>4, <3>1, <4>1, WriteBusy DEF FlashCmd, Busy
    <3>2. ASSUME bus[1].code \in {"10", "30", "data"} PROVE 1 = Len(bus)
      <4>1. 1 \in 1 .. Len(bus)
        BY <1>1
      <4>2. QED
        BY <3>2, <4>1 DEF Known, Control, LastWord
    <3>3. QED
      BY <1>1, <1>4, <3>1, <3>2 DEF FlashCmd, Write, LastOnBus
  <2>2. mode' = "erasing" => pc = "erase" /\ LastOnBus.code \in {"10", "30"}
    <3>1. ASSUME mode' = "erasing" PROVE bus[1].code \in {"10", "30"}
      BY <1>1, <1>4, <3>1, WriteBusy DEF FlashCmd
    <3>2. QED
      BY <1>1, <2>1, <3>1 DEF Known, Control, LastWord, Busy
  <2>3. mode' = "programming" => pc = "wait" /\ LastOnBus.code = "data"
    <3>1. ASSUME mode' = "programming" PROVE bus[1].code = "data"
      BY <1>1, <1>4, <3>1, WriteBusy DEF FlashCmd
    <3>2. QED
      BY <1>1, <2>1, <3>1 DEF Known, Control, LastWord, Busy
  <2>4. (pc = "erase" /\ bus # <<>> => EraseLeft(Target(LastOnBus).cells))'
    BY <1>1, <1>2 DEF Carried
  <2>5. (mode = "erasing" => EraseLeft(job.cells))'
    BY <1>1, <1>2, <2>1, <2>2 DEF Carried, Busy
  <2>6. pc' # "program"
    BY <1>1 DEF OnTheWay
  <2>7. (pc = "wait" => ProgramLeft(IF Ready /\ bus = <<>> THEN i + 1 ELSE i))'
    BY <1>1, <1>2, LastWordWorks DEF Carried
  <2>8. (mode = "programming" =>
           job = Target(Cycle("data", Cell(req.addr + i), req.data[i + 1])))'
    BY <1>1, <1>2, <2>1, <2>3 DEF OnTheWay, Busy
  <2>9. (Ready /\ order.upset = "none" /\ pc \notin {"program", "wait"} =>
           (pc = "erase" /\ bus # <<>>) \/ mem = order.mem)'
    BY <1>1, <1>4, LastWordWorks DEF Carried
  <2>10. QED
    BY <2>4, <2>5, <2>6, <2>7, <2>8, <2>9 DEF Carried
<1>5. QED
  BY <1>3, <1>4

\* Between the commands, and in those that neither erase nor program, there is
\* nothing left to do but what the chip is doing.
LEMMA CarriedElsewhere ==
  ASSUME Known, Carried, ~Excused, UNCHANGED <<chipVars, order>>,
         pc \notin {"program", "wait"}, pc = "erase" => bus = <<>>,
         pc' \notin {"program", "wait", "erase"}
  PROVE  Carried'
<1>1. mode # "programming"
  BY DEF Known, Control, ProgramWaited, Excused
<1>2. (mode = "erasing" => EraseLeft(job.cells))'
  BY DEF Carried, EraseLeft, chipVars
<1>3. (Ready /\ order.upset = "none" => mem = order.mem)'
  BY DEF Carried, chipVars, Ready
<1>4. QED
  BY <1>1, <1>2, <1>3 DEF Carried, chipVars

-----------------------------------------------------------------------------
(* A PROGRAM's words.                                                      *)

\* One word less to program: the one that is in the flash now.
LEMMA OneWordLess ==
  ASSUME req.len \in Nat, req.addr \in Nat, i \in Nat, i < req.len, NEW c
  PROVE  WordsFor(i, c) =
           WordsFor(i + 1, c) \cup
             (IF Cell(req.addr + i) = c THEN {req.data[i + 1]} ELSE {})
<1>1. i + 1 .. req.len = {i + 1} \cup (i + 1 + 1 .. req.len)
  OBVIOUS
<1>2. req.addr + (i + 1) - 1 = req.addr + i
  OBVIOUS
<1>3. QED
  BY <1>1, <1>2 DEF WordsFor

\* Past the last word nothing is left to program.
LEMMA NoWordLeft ==
  ASSUME req.len \in Nat, i \in Nat, req.len <= i, NEW c \in Cells, mem[c] \in Contents
  PROVE  Programmed(i, c) = mem[c]
<1>1. WordsFor(i, c) = {}
  <2>1. i + 1 .. req.len = {}
    OBVIOUS
  <2>2. QED
    BY <2>1 DEF WordsFor
<1>2. QED
  BY <1>1 DEF Programmed

\* The end of one word's program leaves the other words to do.
LEMMA WordProgrammed ==
  ASSUME TypeInv, ~Worn, pc = "wait", ChipDone, mode = "programming",
         job = Target(Cycle("data", Cell(req.addr + i), req.data[i + 1])),
         NEW c \in Cells
  PROVE  Programmed(i + 1, c)' = Programmed(i, c)
<1> DEFINE w == req.data[i + 1]
           W == WordsFor(i + 1, c)
<1>1. /\ req.len \in Nat /\ req.addr \in Nat /\ i \in Nat /\ i < req.len
      /\ mem[c] \in Words \cup {Unknown}
  BY RequestsAssumption DEF TypeInv, TypeOK, Locals, ChipTypeOK, Contents
<1>2. WordsFor(i + 1, c)' = W
  BY DEF ChipDone, fwVars, envVars, WordsFor, Cell
<1>3. WordsFor(i, c) = W \cup (IF Cell(req.addr + i) = c THEN {w} ELSE {})
  BY <1>1, OneWordLess
<1>4. job.cells = {Cell(req.addr + i)} /\ job.word = w
  BY DEF Target, Cycle
<1>5. mem'[c] = IF Cell(req.addr + i) = c THEN Overlay(mem[c], w) ELSE mem[c]
  BY <1>4 DEF ChipDone, Finish, Succeed, Fail
<1> HIDE DEF w, W
<1>6. CASE Cell(req.addr + i) # c
  BY <1>2, <1>3, <1>5, <1>6 DEF Programmed
<1>7. CASE Cell(req.addr + i) = c /\ mem[c] = Unknown
  BY <1>5, <1>7 DEF Programmed, Overlay
<1>8. CASE Cell(req.addr + i) = c /\ mem[c] # Unknown
  <2>1. mem'[c] = mem[c] \cap w
    BY <1>5, <1>8 DEF Overlay
  <2>2. mem'[c] # Unknown
    BY <1>1, <1>8, <2>1, MarkerAssumption DEF Words
  <2>3. WordsFor(i, c) = W \cup {w}
    BY <1>3, <1>8
  <2>4. {b \in mem[c] \cap w : \A v \in W : b \in v} =
          {b \in mem[c] : \A v \in W \cup {w} : b \in v}
    OBVIOUS
  <2>5. Programmed(i + 1, c)' = {b \in mem[c] \cap w : \A v \in W : b \in v}
    BY <1>2, <2>1, <2>2 DEF Programmed
  <2>6. Programmed(i, c) = {b \in mem[c] : \A v \in W \cup {w} : b \in v}
    BY <1>8, <2>3 DEF Programmed
  <2>7. QED
    BY <2>4, <2>5, <2>6
<1>9. QED
  BY <1>6, <1>7, <1>8

\* What the chip has done when RY/BY rises is what was ordered: the whole erase, or
\* one more word.
LEMMA ChipDoneCarried ==
  ASSUME Known, Decoder, Carried, ~Excused, ChipDone
  PROVE  Carried'
<1>1. /\ TypeInv /\ ~Ready /\ Ready' /\ mode' = "read" /\ mode \in Algorithms
      /\ UNCHANGED <<pc, bus, req, i, a19, erase_in_progress, order>>
  BY DEF Known, ChipDone, Finish, Succeed, Fail, Ready, Busy, Excused, fwVars, envVars
<1>2. pc # "program" /\ (pc \in {"erase", "wait"} => bus = <<>>)
  BY <1>1 DEF Known, Control, ReadyHere
<1>3. CASE mode = "erasing"
  <2>1. pc # "wait"
    BY <1>3 DEF Known, Control, Guarded, EraseTracked, Excused
  <2>2. /\ mem' \in [Cells -> Contents] /\ order.mem \in [Cells -> Contents]
    BY <1>1, FinishType DEF ChipDone, TypeInv, TypeOK, ChipTypeOK
  <2>3. \A c \in Cells : mem'[c] = order.mem[c]
    BY <1>3 DEF Carried, EraseLeft, ChipDone, Finish, Succeed, Fail, Excused
  <2>4. mem' = order'.mem
    BY <1>1, <2>2, <2>3
  <2>5. QED
    BY <1>1, <1>2, <2>1, <2>4 DEF Carried
<1>4. CASE mode = "programming"
  <2>1. pc = "wait" /\ bus = <<>>
    BY <1>4 DEF Known, Control, ProgramWaited, Excused
  <2>2. /\ ProgramLeft(i)
        /\ job = Target(Cycle("data", Cell(req.addr + i), req.data[i + 1]))
    BY <1>1, <1>4, <2>1 DEF Carried
  <2>3. \A c \in Cells : Programmed(i + 1, c)' = Programmed(i, c)
    BY <1>1, <1>4, <2>1, <2>2, WordProgrammed DEF Excused
  <2>4. \A c \in Cells : WordsFor(0, c)' = WordsFor(0, c)
    BY <1>1 DEF WordsFor, Cell
  <2>5. ProgramLeft(i + 1)'
    BY <1>1, <2>2, <2>3, <2>4 DEF ProgramLeft
  <2>6. QED
    BY <1>1, <2>1, <2>5 DEF Carried
<1>5. QED
  BY <1>1, <1>3, <1>4 DEF Busy

\* A low /RST, or the loss of power, is in the order when it stops something.
LEMMA ResetCarried ==
  ASSUME Known, Decoder, HwReset, pc = "dispatch",
         pc' = "read", req.cmd \in {"READ", "FLASH_RESET"},
         order' = IF Ready THEN order ELSE [order EXCEPT !.upset = req.cmd],
         Excused \/ Carried
  PROVE  (Excused \/ Carried)'
<1>1. mode' = "read" /\ TypeInv
  BY DEF HwReset, Known
<1>2. CASE Ready
  <2>1. order' = order /\ mem' = mem
    <3>1. job = NoJob /\ mem \in [Cells -> Contents]
      BY <1>1, <1>2 DEF Decoder, TypeInv, TypeOK, ChipTypeOK
    <3>2. \A c \in Cells : mem'[c] = mem[c]
      BY <3>1 DEF HwReset, NoJob
    <3>3. QED
      BY <1>1, <1>2, <3>1, <3>2 DEF HwReset
  <2>2. QED
    BY <1>1, <1>2, <2>1 DEF Carried, Excused
<1>3. CASE ~Ready
  <2>1. order'.upset # "none"
    BY <1>1, <1>3 DEF TypeInv, TypeOK
  <2>2. QED
    BY <1>1, <2>1 DEF Carried
<1>4. QED
  BY <1>2, <1>3

\* An erase is begun: the whole of it is left to do.
LEMMA StartEraseCarried ==
  ASSUME Known, Decoder, At("dispatch"), NEW last, last.code \in {"10", "30"},
         StartErase(last)
  PROVE  (Excused \/ Carried)'
<1>1. /\ UNCHANGED <<mode, mem, job>> /\ pc = "dispatch" /\ bus = <<>>
      /\ ~erase_in_progress /\ pc' = "erase"
      /\ order' = [kind |-> "erase", cells |-> Target(last).cells,
                   mem |-> [c \in Cells |-> IF c \in Target(last).cells THEN Bits
                                            ELSE mem[c]],
                   upset |-> IF Ready THEN "none" ELSE order.upset]
  BY DEF StartErase, Begin, At, chipVars
<1>2. LastOnBus' = last /\ bus' # <<>>
  BY SequenceRests DEF StartErase, EraseSequence
<1>3. CASE Ready
  <2>1. EraseLeft(Target(LastOnBus).cells)'
    BY <1>1, <1>2, <1>3 DEF EraseLeft
  <2>2. mode' = "read"
    BY <1>1, <1>3, DecoderIdle
  <2>3. QED
    BY <1>1, <1>2, <2>1, <2>2 DEF Carried
<1>4. CASE ~Ready
  <2>1. Excused
    BY <1>1, <1>4, FailedIsWorn
    DEF Known, Control, EraseTracked, ProgramWaited, Excused, Ready, Busy
  <2>2. QED
    BY <1>1, <1>4, <2>1 DEF Excused
<1>5. QED
  BY <1>3, <1>4

\* A program is begun: all its words are left to do.
LEMMA StartProgramCarried ==
  ASSUME Known, Decoder, Dispatch("PROGRAM"), ~erase_in_progress, i' = 0, pc' = "program",
         Begin("program", {c \in Cells : WordsFor(0, c) # {}},
               [c \in Cells |-> Programmed(0, c)]),
         UNCHANGED <<chipVars, bus, req, answer, erase_in_progress, envVars>>
  PROVE  (Excused \/ Carried)'
<1>1. /\ UNCHANGED <<mode, mem, job, req, a19>> /\ pc = "dispatch" /\ bus = <<>>
      /\ order' = [kind |-> "program", cells |-> {c \in Cells : WordsFor(0, c) # {}},
                   mem |-> [c \in Cells |-> Programmed(0, c)],
                   upset |-> IF Ready THEN "none" ELSE order.upset]
  BY DEF Begin, Dispatch, At, chipVars, envVars
<1>2. \A c \in Cells : WordsFor(0, c)' = WordsFor(0, c)
                       /\ Programmed(0, c)' = Programmed(0, c)
  BY <1>1 DEF WordsFor, Programmed, Cell
<1>3. CASE Ready
  <2>1. ProgramLeft(0)' /\ i' = 0
    BY <1>1, <1>2, <1>3 DEF ProgramLeft
  <2>2. mode' = "read"
    BY <1>1, <1>3, DecoderIdle
  <2>3. QED
    BY <1>1, <2>1, <2>2 DEF Carried, ProgramLeft
<1>4. CASE ~Ready
  <2>1. Excused
    BY <1>1, <1>4, FailedIsWorn
    DEF Known, Control, EraseTracked, ProgramWaited, Excused, Ready, Busy
  <2>2. QED
    BY <1>1, <1>4, <2>1 DEF Excused
<1>5. QED
  BY <1>3, <1>4

\* The loop of flash_program_buffer(): one word after another, until none is left.
LEMMA ProgramLoopCarried ==
  ASSUME Known, Decoder, Carried, ~Excused, ProgramWord \/ WaitReady \/ WaitTimeout
  PROVE  Carried'
<1>1. /\ UNCHANGED <<mode, mem, job, req, a19, order>> /\ bus = <<>> /\ TypeInv
      /\ \A n \in Nat : ProgramLeft(n)' <=> ProgramLeft(n)
  <2>1. UNCHANGED <<mode, mem, job, req, a19, order>> /\ bus = <<>> /\ TypeInv
    BY DEF ProgramWord, WaitReady, WaitTimeout, At, chipVars, envVars, Known
  <2>2. QED
    BY <2>1 DEF ProgramLeft, Programmed, WordsFor, Cell
<1>2. /\ i \in Nat /\ mem \in [Cells -> Contents] /\ order.mem \in [Cells -> Contents]
  BY <1>1 DEF TypeInv, TypeOK, ChipTypeOK
<1>3. CASE ProgramWord
  <2>1. pc = "program" /\ i' = i /\ Ready /\ Ready' /\ ProgramLeft(i)
    BY <1>1, <1>3 DEF ProgramWord, At, Known, Control, ReadyHere, Carried, Ready
  <2>2. CASE i < req.len
    <3>1. pc' = "wait" /\ bus' # <<>>
      BY <1>3, <2>2, ProgramWords DEF ProgramWord
    <3>2. QED
      BY <1>1, <1>2, <2>1, <3>1 DEF Carried, Ready, Busy
  <2>3. CASE ~(i < req.len)
    <3>1. pc' = "release"
      BY <1>3, <2>3 DEF ProgramWord
    <3>2. req.len \in Nat /\ req.len <= i
      BY <1>1, <1>2, <2>1, <2>3, RequestsAssumption DEF TypeInv, Locals
    <3>3. \A c \in Cells : order.mem[c] = mem[c]
      BY <1>2, <2>1, <3>2, NoWordLeft DEF ProgramLeft
    <3>4. mem = order.mem
      BY <1>2, <3>3
    <3>5. QED
      BY <1>1, <2>1, <3>1, <3>4 DEF Carried, Ready, Busy
  <2>4. QED
    BY <2>2, <2>3
<1>4. CASE WaitReady
  <2>1. /\ pc = "wait" /\ pc' = "program" /\ i' = i + 1 /\ Ready /\ Ready'
        /\ ProgramLeft(i + 1)
    BY <1>1, <1>4 DEF WaitReady, At, flash_is_ready, Carried, Ready
  <2>2. ProgramLeft(i)'
    BY <1>1, <1>2, <2>1 DEF ProgramLeft
  <2>3. QED
    BY <1>1, <2>1, <2>2 DEF Carried, Ready, Busy
<1>5. CASE WaitTimeout
  BY <1>5 DEF WaitTimeout, At, Known, Control, Guarded, EraseTracked, Excused
<1>6. QED
  BY <1>3, <1>4, <1>5

\* Every step keeps what is left of the order, unless the firmware cannot know.
LEMMA CarriedStep ==
  ASSUME Known, OnTheWay, Decoder, Excused \/ Carried, [Next]_vars
  PROVE  (Excused \/ Carried)'
<1>1. ASSUME order' = order, Carried => Excused \/ Carried'
      PROVE  (Excused \/ Carried)'
  BY <1>1 DEF Excused
<1>2. ASSUME UNCHANGED <<chipVars, pc, bus, req, i, a19, order>>
      PROVE  (Excused \/ Carried)'
  <2>1. /\ \A cells : EraseLeft(cells)' <=> EraseLeft(cells)
        /\ \A n : ProgramLeft(n)' <=> ProgramLeft(n)
        /\ Cell(req.addr + i)' = Cell(req.addr + i)
    BY <1>2 DEF EraseLeft, ProgramLeft, Programmed, WordsFor, Cell, chipVars
  <2>2. Carried => Carried'
    BY <1>2, <2>1 DEF Carried, chipVars, Ready, LastOnBus
  <2>3. QED
    BY <1>1, <1>2, <2>2
<1>3. ASSUME /\ UNCHANGED <<chipVars, order>>
             /\ pc \notin {"program", "wait"} /\ (pc = "erase" => bus = <<>>)
             /\ pc' \notin {"program", "wait", "erase"}
      PROVE  (Excused \/ Carried)'
  BY <1>1, <1>3, CarriedElsewhere
<1>4. ASSUME \/ TaskPoll \/ Parse \/ Identify \/ SampleId \/ ReadWord \/ EraseStarted
             \/ GetStatus \/ Release \/ Undefined \/ AvrReset \/ SendResponse \/ MoveSwitch
             \/ \E cmd \in Commands : RefuseWhileErasing(cmd)
      PROVE  (Excused \/ Carried)'
  <2>1. /\ UNCHANGED <<chipVars, order>>
        /\ pc \notin {"program", "wait"} /\ (pc = "erase" => bus = <<>>)
        /\ pc' \notin {"program", "wait", "erase"}
    BY <1>4 DEF TaskPoll, Parse, Identify, SampleId, ReadWord, EraseStarted, GetStatus, Release,
      Undefined, AvrReset, SendResponse, MoveSwitch, RefuseWhileErasing, Reject,
      Dispatch, At, fwVars
  <2>2. QED
    BY <1>3, <2>1
<1>5. ASSUME HostSend \/ UsbChange \/ UNCHANGED vars PROVE (Excused \/ Carried)'
  BY <1>2, <1>5 DEF HostSend, UsbChange, vars, fwVars, envVars
<1>6. ASSUME FlashCmd \/ ChipDone \/ ProgramWord \/ WaitReady \/ WaitTimeout
      PROVE  (Excused \/ Carried)'
  <2>1. order' = order
    BY <1>6 DEF FlashCmd, ChipDone, ProgramWord, WaitReady, WaitTimeout
  <2>2. QED
    BY <1>1, <1>6, <2>1, FlashCmdCarried, ChipDoneCarried, ProgramLoopCarried
<1>7. ASSUME Read \/ FlashReset PROVE (Excused \/ Carried)'
  <2>1. /\ pc = "dispatch" /\ pc' \in {"read", "respond"} /\ bus = <<>>
        /\ req.cmd \in {"READ", "FLASH_RESET"}
        /\ \/ UNCHANGED <<chipVars, order>>
           \/ /\ HwReset /\ pc' = "read"
              /\ order' = IF Ready THEN order ELSE [order EXCEPT !.upset = req.cmd]
    BY <1>7 DEF Read, FlashReset, StartRead, Reject, Dispatch, At
  <2>2. CASE UNCHANGED <<chipVars, order>>
    BY <1>3, <2>1, <2>2
  <2>3. CASE /\ HwReset /\ pc' = "read"
             /\ order' = IF Ready THEN order ELSE [order EXCEPT !.upset = req.cmd]
    BY <2>1, <2>3, ResetCarried
  <2>4. QED
    BY <2>1, <2>2, <2>3
<1>8. ASSUME ChipErase \/ SectorErase PROVE (Excused \/ Carried)'
  <2>1. Word("10").code = "10" /\ Cycle("30", Cell(req.addr), {}).code = "30"
    BY DEF Word, Cycle
  <2>2. QED
    BY <1>4, <1>8, <2>1, StartEraseCarried DEF ChipErase, SectorErase, Dispatch, Commands
<1>9. ASSUME Program PROVE (Excused \/ Carried)'
  <2>1. CASE RefuseWhileErasing("PROGRAM")
    BY <1>4, <2>1 DEF Commands
  <2>2. CASE /\ Dispatch("PROGRAM") /\ Reject("ERROR")
             /\ UNCHANGED <<chipVars, order>>
    BY <1>3, <2>2 DEF Dispatch, At, Reject
  <2>3. CASE /\ Dispatch("PROGRAM") /\ ~erase_in_progress /\ i' = 0 /\ pc' = "program"
             /\ Begin("program", {c \in Cells : WordsFor(0, c) # {}},
                      [c \in Cells |-> Programmed(0, c)])
             /\ UNCHANGED <<chipVars, bus, req, answer, erase_in_progress, envVars>>
    BY <2>3, StartProgramCarried
  <2>4. QED
    BY <1>9, <2>1, <2>2, <2>3 DEF Program
<1>10. ASSUME PullReset PROVE (Excused \/ Carried)'
  <2>1. CASE Ready
    <3>1. /\ UNCHANGED <<chipVars, order>> /\ pc = "reset" /\ pc' = "boot"
      BY <1>10, <2>1 DEF PullReset, Restart, At
    <3>2. QED
      BY <1>3, <3>1
  <2>2. CASE ~Ready
    BY <1>10, <2>2 DEF PullReset, Excused, Known, TypeInv, TypeOK
  <2>3. QED
    BY <2>1, <2>2
<1>11. ASSUME FlashInit PROVE (Excused \/ Carried)'
  <2>1. /\ UNCHANGED <<mem, order>> /\ pc = "boot" /\ pc' = "loop"
        /\ Write(Word("F0")) /\ Word("F0").code = "F0"
    BY <1>11, WordCodes DEF FlashInit, Write
  <2>2. CASE Ready
    <3>1. mode' = "read"
      BY <2>1, <2>2 DEF Write, Decoded
    <3>2. Carried => Carried'
      BY <2>1, <2>2, <3>1 DEF Carried
    <3>3. QED
      BY <1>1, <2>1, <3>2
  <2>3. CASE ~Ready
    <3>1. CASE mode = "failed"
      BY <2>1, <3>1 DEF Known, TypeInv, TypeOK, ChipTypeOK, Excused
    <3>2. CASE mode # "failed"
      BY <1>3, <2>1, <2>3, <3>2 DEF Write, chipVars
    <3>3. QED
      BY <3>1, <3>2
  <2>4. QED
    BY <2>2, <2>3
<1>12. ASSUME PowerLoss PROVE (Excused \/ Carried)'
  BY <1>12 DEF PowerLoss, HwReset, Restart, NoOrder, Carried
<1>13. QED
  BY <1>4, <1>5, <1>6, <1>7, <1>8, <1>9, <1>10, <1>11, <1>12
  DEF Next, Task, Environment

-----------------------------------------------------------------------------
(* The answers.                                                            *)

\* Steps after which nothing is claimed of the answer.
LEMMA NothingClaimed ==
  ASSUME \/ pc' \notin {"identify", "read", "release", "respond", "dispatch", "program",
                       "wait"}
         \/ pc' = "respond" /\ answer'.status # "OK"
  PROVE  AnswersTrue'
  BY DEF AnswersTrue, Answering, Releasing

\* One word after another.
LEMMA TwoWords ==
  ASSUME NEW w
  PROVE  Append(<<w>>, w) = <<w, w>>
<1>1. <<w>> \in Seq({w}) /\ <<w, w>> \in Seq({w}) /\ Len(<<w>>) = 1
  OBVIOUS
<1>2. /\ Append(<<w>>, w) \in Seq({w}) /\ Len(Append(<<w>>, w)) = 2
      /\ \A j \in 1 .. 2 : Append(<<w>>, w)[j] = w
  BY <1>1, AppendProperties
<1>3. \A j \in 1 .. 2 : <<w, w>>[j] = w
  OBVIOUS
<1>4. QED
  BY <1>1, <1>2, <1>3, SeqEqual

\* The two words IDENTIFY samples are the chip's ID, unless an erase is under way.
LEMMA SampleIdTrue ==
  ASSUME Known, Decoder, AnswersTrue, SampleId
  PROVE  AnswersTrue'
<1>1. /\ pc = "identify" /\ req.cmd = "IDENTIFY" /\ bus = <<>> /\ Len(bus) = 0
      /\ UNCHANGED <<req, erase_in_progress, order>>
      /\ answer'.data = Append(answer.data, Readout(Cell(Len(answer.data))))
      /\ IF answer.data = <<>> THEN pc' = pc /\ bus' = bus ELSE pc' = "respond"
  BY DEF SampleId, At, Answer, AnswersTrue
<1>2. ~erase_in_progress => Readout(Cell(Len(answer.data))) = IdCode \/ Excused
  <2>1. ~erase_in_progress => Ready \/ Excused
    BY <1>1, FailedIsWorn
    DEF Known, Control, EraseTracked, ProgramWaited, Excused, Ready, Busy
  <2>2. ~erase_in_progress => mode = "autoselect" \/ Excused
    <3>1. Heard => mode = "autoselect"
      BY <1>1 DEF Heard, IdModes
    <3>2. QED
      BY <1>1, <2>1, <3>1 DEF Decoder
  <2>3. QED
    BY <2>2 DEF Readout, Busy
<1>3. CASE answer.data = <<>>
  <2>1. ~erase_in_progress => answer'.data = <<IdCode>> \/ Excused
    BY <1>1, <1>2, <1>3
  <2>2. QED
    BY <1>1, <1>3, <2>1 DEF AnswersTrue, Answering, Releasing, Excused
<1>4. CASE answer.data # <<>>
  <2>1. ~erase_in_progress => answer'.data = <<IdCode, IdCode>> \/ Excused
    <3>1. ~erase_in_progress => answer.data = <<IdCode>> \/ Excused
      BY <1>1, <1>4 DEF AnswersTrue
    <3>2. Append(<<IdCode>>, IdCode) = <<IdCode, IdCode>>
      BY TwoWords
    <3>3. QED
      BY <1>1, <1>2, <3>1, <3>2
  <2>2. QED
    BY <1>1, <1>4, <2>1 DEF AnswersTrue, Answering, Releasing, Excused
<1>5. QED
  BY <1>3, <1>4

\* READ and FLASH_RESET begin with a chip that is ready, and no word.
LEMMA StartReadTrue ==
  ASSUME TypeInv, Read \/ FlashReset
  PROVE  AnswersTrue'
<1>1. CASE StartRead
  <2>1. Ready' /\ pc' = "read" /\ answer'.data = <<>> /\ Len(answer'.data) = 0 /\ req' = req
    BY <1>1 DEF Read, FlashReset, StartRead, HwReset, Ready, Busy, Answer
  <2>2. 0 <= Count /\ Count' = Count
    BY <2>1, ReadBounds DEF Read, FlashReset, Dispatch, At, Count
  <2>3. QED
    BY <2>1, <2>2 DEF AnswersTrue, Answering, Releasing
<1>2. CASE Reject("ERROR")
  BY <1>2, NothingClaimed DEF Reject, Answer
<1>3. QED
  BY <1>1, <1>2 DEF Read, FlashReset

\* A chip in read mode shows its contents, word by word.
LEMMA ReadWordTrue ==
  ASSUME Known, Decoder, AnswersTrue, ReadWord
  PROVE  AnswersTrue'
<1>1. /\ pc = "read" /\ bus = <<>> /\ bus' = <<>> /\ Ready /\ Ready'
      /\ UNCHANGED <<mem, req, a19>>
      /\ Len(answer.data) <= Count
      /\ \A j \in 1 .. Len(answer.data) : answer.data[j] = mem[Cell(From + j - 1)]
  BY DEF ReadWord, At, AnswersTrue, chipVars, envVars, Ready
<1>2. /\ From \in Nat /\ Count \in Nat /\ answer.data \in Seq(Readings)
      /\ Len(answer.data) \in Nat
  BY <1>1, ReadBounds DEF Known, TypeInv, TypeOK, Answers
<1>3. Readout(Cell(From + Len(answer.data))) = mem[Cell(From + Len(answer.data))]
  <2>1. mode = "read"
    BY <1>1, DecoderIdle
  <2>2. QED
    BY <2>1 DEF Readout, Busy
<1>4. /\ From' = From /\ Count' = Count
      /\ \A n : Cell(n)' = Cell(n)
  BY <1>1 DEF From, Count, Cell
<1>5. CASE Len(answer.data) < Count
  <2>1. /\ pc' = "read"
        /\ answer'.data = Append(answer.data, Readout(Cell(From + Len(answer.data))))
    BY <1>1, <1>5 DEF ReadWord, Answer
  <2>2. /\ Len(answer'.data) = Len(answer.data) + 1
        /\ \A j \in 1 .. Len(answer.data) : answer'.data[j] = answer.data[j]
        /\ answer'.data[Len(answer.data) + 1] = mem[Cell(From + Len(answer.data))]
    <3>1. Readout(Cell(From + Len(answer.data))) \in Readings
      BY <1>2, CellType, ReadoutType DEF Known, TypeInv, TypeOK
    <3>2. QED
      BY <1>2, <1>3, <2>1, <3>1, AppendProperties
  <2>3. ASSUME NEW j \in 1 .. Len(answer'.data)
        PROVE  answer'.data[j] = mem[Cell(From + j - 1)]
    <3>1. CASE j = Len(answer.data) + 1
      <4>1. From + j - 1 = From + Len(answer.data)
        BY <1>2, <3>1
      <4>2. QED
        BY <2>2, <3>1, <4>1
    <3>2. CASE j # Len(answer.data) + 1
      <4>1. j \in 1 .. Len(answer.data)
        BY <1>2, <2>2, <3>2
      <4>2. QED
        BY <1>1, <2>2, <4>1
    <3>3. QED
      BY <3>1, <3>2
  <2>4. Len(answer'.data) <= Count
    BY <1>2, <1>5, <2>2
  <2>5. QED
    BY <1>1, <1>4, <2>1, <2>3, <2>4 DEF AnswersTrue, Answering, Releasing
<1>6. CASE ~(Len(answer.data) < Count)
  <2>1. pc' = "respond" /\ answer'.data = answer.data
    BY <1>6 DEF ReadWord, Answer
  <2>2. Len(answer.data) = Count
    BY <1>1, <1>2, <1>6
  <2>3. req.cmd \in {"READ", "FLASH_RESET"}
    BY <1>1 DEF Known, TypeInv, Locals
  <2>4. ASSUME req.cmd = "READ"
        PROVE  answer.data = [j \in 1 .. req.len |-> mem[Cell(req.addr + j - 1)]]
    <3>1. From = req.addr /\ Count = req.len
      BY <2>4 DEF From, Count
    <3>2. /\ Len(answer.data) = req.len /\ req.len \in Nat
          /\ \A j \in 1 .. req.len : answer.data[j] = mem[Cell(req.addr + j - 1)]
      BY <1>1, <1>2, <2>2, <3>1
    <3>3. /\ DOMAIN answer.data = 1 .. req.len
          /\ answer.data = [j \in DOMAIN answer.data |-> answer.data[j]]
      BY <1>2, <3>2
    <3>4. QED
      BY <3>2, <3>3
  <2>5. QED
    BY <1>1, <1>4, <2>1, <2>3, <2>4 DEF AnswersTrue, Answering, Releasing
<1>7. QED
  BY <1>5, <1>6

\* GET_STATUS answers OK with the flag down only.
LEMMA StatusTrue ==
  ASSUME Known, AnswersTrue, GetStatus \/ Release
  PROVE  AnswersTrue'
<1>1. CASE GetStatus
  <2>1. /\ pc' \in {"release", "respond"} /\ req' = req /\ req.cmd = "GET_STATUS"
        /\ pc' = "release" => ~erase_in_progress'
        /\ answer'.status = "OK" => ~erase_in_progress'
    BY <1>1 DEF GetStatus, Dispatch, Reject, Answer
  <2>2. QED
    BY <2>1 DEF AnswersTrue, Answering, Releasing
<1>2. CASE Release
  <2>1. pc = "release" /\ pc' = "respond"
        /\ UNCHANGED <<req, answer, erase_in_progress, order>>
    BY <1>2 DEF Release, At
  <2>2. QED
    BY <2>1 DEF AnswersTrue, Answering, Releasing, Excused
<1>3. QED
  BY <1>1, <1>2

\* PROGRAM answers OK after its own order only.
LEMMA ProgramTrue ==
  ASSUME Known, Excused \/ Carried, AnswersTrue,
         Program \/ ProgramWord \/ WaitReady \/ WaitTimeout
  PROVE  AnswersTrue'
<1>1. CASE Program
  <2>1. \/ pc' = "respond" /\ answer'.status # "OK"
        \/ pc = "dispatch" /\ pc' = "program" /\ req' = req
    BY <1>1 DEF Program, RefuseWhileErasing, Reject, Dispatch, At, Answer
  <2>2. QED
    BY <2>1, NothingClaimed DEF AnswersTrue, Answering, Releasing, TooLong
<1>2. CASE ProgramWord \/ WaitReady \/ WaitTimeout
  <2>1. /\ pc \in {"program", "wait"} /\ UNCHANGED <<req, erase_in_progress, order>>
        /\ pc' \in {"program", "wait", "release"} /\ bus = <<>>
    BY <1>2 DEF ProgramWord, WaitReady, WaitTimeout, At
  <2>2. req.cmd = "PROGRAM" /\ ~erase_in_progress
    BY <2>1 DEF Known, TypeInv, Locals, Control, Guarded
  <2>3. order.upset = "none" \/ Excused
    BY <2>1 DEF Carried, ProgramLeft
  <2>4. QED
    BY <2>1, <2>2, <2>3 DEF AnswersTrue, Answering, Releasing, TooLong, Excused
<1>3. QED
  BY <1>1, <1>2

\* Every step keeps the answers true.
LEMMA AnswersStep ==
  ASSUME Known, OnTheWay, Decoder, Excused \/ Carried, AnswersTrue, [Next]_vars
  PROVE  AnswersTrue'
<1>1. ASSUME UNCHANGED <<chipVars, fwVars, a19, order>>
      PROVE  AnswersTrue'
  BY <1>1 DEF AnswersTrue, Answering, Releasing, TooLong, Excused, Ready, Cell, From,
    Count, chipVars, fwVars
<1>2. ASSUME FlashCmd \/ ChipDone PROVE AnswersTrue'
  <2>0. pc = "read" => (pc = "read" =>
          /\ Ready /\ Len(answer.data) <= Count
          /\ \A j \in 1 .. Len(answer.data) : answer.data[j] = mem[Cell(From + j - 1)])'
    <3> SUFFICES ASSUME pc = "read"
                 PROVE  /\ Ready' /\ Len(answer'.data) <= Count'
                        /\ \A j \in 1 .. Len(answer'.data) :
                             answer'.data[j] = mem'[Cell(From + j - 1)']
      OBVIOUS
    <3>1. Ready /\ FlashCmd
      BY <1>2 DEF AnswersTrue, ChipDone, Finish, Succeed, Fail, Ready, Busy
    <3>2. Head(bus) = bus[1] /\ Len(bus) \in Nat \ {0}
      BY <3>1, BusTail DEF Known
    <3>3. bus[1].code = "F0"
      BY <3>2, NextCodes DEF OnTheWay
    <3>4. Ready' /\ UNCHANGED <<mem, req, answer, a19>>
      BY <3>1, <3>2, <3>3 DEF FlashCmd, Write, Decoded, Ready, Busy, envVars
    <3>5. QED
      BY <3>4 DEF AnswersTrue, From, Count, Cell
  <2>1. /\ UNCHANGED <<pc, req, answer, erase_in_progress, order>>
        /\ bus = <<>> => bus' = <<>>
    BY <1>2 DEF FlashCmd, ChipDone, Finish, Succeed, Fail, fwVars
  <2>2. ~Answering({"READ", "FLASH_RESET"}) /\ ~Answering({"READ"})
    BY <1>2, <2>1 DEF AnswersTrue, Answering, FlashCmd, ChipDone, Finish, Succeed, Fail,
      Ready, Busy
  <2>3. QED
    BY <1>2, <2>0, <2>1, <2>2 DEF AnswersTrue, Answering, Releasing, TooLong, Excused,
      FlashCmd, ChipDone, fwVars
<1>3. ASSUME \/ TaskPoll \/ EraseStarted \/ Undefined \/ SendResponse \/ PullReset
             \/ FlashInit \/ PowerLoss \/ HostSend \/ MoveSwitch \/ AvrReset
             \/ \E last : StartErase(last)
             \/ \E cmd \in Commands : RefuseWhileErasing(cmd)
      PROVE  AnswersTrue'
  <2>1. ASSUME \/ EraseStarted \/ Undefined
               \/ \E cmd \in Commands : RefuseWhileErasing(cmd)
        PROVE  pc' = "respond" /\ answer'.status # "OK"
    BY <2>1 DEF EraseStarted, Undefined, RefuseWhileErasing, Reject, Answer
  <2>2. ASSUME \/ TaskPoll \/ SendResponse \/ PullReset \/ FlashInit \/ PowerLoss
               \/ HostSend \/ MoveSwitch \/ \E last : StartErase(last)
        PROVE  pc' \in {"loop", "parse", "boot", "erase", "reset"}
    BY <2>2 DEF TaskPoll, SendResponse, PullReset, FlashInit, PowerLoss, Restart,
      HostSend, MoveSwitch, StartErase, At, fwVars
  <2>3. ASSUME AvrReset PROVE AnswersTrue'
    BY <2>3 DEF AvrReset, Dispatch, Reject, AnswersTrue, Answering, Releasing
  <2>4. QED
    BY <1>3, <2>1, <2>2, <2>3, NothingClaimed
<1>4. ASSUME Parse PROVE AnswersTrue'
  <2>1. \/ pc' = "loop"
        \/ pc' = "respond" /\ answer'.status # "OK"
        \/ pc' = "dispatch" /\ ~TooLong'
    BY <1>4 DEF Parse, Reject, Answer, TooLong
  <2>2. QED
    BY <2>1, NothingClaimed DEF AnswersTrue, Answering, Releasing
<1>5. ASSUME Identify PROVE AnswersTrue'
  BY <1>5 DEF Identify, Dispatch, Answer, AnswersTrue, Answering, Releasing
<1>6. ASSUME ChipErase \/ SectorErase PROVE AnswersTrue'
  BY <1>3, <1>6 DEF ChipErase, SectorErase, Commands
<1>7. ASSUME UsbChange \/ UNCHANGED vars PROVE AnswersTrue'
  BY <1>1, <1>7 DEF UsbChange, vars, envVars
<1>8. QED
  BY <1>2, <1>3, <1>4, <1>5, <1>6, <1>7, SampleIdTrue, StartReadTrue, ReadWordTrue,
    StatusTrue, ProgramTrue
  DEF Known, Next, Task, Environment

-----------------------------------------------------------------------------
(* The theorems.                                                           *)

\* DataInv holds at power-up.
LEMMA InitData == Init => DataInv
<1> SUFFICES ASSUME Init PROVE DataInv
  OBVIOUS
<1>1. bus = <<>> /\ Len(bus) = 0 /\ pc = "boot" /\ mode = "read" /\ job = NoJob
  BY DEF Init, ChipInit
<1>2. OnTheWay
  BY <1>1 DEF OnTheWay
<1>3. Decoder
  BY <1>1 DEF Decoder, Astray
<1>4. Carried
  BY <1>1 DEF Init, NoOrder, Carried
<1>5. AnswersTrue
  BY <1>1 DEF AnswersTrue, Answering, Releasing
<1>6. QED
  BY <1>2, <1>3, <1>4, <1>5 DEF DataInv

\* The words on the way, the decoder, the embedded algorithm, the order and the
\* answer agree, at each place of protocol_task().
THEOREM DataInvariance == Spec => [](IInv /\ DataInv)
<1>1. IInv => Known
  BY DEF IInv, Known, TypeInv, Control
<1>2. IInv /\ DataInv /\ [Next]_vars => DataInv'
  BY <1>1, OnTheWayStep, DecoderStep, CarriedStep, AnswersStep DEF DataInv
<1>3. QED
  BY Invariance, InitData, <1>2, PTL DEF Spec

\* A chip that is busy when an answer goes out is one the firmware cannot know of,
\* or is carrying out an erase the firmware does know of.
LEMMA ReadyAtAnswer ==
  ASSUME IInv, pc = "respond", ~erase_in_progress
  PROVE  Ready \/ Excused
  BY FailedIsWorn DEF IInv, TypeInv, EraseTracked, ProgramWaited, Ready, Busy, Excused

\* STATUS_OK to PROGRAM: the words sent are in the cells addressed, over what those
\* held, and the rest of the chip is as it was.
THEOREM ProgramOkIsTrue == Spec => []ProgramOkMeansProgrammed
<1>1. IInv /\ DataInv => ProgramOkMeansProgrammed
  <2> SUFFICES ASSUME IInv, DataInv, Answered("PROGRAM", "OK"), ~Excused
               PROVE  mem = order.mem
    BY DEF ProgramOkMeansProgrammed
  <2>1. pc = "respond" /\ ~erase_in_progress /\ order.upset = "none"
    BY DEF DataInv, AnswersTrue, Answering, Answered
  <2>2. QED
    BY <2>1, ReadyAtAnswer DEF DataInv, Carried
<1>2. QED
  BY DataInvariance, <1>1, PTL

\* STATUS_OK to GET_STATUS: the whole erase is done, and nothing else.
THEOREM StatusOkIsTrue == Spec => []StatusOkMeansErased
<1>1. IInv /\ DataInv => StatusOkMeansErased
  <2> SUFFICES ASSUME IInv, DataInv, Answered("GET_STATUS", "OK"),
                      order.upset = "none", ~Worn
               PROVE  mem = order.mem
    BY DEF StatusOkMeansErased
  <2>1. pc = "respond" /\ ~erase_in_progress /\ ~Excused
    BY DEF DataInv, AnswersTrue, Answering, Answered, Excused
  <2>2. QED
    BY <2>1, ReadyAtAnswer DEF DataInv, Carried
<1>2. QED
  BY DataInvariance, <1>1, PTL

\* STATUS_OK to READ: the words are the flash's contents.
THEOREM ReadOkIsTrue == Spec => []ReadOkMeansContents
<1>1. DataInv => ReadOkMeansContents
  BY DEF DataInv, AnswersTrue, Answering, Answered, ReadOkMeansContents, Cell
<1>2. QED
  BY DataInvariance, <1>1, PTL

\* Outside an erase IDENTIFY tells the chip's ID.
THEOREM IdentifyIsTrue == Spec => []IdentifyTruth
<1>1. DataInv => IdentifyTruth
  BY DEF DataInv, AnswersTrue, Answering, Answered, IdentifyTruth
<1>2. QED
  BY DataInvariance, <1>1, PTL

-----------------------------------------------------------------------------
(* Only what was ordered changes.                                          *)

\* Two word addresses less than a slot apart differ in their low address lines.
LEMMA NoWrap ==
  ASSUME NEW S \in Nat \ {0}, NEW x \in Nat, NEW y \in Nat, x < y, y - x < S
  PROVE  x % S # y % S
<1> SUFFICES ASSUME x % S = y % S PROVE FALSE
  OBVIOUS
<1>1. PICK p \in Int : x = (S * p) + (x % S)
  <2>1. x \div S \in Int /\ x = (S * (x \div S)) + (x % S)
    OBVIOUS
  <2>2. QED
    BY <2>1
<1>2. PICK q \in Int : y = (S * q) + (y % S)
  <2>1. y \div S \in Int /\ y = (S * (y \div S)) + (y % S)
    OBVIOUS
  <2>2. QED
    BY <2>1
<1>3. x % S \in Int /\ y - x = (S * q) - (S * p)
  BY <1>1, <1>2
<1>4. CASE q <= p
  <2>1. PICK d \in Nat : p = q + d
    BY <1>4
  <2>2. S * p = (S * q) + (S * d) /\ S * d >= 0
    BY <2>1
  <2>3. QED
    BY <1>3, <2>2
<1>5. CASE q > p
  <2>1. PICK d \in Nat : d >= 1 /\ q = p + d
    BY <1>5
  <2>2. S * q = (S * p) + (S * d)
    BY <2>1
  <2>3. S * d >= S
    BY <2>1
  <2>4. QED
    BY <1>3, <2>2, <2>3
<1>6. QED
  BY <1>4, <1>5

\* A request that does not wrap round its slot has one word for a cell.
LEMMA OneWordPerCell ==
  ASSUME a19 \in {0, 1}, req.len \in Nat, req.addr \in Nat, i \in Nat, i < req.len,
         req.len <= SlotWords
  PROVE  WordsFor(i + 1, Cell(req.addr + i)) = {}
<1> SUFFICES ASSUME NEW k \in i + 1 + 1 .. req.len,
                    Cell(req.addr + k - 1) = Cell(req.addr + i)
             PROVE  FALSE
  BY DEF WordsFor
<1>1. /\ req.addr + i \in Nat /\ req.addr + k - 1 \in Nat
      /\ req.addr + i < req.addr + k - 1
      /\ (req.addr + k - 1) - (req.addr + i) < SlotWords
  BY SlotAssumption
<1>2. (req.addr + i) % SlotWords # (req.addr + k - 1) % SlotWords
  BY <1>1, NoWrap, SlotAssumption
<1>3. /\ (req.addr + i) % SlotWords \in Int /\ (req.addr + k - 1) % SlotWords \in Int
      /\ a19 * SlotWords \in Int
  BY <1>1, SlotAssumption
<1>4. QED
  BY <1>2, <1>3 DEF Cell

\* What the chip is busy with is in the order, word for word.
LEMMA JobOrdered ==
  ASSUME IInv, DataInv, ~Excused, MAX_WORDS_PER_CMD <= SlotWords,
         NEW c \in job.cells, job # NoJob
  PROVE  /\ c \in order.cells
         /\ mode = "erasing" => order.mem[c] = Bits
         /\ mode = "programming" => order.mem[c] = Overlay(mem[c], job.word)
<1>1. mode \in Algorithms
  BY DEF DataInv, Decoder, Ready, Busy, Excused, IInv, TypeOK, ChipTypeOK
<1>2. TypeInv /\ c \in Cells /\ Carried
  BY DEF IInv, TypeInv, TypeOK, ChipTypeOK, DataInv
<1>3. CASE mode = "erasing"
  BY <1>2, <1>3 DEF Carried, EraseLeft
<1>4. CASE mode = "programming"
  <2>1. pc = "wait" /\ bus = <<>>
    BY <1>4 DEF IInv, ProgramWaited, Excused
  <2>2. /\ ProgramLeft(i) /\ c = Cell(req.addr + i)
        /\ job.word = req.data[i + 1]
    BY <1>1, <1>2, <1>4, <2>1 DEF Carried, Target, Cycle, Ready, Busy
  <2>3. /\ req.len \in Nat /\ req.addr \in Nat /\ i \in Nat /\ i < req.len
        /\ a19 \in {0, 1} /\ req.len <= SlotWords
    <3>1. req \in Requests /\ i \in Nat /\ i < req.len /\ a19 \in {0, 1}
      BY <1>2, <2>1 DEF TypeInv, TypeOK, Locals
    <3>2. req.len \in Nat /\ req.addr \in Nat
      BY <3>1, RequestsAssumption
    <3>3. req.len <= MAX_WORDS_PER_CMD
      BY <2>1, <3>2, LimitsAssumption DEF DataInv, AnswersTrue, TooLong
    <3>4. QED
      BY <3>1, <3>2, <3>3, SlotAssumption, LimitsAssumption
  <2>4. WordsFor(i, c) = {job.word}
    BY <2>2, <2>3, OneWordPerCell, OneWordLess
  <2>5. WordsFor(0, c) # {}
    BY <2>2, <2>3 DEF WordsFor
  <2>6. order.mem[c] = Overlay(mem[c], job.word)
    <3>1. order.mem[c] = Programmed(i, c)
      BY <1>2, <2>2 DEF ProgramLeft
    <3>2. {b \in mem[c] : \A v \in {job.word} : b \in v} = mem[c] \cap job.word
      OBVIOUS
    <3>3. QED
      BY <2>4, <3>1, <3>2 DEF Programmed, Overlay
  <2>7. QED
    BY <1>2, <1>4, <2>2, <2>5, <2>6 DEF ProgramLeft
<1>5. QED
  BY <1>1, <1>3, <1>4 DEF Busy

\* No command reaches a cell it was not sent to: a cell that changes is one of the
\* order's, and becomes what was ordered or is left torn by a reset.  A request is
\* shorter than a slot: it does not come back to a cell it has programmed.
THEOREM OrderedChanges ==
  ASSUME MAX_WORDS_PER_CMD <= SlotWords
  PROVE  Spec => OnlyOrderedChanges
<1> DEFINE Ordered == \A c \in Cells : mem'[c] # mem[c] =>
              Excused \/ (c \in order.cells /\ mem'[c] \in {order.mem[c], Unknown})
<1>1. IInv /\ DataInv /\ [Next]_vars => [Ordered]_vars
  <2> SUFFICES ASSUME IInv, DataInv, Next, ~Excused, NEW c \in Cells, mem'[c] # mem[c]
               PROVE  c \in order.cells /\ mem'[c] \in {order.mem[c], Unknown}
    OBVIOUS
  <2>1. Finish \/ HwReset
    BY MemoryChanges
  <2>2. c \in job.cells /\ job # NoJob
    BY <2>1 DEF Finish, Succeed, Fail, HwReset, NoJob
  <2>3. CASE HwReset
    BY <2>2, <2>3, JobOrdered DEF HwReset
  <2>4. CASE Finish
    <3>1. Succeed
      BY <2>4 DEF Finish, Fail, Excused
    <3>2. QED
      BY <2>2, <3>1, JobOrdered DEF Succeed
  <2>5. QED
    BY <2>1, <2>3, <2>4
<1>2. QED
  BY DataInvariance, <1>1, PTL DEF Spec, OnlyOrderedChanges

=============================================================================

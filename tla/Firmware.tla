------------------------------ MODULE Firmware ------------------------------
(***************************************************************************)
(* The firmware's command layer: main()'s loop, protocol_task() and the    *)
(* flash operations it calls, driving the chip of NorFlash one command     *)
(* word at a time while the chip's embedded algorithm, the host, the USB   *)
(* cable, the A19 switch and the power supply go their own way.            *)
(*                                                                         *)
(* A request is what protocol_task() makes of the bytes in the OUT         *)
(* endpoint; "fate" says how far reading it gets, so that whatever an      *)
(* early return leaves behind is again some request the host may send.     *)
(* The pins are FlashBus's subject; here only the /OE buffer is kept.      *)
(***************************************************************************)
EXTENDS NorFlash, Sequences

CONSTANTS
  Requests,            \* requests the host may send
  MAX_WORDS_PER_CMD,
  None                 \* an empty endpoint

Commands == {"IDENTIFY", "READ", "CHIP_ERASE", "SECTOR_ERASE", "PROGRAM",
             "GET_STATUS", "FLASH_RESET", "AVR_RESET", "undefined"}
Fates == {"whole", "noHeader", "badMagic", "noPayload", "noCrc", "badCrc"}

ASSUME RequestsAssumption ==
  /\ Requests \subseteq [cmd: Commands, addr: Nat, len: Nat,
                         data: Seq(Words), fate: Fates]
  /\ None \notin Requests
  /\ \A r \in Requests : r.cmd = "PROGRAM" => Len(r.data) = r.len
ASSUME LimitsAssumption == MAX_WORDS_PER_CMD \in Nat

VARIABLES
  pc,                  \* where main()'s loop is
  bus,                 \* command words the running flash function has left
  req,                 \* the request being handled (cmd_buf)
  i,                   \* word index of flash_program_buffer()
  answer,              \* the status and words send_response() is to send
  erase_in_progress,
  oe_buf,              \* Gary's /OE buffer
  a19,                 \* the J2 slot switch
  usb,                 \* USB_DeviceState is DEVICE_STATE_Configured
  inbox,               \* the bulk OUT endpoint
  order                \* history: the last erase or program the firmware began

fwVars == <<pc, bus, req, i, answer, erase_in_progress, oe_buf>>
envVars == <<a19, usb, inbox>>
vars == <<chipVars, fwVars, envVars, order>>

Labels == {"boot", "loop", "parse", "dispatch", "identify", "read", "erase",
           "program", "wait", "release", "respond", "reset"}
Statuses == {"OK", "ERROR", "BUSY", "TIMEOUT", "CRC_ERROR"}
Answers == [status: Statuses, data: Seq(Readings)]
Answer(status, words) == [status |-> status, data |-> words]

\* "upset" is the command that broke into the order, if any did.
NoOrder == [kind |-> "none", cells |-> {}, mem |-> mem, upset |-> "none"]

\* Every variable, the chip's included, has its type: among others, no command word
\* leaves the bus for a cell the chip does not have, and i never runs below zero.
TypeOK ==
  /\ ChipTypeOK
  /\ pc \in Labels
  /\ bus \in Seq(Cycles)
  /\ req \in Requests \cup {None}
  /\ i \in Nat
  /\ answer \in Answers
  /\ erase_in_progress \in BOOLEAN
  /\ oe_buf \in {"enabled", "isolated"}
  /\ a19 \in {0, 1} /\ usb \in BOOLEAN
  /\ inbox \in Requests \cup {None}
  /\ order \in [kind: {"none", "erase", "program"}, cells: SUBSET Cells,
                mem: [Cells -> Contents],
                upset: {"none", "READ", "FLASH_RESET", "AVR_RESET"}]

Init ==
  /\ ChipInit
  /\ pc = "boot" /\ bus = <<>> /\ req = None /\ i = 0
  /\ answer = Answer("OK", <<>>)
  /\ erase_in_progress = FALSE /\ oe_buf = "enabled"
  /\ a19 \in {0, 1} /\ usb = FALSE /\ inbox = None
  /\ order = NoOrder

-----------------------------------------------------------------------------
(* The flash functions' command words.                                     *)

\* The cell a word address reaches: set_address() drives A0-A18, J2 is A19.
Cell(wa) == (a19 * SlotWords) + (wa % SlotWords)

Word(code) == Cycle(code, 0, {})
ResetWord == <<Word("F0")>>
ResetTwice == <<Word("F0"), Word("F0")>>
BugOneUnlockWord == <<Word("AA"), Word("90")>>
IdSequence == <<Word("AA"), Word("55"), Word("90")>>
BugAlwaysChipErase(last) ==
  <<Word("AA"), Word("55"), Word("80"), Word("AA"), Word("55"), Word("10")>>
EraseSequence(last) ==
  <<Word("AA"), Word("55"), Word("80"), Word("AA"), Word("55"), last>>
BugAddressOffByOne(wa, w) ==
  <<Word("AA"), Word("55"), Word("A0"), Cycle("data", Cell(wa + 1), w)>>
ProgramSequence(wa, w) ==
  <<Word("AA"), Word("55"), Word("A0"), Cycle("data", Cell(wa), w)>>

\* flash_cmd(): the next command word of the running flash function.
FlashCmd ==
  /\ pc # "boot" /\ bus # <<>>
  /\ Write(Head(bus)) /\ bus' = Tail(bus)
  /\ UNCHANGED <<pc, req, i, answer, erase_in_progress, oe_buf,
                 envVars, order>>

At(label) == pc = label /\ bus = <<>>

\* What PE3 reads.  The three before it, like every definition called Bug..., are
\* variants with a mistake in them: a run shows that its property finds it.
BugInvertedRyBy == ~Ready
BugRyByStuckHigh == TRUE
BugRyByStuckLow == FALSE
flash_is_ready == Ready

BugPE4NotOutput == oe_buf' = "enabled"
oe_buf_isolate == oe_buf' = "isolated"
oe_buf_release == oe_buf' = "enabled"

-----------------------------------------------------------------------------
(* protocol_task(): polling and parsing.                                   *)

\* The erase flag follows RY/BY whenever the task runs, request or none.
TaskPoll ==
  /\ At("loop") /\ usb
  /\ erase_in_progress' = (erase_in_progress /\ ~flash_is_ready)
  /\ IF inbox = None
     THEN UNCHANGED <<pc, req, inbox>>
     ELSE pc' = "parse" /\ req' = inbox /\ inbox' = None
  /\ UNCHANGED <<chipVars, bus, i, answer, oe_buf, a19, usb, order>>

Reject(status) ==
  /\ pc' = "respond" /\ answer' = Answer(status, <<>>)

TooLong == req.len > MAX_WORDS_PER_CMD
Payload == req.cmd = "PROGRAM" /\ req.len > 0
Short == req.fate = "noCrc" \/ (req.fate = "noPayload" /\ Payload)

Parse ==
  /\ At("parse")
  /\ \/ /\ req.fate \in {"noHeader", "badMagic"}       \* no answer at all
        /\ pc' = "loop" /\ req' = None /\ UNCHANGED answer
     \/ /\ req.fate \notin {"noHeader", "badMagic"}
        /\ TooLong \/ Short
        /\ Reject("ERROR") /\ UNCHANGED req
     \/ /\ req.fate = "badCrc" /\ ~TooLong
        /\ Reject("CRC_ERROR") /\ UNCHANGED req
     \/ /\ req.fate \in {"whole", "noPayload"} /\ ~TooLong /\ ~Short
        /\ pc' = "dispatch" /\ UNCHANGED <<req, answer>>
  /\ UNCHANGED <<chipVars, bus, i, erase_in_progress, oe_buf,
                 envVars, order>>

Dispatch(cmd) == At("dispatch") /\ req.cmd = cmd
OutOfRange == req.addr + req.len > FLASH_SIZE_WORDS

-----------------------------------------------------------------------------
(* The commands that only read.                                            *)

BugIdentifyResets ==
  /\ Dispatch("IDENTIFY") /\ HwReset
  /\ pc' = "identify" /\ bus' = IdSequence /\ answer' = Answer("OK", <<>>)
  /\ UNCHANGED <<req, i, erase_in_progress, oe_buf, envVars, order>>
Identify ==
  /\ Dispatch("IDENTIFY")
  /\ pc' = "identify" /\ bus' = IdSequence /\ answer' = Answer("OK", <<>>)
  /\ UNCHANGED <<chipVars, req, i, erase_in_progress, oe_buf, envVars, order>>

\* flash_read_id(): manufacturer and device word, then flash_reset().
SampleId ==
  /\ At("identify")
  /\ answer' = Answer("OK", Append(answer.data, Readout(Cell(Len(answer.data)))))
  /\ IF answer.data = <<>>
     THEN UNCHANGED <<pc, bus>>
     ELSE pc' = "respond" /\ bus' = ResetWord
  /\ UNCHANGED <<chipVars, req, i, erase_in_progress, oe_buf, envVars, order>>

\* flash_hw_reset() pulls /RST, which stops whatever the chip was doing ...
BugHwResetLeftOut == UNCHANGED chipVars
BugResetsIfErasing == IF erase_in_progress THEN HwReset ELSE UNCHANGED chipVars
flash_hw_reset == HwReset

\* ... and sends a reset word as well; flash_read_buffer() comes after it.
StartRead ==
  /\ flash_hw_reset
  /\ bus' = ResetWord /\ answer' = Answer("OK", <<>>)
  /\ order' = IF Ready THEN order ELSE [order EXCEPT !.upset = req.cmd]
  /\ pc' = "read"

Read ==
  /\ Dispatch("READ")
  /\ \/ OutOfRange /\ Reject("ERROR") /\ UNCHANGED <<chipVars, bus, order>>
     \/ ~OutOfRange /\ StartRead
  /\ UNCHANGED <<req, i, erase_in_progress, oe_buf, envVars>>

FlashReset ==
  /\ Dispatch("FLASH_RESET")
  /\ erase_in_progress' = FALSE
  /\ StartRead
  /\ UNCHANGED <<req, i, oe_buf, envVars>>

\* One turn of flash_read_buffer()'s loop: FLASH_RESET reads words 0 and 1.
From == IF req.cmd = "READ" THEN req.addr ELSE 0
Count == IF req.cmd = "READ" THEN req.len ELSE 2
ReadWord ==
  /\ At("read")
  /\ IF Len(answer.data) < Count
     THEN /\ answer' = Answer("OK",
               Append(answer.data, Readout(Cell(From + Len(answer.data)))))
          /\ UNCHANGED pc
     ELSE answer' = Answer("OK", answer.data) /\ pc' = "respond"
  /\ UNCHANGED <<chipVars, bus, req, i, erase_in_progress, oe_buf, envVars, order>>

-----------------------------------------------------------------------------
(* The commands that start an erase, and the one that asks after it.       *)

\* What the firmware sets out to do; an algorithm an AVR reset has left
\* running is still there.
Begin(kind, cells, goal) ==
  order' = [kind |-> kind, cells |-> cells, mem |-> goal,
            upset |-> IF Ready THEN "none" ELSE order.upset]

RefuseWhileErasing(cmd) ==
  /\ Dispatch(cmd) /\ erase_in_progress
  /\ Reject("BUSY")
  /\ UNCHANGED <<chipVars, bus, req, i, erase_in_progress, oe_buf,
                 envVars, order>>

StartErase(last) ==
  /\ ~erase_in_progress
  /\ oe_buf_isolate
  /\ bus' = EraseSequence(last) /\ pc' = "erase"
  /\ Begin("erase", Target(last).cells,
           [c \in Cells |-> IF c \in Target(last).cells THEN Bits ELSE mem[c]])
  /\ UNCHANGED <<chipVars, req, i, answer, erase_in_progress, envVars>>

ChipErase ==
  \/ RefuseWhileErasing("CHIP_ERASE")
  \/ Dispatch("CHIP_ERASE") /\ StartErase(Word("10"))

\* The address is not checked: its low 19 bits and J2 choose the sector.
SectorErase ==
  \/ RefuseWhileErasing("SECTOR_ERASE")
  \/ Dispatch("SECTOR_ERASE") /\ StartErase(Cycle("30", Cell(req.addr), {}))

\* The last command word is out: only now is the flag set.
EraseStarted ==
  /\ At("erase")
  /\ erase_in_progress' = TRUE
  /\ Reject("BUSY")
  /\ UNCHANGED <<chipVars, bus, req, i, oe_buf, envVars, order>>

GetStatus ==
  /\ Dispatch("GET_STATUS")
  /\ IF erase_in_progress /\ flash_is_ready
     THEN /\ erase_in_progress' = FALSE
          /\ bus' = ResetWord /\ pc' = "release"
          /\ answer' = Answer("OK", <<>>)
     ELSE /\ Reject(IF erase_in_progress THEN "BUSY" ELSE "OK")
          /\ UNCHANGED <<erase_in_progress, bus>>
  /\ UNCHANGED <<chipVars, req, i, oe_buf, envVars, order>>

\* oe_buf_release(), once flash_reset()'s word is out.
Release ==
  /\ At("release")
  /\ oe_buf_release /\ pc' = "respond"
  /\ UNCHANGED <<chipVars, bus, req, i, answer, erase_in_progress,
                 envVars, order>>

-----------------------------------------------------------------------------
(* PROGRAM: flash_program_buffer() and its wait after every word.          *)

\* The words a PROGRAM has for this cell after its first n, and what they leave there.
WordsFor(n, c) ==
  {req.data[j] : j \in {k \in n + 1 .. req.len : Cell(req.addr + k - 1) = c}}
Programmed(n, c) ==
  IF mem[c] = Unknown THEN Unknown
  ELSE {b \in mem[c] : \A w \in WordsFor(n, c) : b \in w}

Program ==
  \/ RefuseWhileErasing("PROGRAM")
  \/ /\ Dispatch("PROGRAM") /\ ~erase_in_progress /\ OutOfRange
     /\ Reject("ERROR")
     /\ UNCHANGED <<chipVars, bus, req, i, erase_in_progress, oe_buf,
                    envVars, order>>
  \/ /\ Dispatch("PROGRAM") /\ ~erase_in_progress /\ ~OutOfRange
     /\ oe_buf_isolate
     /\ i' = 0 /\ pc' = "program"
     /\ Begin("program", {c \in Cells : WordsFor(0, c) # {}},
              [c \in Cells |-> Programmed(0, c)])
     /\ UNCHANGED <<chipVars, bus, req, answer, erase_in_progress, envVars>>

\* The head of the loop: the next word, or the end of the buffer.
ProgramWord ==
  /\ At("program")
  /\ IF i < req.len
     THEN /\ bus' = ProgramSequence(req.addr + i, req.data[i + 1])
          /\ pc' = "wait" /\ UNCHANGED answer
     ELSE /\ bus' = ResetWord
          /\ pc' = "release" /\ answer' = Answer("OK", <<>>)
  /\ UNCHANGED <<chipVars, req, i, erase_in_progress, oe_buf, envVars,
                 order>>

BugCountsDown ==
  /\ At("wait") /\ flash_is_ready
  /\ i' = i - 1 /\ pc' = "program"
  /\ UNCHANGED <<chipVars, bus, req, answer, erase_in_progress, oe_buf,
                 envVars, order>>

\* wait_ready(5000) sees RY/BY high ...
WaitReady ==
  /\ At("wait") /\ flash_is_ready
  /\ i' = i + 1 /\ pc' = "program"
  /\ UNCHANGED <<chipVars, bus, req, answer, erase_in_progress, oe_buf,
                 envVars, order>>

BugNoTimeout == FALSE /\ UNCHANGED vars

\* ... or gives up; the function and its caller each send a reset word.
WaitTimeout ==
  /\ At("wait") /\ ~flash_is_ready
  /\ Worn \/ mode = "erasing"
  /\ bus' = ResetTwice /\ pc' = "release"
  /\ answer' = Answer("TIMEOUT", <<>>)
  /\ UNCHANGED <<chipVars, req, i, erase_in_progress, oe_buf, envVars,
                 order>>

-----------------------------------------------------------------------------
(* The remaining commands and the answer.                                  *)

Undefined ==
  /\ Dispatch("undefined") /\ Reject("ERROR")
  /\ UNCHANGED <<chipVars, bus, req, i, erase_in_progress, oe_buf,
                 envVars, order>>

\* CMD_AVR_RESET answers first and pulls /RESET afterwards.
AvrReset ==
  /\ Dispatch("AVR_RESET") /\ Reject("OK")
  /\ UNCHANGED <<chipVars, bus, req, i, erase_in_progress, oe_buf,
                 envVars, order>>

\* send_response(), and the return to main()'s loop.  Whether the answer gets
\* out changes nothing here: nobody looks at what bulk_send() returns.
SendResponse ==
  /\ At("respond")
  /\ pc' = IF req.cmd = "AVR_RESET" /\ answer.status = "OK" THEN "reset" ELSE "loop"
  /\ req' = None /\ i' = 0 /\ answer' = Answer("OK", <<>>)
  /\ UNCHANGED <<chipVars, bus, erase_in_progress, oe_buf, envVars, order>>

\* Everything a restart of the AVR forgets.
Restart ==
  /\ pc' = "boot" /\ bus' = <<>> /\ req' = None /\ i' = 0
  /\ answer' = Answer("OK", <<>>)
  /\ erase_in_progress' = FALSE /\ oe_buf' = "enabled"
  /\ usb' = FALSE /\ inbox' = None /\ UNCHANGED a19

\* PE5 low: the AVR restarts, the chip carries on.
PullReset ==
  /\ At("reset")
  /\ Restart
  /\ order' = IF Ready THEN order ELSE [order EXCEPT !.upset = "AVR_RESET"]
  /\ UNCHANGED chipVars

BugInitPullsRst ==
  /\ pc = "boot"
  /\ HwReset /\ pc' = "loop"
  /\ UNCHANGED <<bus, req, i, answer, erase_in_progress, oe_buf, envVars, order>>

\* flash_init(): a reset word; /RST is never driven low.
FlashInit ==
  /\ pc = "boot"
  /\ Write(Word("F0")) /\ pc' = "loop"
  /\ UNCHANGED <<bus, req, i, answer, erase_in_progress, oe_buf,
                 envVars, order>>

-----------------------------------------------------------------------------
(* The surroundings.                                                       *)

\* protocol_task() looks at the endpoint between commands only: a request sent
\* earlier is one sent now.
HostSend ==
  /\ pc = "loop" /\ usb /\ inbox = None
  /\ inbox' \in Requests
  /\ UNCHANGED <<chipVars, fwVars, a19, usb, order>>

\* The host configures the device, or the cable goes.
UsbChange ==
  /\ pc # "boot"
  /\ usb' = ~usb /\ inbox' = None
  /\ UNCHANGED <<chipVars, fwVars, a19, order>>

\* J2 is moved while no command is being handled.
MoveSwitch ==
  /\ pc = "loop"
  /\ a19' = 1 - a19
  /\ UNCHANGED <<chipVars, fwVars, usb, inbox, order>>

PowerLoss ==
  /\ HwReset /\ Restart
  /\ order' = [NoOrder EXCEPT !.mem = mem']

ChipDone ==
  /\ Finish
  /\ UNCHANGED <<fwVars, envVars, order>>

-----------------------------------------------------------------------------
\* protocol_task(), once called, and the calls it makes.
Task ==
  \/ FlashCmd \/ TaskPoll \/ Parse \/ Identify \/ SampleId
  \/ Read \/ FlashReset \/ ReadWord
  \/ ChipErase \/ SectorErase \/ EraseStarted \/ GetStatus \/ Release
  \/ Program \/ ProgramWord \/ WaitReady \/ WaitTimeout
  \/ Undefined \/ AvrReset \/ SendResponse \/ PullReset

Environment ==
  \/ HostSend \/ UsbChange \/ MoveSwitch \/ PowerLoss

Next == Task \/ FlashInit \/ ChipDone \/ Environment

\* main() calls protocol_task() for ever and every wait in it is bounded; the
\* chip ends each algorithm within its datasheet's maximum.
Fairness == WF_vars(Task) /\ WF_vars(ChipDone)

Spec == Init /\ [][Next]_vars /\ Fairness

-----------------------------------------------------------------------------
(* Properties.                                                             *)

\* What the firmware cannot see: an erase it forgot in an AVR reset, and what a worn
\* chip does, whose programs may outlast their time-out or fail.
\* Either may still be at work when the next order begins.
Excused == order.upset = "AVR_RESET" \/ Worn

\* While the chip erases, the firmware knows it: protocol_task() refuses
\* CHIP_ERASE, SECTOR_ERASE and PROGRAM (protocol.c:208, 217, 226).  The flag
\* is set after the last command word and cleared on RY/BY, so the sequence
\* itself is the one gap; an AVR reset forgets the flag.
EraseTracked ==
  mode = "erasing" =>
    erase_in_progress \/ pc = "erase" \/ order.upset = "AVR_RESET"

\* Gary's buffer stays off /OE from the first command word until the embedded
\* algorithm is over (oe_buf_isolate() before, oe_buf_release() after).
BusyIsolated ==
  ~Ready => oe_buf = "isolated" \/ Excused

\* No command word of an erase or a program is sent to a chip that is too busy
\* to hear it: the firmware never sends one half of a sequence into silence.
EveryWordHeard ==
  pc \in {"erase", "program", "wait"} /\ bus # <<>> =>
    Ready \/ Excused

Answered(cmd, status) ==
  pc = "respond" /\ bus = <<>> /\ req.cmd = cmd /\ answer.status = status

\* STATUS_OK to PROGRAM: exactly the words sent went into exactly the cells
\* addressed, over what those cells held before.
ProgramOkMeansProgrammed ==
  Answered("PROGRAM", "OK") => mem = order.mem \/ Excused

\* STATUS_OK to GET_STATUS: the erase is over, the whole of it, and the rest
\* of the chip is as it was, unless a hardware reset cut the erase short.
StatusOkMeansErased ==
  Answered("GET_STATUS", "OK") /\ order.kind = "erase" /\ order.upset = "none" =>
    mem = order.mem \/ Worn

\* STATUS_OK to READ: the words are the flash's contents, never its status
\* register or its ID codes, whatever the chip was doing before.
ReadOkMeansContents ==
  Answered("READ", "OK") =>
    answer.data = [j \in 1 .. req.len |->
                     mem[(a19 * SlotWords) + ((req.addr + j - 1) % SlotWords)]]

\* Outside an erase IDENTIFY answers with the two ID words.
IdentifyTruth ==
  Answered("IDENTIFY", "OK") /\ ~erase_in_progress =>
    answer.data = <<IdCode, IdCode>> \/ Excused

\* A cell changes only as the order being carried out says, or is left torn by
\* a reset in the middle of it: no command reaches another cell.
OnlyOrderedChanges ==
  [][\A c \in Cells : mem'[c] # mem[c] =>
       Excused \/ (c \in order.cells /\ mem'[c] \in {order.mem[c], Unknown})]_vars

\* Only a READ, a FLASH_RESET, the loss of power or the chip's own failure tears a cell.
OnlyResetsTear ==
  [][\A c \in Cells : mem[c] # Unknown /\ mem'[c] = Unknown =>
       \/ pc = "dispatch" /\ req.cmd \in {"READ", "FLASH_RESET"}
       \/ pc' = "boot" \/ mode' = "failed"]_vars

\* Every call of protocol_task() returns: each of its waits is bounded.
HandlerReturns == pc \notin {"loop", "boot"} ~> pc \in {"loop", "boot"}

\* An erase the host has been told of ends, and the firmware notices, for as
\* long as it is configured; one that fails looks like one that goes on.
EraseCompletes == erase_in_progress ~> ~erase_in_progress \/ ~usb \/ mode = "failed"

-----------------------------------------------------------------------------
(* Why EraseTracked, BusyIsolated and EveryWordHeard hold: the inductive   *)
(* invariant FirmwareProofs proves.                                        *)

\* The locals of protocol_task() and of flash_program_buffer().
Locals ==
  /\ pc \notin {"boot", "loop", "reset"} => req \in Requests
  /\ pc \in {"program", "wait"} => req.cmd = "PROGRAM" /\ i <= req.len
  /\ pc = "wait" => i < req.len
  /\ pc = "read" => req.cmd \in {"READ", "FLASH_RESET"}

\* A word that sets the chip to work is the last of its sequence, and is sent
\* by the function whose business it is.
LastWord ==
  /\ pc \in {"boot", "loop"} => bus = <<>>
  /\ \A j \in 1 .. Len(bus) :
       /\ bus[j].code \in {"10", "30"} => pc = "erase" /\ j = Len(bus)
       /\ bus[j].code = "data" => pc = "wait" /\ j = Len(bus)

\* Erase and program run with the buffer isolated and the flag down.
Guarded ==
  pc \in {"erase", "program", "wait"} => oe_buf = "isolated" /\ ~erase_in_progress

\* Where the firmware takes the chip to be ready, it is.
ReadyHere ==
  pc \in {"program", "release"} \/ (pc \in {"erase", "wait"} /\ bus # <<>>) =>
    Ready \/ Excused

\* The firmware waits for a program to end before it does anything else.
ProgramWaited ==
  mode = "programming" => (pc = "wait" /\ bus = <<>>) \/ Worn

\* All of it: the state of protocol_task() and of the flash function it is in
\* decides what the chip may be doing (protocol.c:207-250, flash.c:328-380).
IInv ==
  /\ TypeOK /\ Locals /\ LastWord /\ Guarded /\ ReadyHere /\ ProgramWaited
  /\ EraseTracked /\ BusyIsolated

-----------------------------------------------------------------------------
(* Why an OK is true of the flash, and only orders change it: what the     *)
(* command words on the way, the decoder, the embedded algorithm and the   *)
(* order have to do with each other, at each place of protocol_task().     *)

\* The words on the way are the last ones of this sequence.
Rest(codes) ==
  /\ Len(bus) <= Len(codes)
  /\ \A j \in 1 .. Len(bus) : bus[j].code = codes[Len(codes) - Len(bus) + j]
LastOnBus == bus[Len(bus)]
OnTheWay ==
  /\ pc \in {"boot", "loop", "parse", "dispatch", "program", "reset"} => bus = <<>>
  /\ pc = "identify" => Rest(<<"AA", "55", "90">>)
  /\ pc = "erase" =>
       \E last \in {"10", "30"} : Rest(<<"AA", "55", "80", "AA", "55", last>>)
  /\ pc = "erase" /\ bus # <<>> =>
       \/ req.cmd = "CHIP_ERASE" /\ LastOnBus = Word("10")
       \/ req.cmd = "SECTOR_ERASE" /\ LastOnBus = Cycle("30", Cell(req.addr), {})
  /\ pc = "wait" => Rest(<<"AA", "55", "A0", "data">>)
  /\ pc = "read" => Rest(<<"F0">>)
  /\ pc \in {"release", "respond"} => Rest(<<"F0", "F0">>)
  /\ pc = "wait" /\ bus # <<>> =>
       LastOnBus = Cycle("data", Cell(req.addr + i), req.data[i + 1])

\* The decoder of a chip that has heard every word so far ...
EraseModes == <<"read", "unlock1", "unlock2", "erase", "eraseUnlock1", "eraseUnlock2">>
ProgramModes == <<"read", "unlock1", "unlock2", "program">>
IdModes == <<"read", "unlock1", "unlock2", "autoselect">>
Heard ==
  /\ pc = "erase" /\ bus # <<>> => mode = EraseModes[7 - Len(bus)]
  /\ pc = "wait" /\ bus # <<>> => mode = ProgramModes[5 - Len(bus)]
  /\ pc = "identify" => mode = IdModes[4 - Len(bus)]
  /\ pc = "respond" /\ bus # <<>> => mode = "autoselect"
  /\ pc \notin {"identify", "respond", "erase", "wait"} => mode = "read"
  /\ pc # "identify" /\ bus = <<>> => mode = "read"
\* ... and of one that was busy for the first of them: it ends up in read mode.
Astray ==
  \/ mode = "read"
  \/ pc = "erase" /\ Len(bus) = 2 /\ mode = "unlock1"
  \/ pc = "erase" /\ Len(bus) = 1 /\ mode = "unlock2"
Decoder ==
  Ready =>
    /\ job = NoJob
    /\ Heard \/ Astray
    /\ \/ pc \in {"erase", "wait"} /\ bus # <<>>
       \/ pc = "identify" /\ ~erase_in_progress
       => Heard \/ Excused

\* What is left to be done for the order, from the flash as it is.
EraseLeft(cells) ==
  /\ order.kind = "erase" /\ order.upset = "none" /\ order.cells = cells
  /\ \A c \in Cells : order.mem[c] = IF c \in cells THEN Bits ELSE mem[c]
ProgramLeft(n) ==
  /\ order.kind = "program" /\ order.upset = "none"
  /\ order.cells = {c \in Cells : WordsFor(0, c) # {}}
  /\ \A c \in Cells : order.mem[c] = Programmed(n, c)

\* A word counts from the moment it is in the flash, before WaitReady has counted it.
Carried ==
  /\ pc = "erase" /\ bus # <<>> => EraseLeft(Target(LastOnBus).cells)
  /\ mode = "erasing" => EraseLeft(job.cells)
  /\ pc = "program" => ProgramLeft(i)
  /\ pc = "wait" => ProgramLeft(IF Ready /\ bus = <<>> THEN i + 1 ELSE i)
  /\ mode = "programming" =>
       job = Target(Cycle("data", Cell(req.addr + i), req.data[i + 1]))
  /\ Ready /\ order.upset = "none" /\ pc \notin {"program", "wait"} =>
       (pc = "erase" /\ bus # <<>>) \/ mem = order.mem

Answering(cmds) == pc = "respond" /\ req.cmd \in cmds /\ answer.status = "OK"
Releasing(cmds) == pc = "release" /\ req.cmd \in cmds
AnswersTrue ==
  /\ pc = "read" =>
       /\ Ready /\ Len(answer.data) <= Count
       /\ \A j \in 1 .. Len(answer.data) : answer.data[j] = mem[Cell(From + j - 1)]
  /\ Answering({"READ", "FLASH_RESET"}) => Ready /\ bus = <<>>
  /\ Answering({"READ"}) =>
       answer.data = [j \in 1 .. req.len |-> mem[Cell(req.addr + j - 1)]]
  /\ Answering({"IDENTIFY"}) /\ ~erase_in_progress =>
       answer.data = <<IdCode, IdCode>> \/ Excused
  /\ pc = "identify" => req.cmd = "IDENTIFY" /\ (answer.data = <<>> \/ bus = <<>>)
  /\ pc = "identify" /\ ~erase_in_progress =>
       answer.data \in {<<>>, <<IdCode>>} \/ Excused
  /\ pc = "release" => req.cmd \in {"GET_STATUS", "PROGRAM"}
  /\ Releasing({"GET_STATUS", "PROGRAM"}) \/ Answering({"GET_STATUS", "PROGRAM"}) =>
       ~erase_in_progress
  /\ Releasing({"PROGRAM"}) \/ Answering({"PROGRAM"}) => order.upset = "none" \/ Excused
  /\ pc \in {"dispatch", "program", "wait"} => ~TooLong

DataInv == OnTheWay /\ Decoder /\ (Excused \/ Carried) /\ AnswersTrue
=============================================================================

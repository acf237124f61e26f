------------------------------- MODULE Meggy -------------------------------
(***************************************************************************)
(* The whole system: meggy_flash.py's sessions (--write, --erase and       *)
(* --verify) against the firmware and the chip of Firmware.  A session is  *)
(* the script of the calls it makes; Transport shows what lies between a   *)
(* call and the firmware, so here a request arrives whole, a try whose     *)
(* answer was lost is repeated from a clean start, and a session may end   *)
(* at any moment.                                                          *)
(***************************************************************************)
EXTENDS Firmware

CONSTANTS
  Sessions,      \* which sessions the user runs
  Images,        \* ROM images, functions from a slot's word addresses to words
  SECTOR_MAP,    \* the word addresses erase_current_slot() sends
  CHUNK_WORDS,
  RETRIES        \* tries of a call

ASSUME HostAssumption ==
  /\ Sessions \subseteq {"write", "erase", "verify"}
  /\ Images \subseteq [0 .. SlotWords - 1 -> Words]
  /\ SECTOR_MAP \in Seq(0 .. SlotWords - 1)
  /\ {CHUNK_WORDS, RETRIES} \subseteq Nat \ {0}
  /\ SlotWords % CHUNK_WORDS = 0
  /\ None \notin Images
\* Every sector of either slot has an address in the map (SectorMap's theorem).
ASSUME MapAssumption ==
  \A s \in {0, 1}, a \in 0 .. SlotWords - 1 : \E n \in DOMAIN SECTOR_MAP :
    Sector[s * SlotWords + SECTOR_MAP[n]] = Sector[s * SlotWords + a]
\* A19 selects one half of the chip, and every sector lies in one of the halves.
ASSUME HalvesAssumption ==
  \A c, d \in Cells : Sector[c] = Sector[d] => (c < SlotWords <=> d < SlotWords)

VARIABLES
  session,   \* the session that runs
  image,     \* the image it is about
  step,      \* the call of its script that is next, or under way
  attempt,   \* 0 before the call, else the number of its try
  reply,     \* the answer in the IN endpoint
  data,      \* what verify() has read
  clean,     \* history: the chip was ready when the session began
  told       \* history: the image reported as verified, and its slot

hostVars == <<session, image, step, attempt, reply, data, clean, told>>
allVars == <<vars, hostVars>>

NothingTold == [slot |-> 0, image |-> None]

-----------------------------------------------------------------------------
(* The scripts.                                                            *)

Ask(cmd, addr, len, words) ==
  [cmd |-> cmd, addr |-> addr, len |-> len, data |-> words, fate |-> "whole"]
Reset == Ask("FLASH_RESET", 0, 0, <<>>)
Chunks == [n \in 1 .. SlotWords \div CHUNK_WORDS |-> (n - 1) * CHUNK_WORDS]

\* One sector: sector_erase(), wait_ready(), flash_reset(), and a read() of a word.
BugEraseNotAwaited(addr) == << Ask("SECTOR_ERASE", addr, 0, <<>>) >>
EraseSector(addr) ==
  << Ask("SECTOR_ERASE", addr, 0, <<>>), Ask("GET_STATUS", 0, 0, <<>>), Reset,
     Reset, Ask("READ", addr, 1, <<>>) >>
EraseCurrentSlot ==
  LET calls == Len(EraseSector(0))
  IN  [n \in 1 .. calls * Len(SECTOR_MAP) |->
         EraseSector(SECTOR_MAP[((n - 1) \div calls) + 1])[((n - 1) % calls) + 1]]
ProgramChunk(img, addr) ==
  Ask("PROGRAM", addr, CHUNK_WORDS, [j \in 1 .. CHUNK_WORDS |-> img[addr + j - 1]])
ProgramImage(img) == [n \in DOMAIN Chunks |-> ProgramChunk(img, Chunks[n])]
Verify == <<Reset>> \o [n \in DOMAIN Chunks |-> Ask("READ", Chunks[n], CHUNK_WORDS, <<>>)]

Script(kind, img) ==
  CASE kind = "erase"  -> EraseCurrentSlot
    [] kind = "write"  -> EraseCurrentSlot \o ProgramImage(img) \o <<Reset>> \o Verify
    [] kind = "verify" -> Verify
    [] kind = "none"   -> <<>>
\* What a session may send is among the requests the firmware may get.
ASSUME ScriptsAssumption ==
  \A kind \in Sessions, img \in Images :
    \A n \in DOMAIN Script(kind, img) : Script(kind, img)[n] \in Requests
script == Script(session, image)
request == script[step]
Finished == session # "none" /\ step > Len(script)

-----------------------------------------------------------------------------
(* The host.                                                               *)

MeggyInit ==
  /\ Init
  /\ session = "none" /\ image \in Images /\ step = 1 /\ attempt = 0
  /\ reply = None /\ data = <<>> /\ clean = FALSE /\ told = NothingTold

\* main() is called; MeggyCom() has flushed the IN endpoint.
StartSession ==
  /\ session = "none" /\ session' \in Sessions /\ image' \in Images
  /\ usb /\ pc = "loop" /\ inbox = None
  /\ step' = 1 /\ attempt' = 0 /\ reply' = None /\ data' = <<>>
  /\ clean' = Ready /\ told' = NothingTold
  /\ UNCHANGED vars

\* No answer will come: there was no try yet, or the last one's answer was lost.
Silent ==
  /\ session # "none" /\ ~Finished
  /\ pc = "loop" /\ inbox = None /\ reply = None

\* _transact() sends the request, for the first time or again ...
HostCall ==
  /\ Silent /\ attempt < RETRIES
  /\ inbox' = request /\ attempt' = attempt + 1
  /\ UNCHANGED <<chipVars, fwVars, a19, usb, order, session, image, step, reply,
                 data, clean, told>>

\* close(): what the session was waiting for is nobody's any more.
EndSession ==
  /\ session' = "none" /\ step' = 1 /\ attempt' = 0 /\ reply' = None
  /\ data' = <<>> /\ clean' = FALSE /\ UNCHANGED image

\* ... and raises the last exception when the tries are used up.
HostGivesUp ==
  /\ Silent /\ attempt = RETRIES
  /\ EndSession
  /\ UNCHANGED <<vars, told>>

\* What the callers of _transact() make of an answer: sector_erase() takes BUSY for
\* its erase's start, wait_ready() asks again, all others raise an exception.
BugBusyPasses == reply.status \in {"OK", "BUSY"}
Passes ==
  \/ reply.status = "OK" /\ (request.cmd = "READ" => Len(reply.data) = request.len)
  \/ reply.status = "BUSY" /\ request.cmd = "SECTOR_ERASE"
Repeats == reply.status = "BUSY" /\ request.cmd = "GET_STATUS"

\* The words read() returns to verify(), and not to the blank check.
BugCollectsBlankCheck == request.cmd = "READ"
Verifying ==
  session # "erase" /\ step > Len(script) - Len(Verify) /\ request.cmd = "READ"
HostReply ==
  /\ session # "none" /\ reply # None
  /\ \/ /\ Passes
        /\ step' = step + 1
        /\ data' = IF Verifying THEN data \o reply.data ELSE data
        /\ attempt' = 0 /\ reply' = None /\ UNCHANGED <<session, image, clean>>
     \/ /\ Repeats
        /\ attempt' = 0 /\ reply' = None
        /\ UNCHANGED <<session, image, step, data, clean>>
     \/ /\ ~Passes /\ ~Repeats
        /\ EndSession
  /\ UNCHANGED <<vars, told>>

\* The end of main(): the verdict of verify(), if the session has one.
BugComparesTooLittle == \A a \in 0 .. SlotWords - 2 : data[a + 1] = image[a]
VerifyOk == \A a \in 0 .. SlotWords - 1 : data[a + 1] = image[a]
HostDone ==
  /\ Finished
  /\ told' = IF session # "erase" /\ VerifyOk
             THEN [slot |-> a19, image |-> image] ELSE told
  /\ EndSession
  /\ UNCHANGED vars

\* Ctrl-C, or wait_ready()'s deadline: a session may be cut short anywhere.
Abort ==
  /\ session # "none"
  /\ EndSession
  /\ UNCHANGED <<vars, told>>

-----------------------------------------------------------------------------
(* The firmware and the surroundings.                                      *)

\* An answer the host does not collect in time is lost.
Deliver ==
  /\ SendResponse
  /\ \/ reply' = IF session = "none" THEN None ELSE answer
     \/ reply' = None
  /\ UNCHANGED <<session, image, step, attempt, data, clean, told>>

\* The answers of sessions that are over end with them.
Run == ~At("respond") /\ Task /\ UNCHANGED hostVars
Chip == (FlashInit \/ ChipDone) /\ UNCHANGED hostVars

\* J2 is moved between sessions; the cable and the supply go at any moment.
Switch == session = "none" /\ inbox = None /\ MoveSwitch /\ UNCHANGED hostVars
Cable == UsbChange /\ EndSession /\ UNCHANGED told
Supply == PowerLoss /\ EndSession /\ UNCHANGED told

Host == HostCall \/ HostGivesUp \/ HostReply \/ HostDone
MeggyNext ==
  \/ StartSession \/ Host \/ Abort \/ Deliver \/ Run \/ Chip \/ Switch \/ Cable
  \/ Supply

MeggyFairness ==
  /\ WF_allVars(Host) /\ WF_allVars(Deliver \/ Run) /\ WF_allVars(Chip)
MeggySpec == MeggyInit /\ [][MeggyNext]_allVars /\ MeggyFairness

-----------------------------------------------------------------------------
(* Properties.                                                             *)

\* The host's variables have their types; what verify() has read is never longer
\* than the slot (meggy_flash.py:439-457), and a call is tried RETRIES times at most.
HostTypeOK ==
  /\ TypeOK
  /\ session \in Sessions \cup {"none"} /\ image \in Images
  /\ step \in 1 .. Len(script) + 1 /\ attempt \in 0 .. RETRIES
  /\ reply \in Answers \cup {None}
  /\ data \in Seq(Readings) /\ Len(data) <= SlotWords
  /\ clean \in BOOLEAN
  /\ told \in [slot: {0, 1}, image: Images \cup {None}]

\* No session ends because of a status: whatever earlier sessions left running and
\* whichever answers were lost, each call comes when the firmware takes it. The
\* scripts leave no gap in which PROGRAM is refused (protocol.c:226, flash.c:366).
NeverRefused == session # "none" /\ reply # None => Passes \/ Repeats

\* What --erase prints last, "All {len(secs)} sectors erased." (meggy_flash.py:488).
EraseReportsTruth ==
  Finished /\ session = "erase" => \A a \in 0 .. SlotWords - 1 : mem[Cell(a)] = Bits

\* A session that found the chip idle and came to its end has done its work: the
\* image is in the slot word for word, or every cell of it is erased, through lost
\* answers and repeated erases and programs (meggy_flash.py:271, 354).
CleanSessionSucceeds ==
  clean => EraseReportsTruth /\ (Finished /\ session = "write" => VerifyOk)

\* Every session works on the selected slot alone, and "Verify OK" means that the
\* image is in the flash and no command can change it any more, however the
\* session before ended.
InFlight(r) == r # None /\ r.cmd \in {"SECTOR_ERASE", "PROGRAM"}
SelectedSlot == {Cell(a) : a \in 0 .. SlotWords - 1}
Loose ==
  job.cells \cup IF InFlight(req) \/ InFlight(inbox) THEN SelectedSlot ELSE {}
Store == INSTANCE RomStore WITH
  rom <- mem, slot <- a19, loose <- Loose, Nothing <- None
ImplementsRomStore == Store!Spec

\* Every session ends, of its own and without wait_ready()'s deadline: an erase it
\* waits for is over at last, one it has inherited included, and lost answers use
\* up the tries (meggy_flash.py:271, 324-343).
SessionEnds == session # "none" ~> session = "none"

-----------------------------------------------------------------------------
(* Why ImplementsRomStore holds: the inductive invariant MeggyProofs       *)
(* proves, over IInv and DataInv of the firmware.                          *)

\* No session sends CHIP_ERASE, which would reach the other slot, or AVR_RESET.
HostCommands == {"SECTOR_ERASE", "GET_STATUS", "FLASH_RESET", "READ", "PROGRAM"}
OnlyHostCommands == \A r \in {req, inbox} : r # None => r.cmd \in HostCommands

\* One request at a time: it waits in the endpoint, is being handled, or is answered.
OneAtATime ==
  /\ pc # "loop" => inbox = None
  /\ pc \in {"boot", "loop"} => req = None
  /\ pc # "reset"
  /\ session # "none" => usb
  /\ session # "none" =>
       {req, inbox} \subseteq {None} \cup IF Finished THEN {} ELSE {request}
  /\ reply # None => session # "none" /\ ~Finished /\ pc = "loop" /\ inbox = None

\* An OK waiting in the IN endpoint is still true when the host collects it.
ReplyStillTrue ==
  reply # None /\ reply.status = "OK" /\ request.cmd \in {"READ", "FLASH_RESET"} =>
    /\ Ready
    /\ request.cmd = "READ" =>
         reply.data = [j \in 1 .. request.len |-> mem[Cell(request.addr + j - 1)]]

\* verify() begins with a FLASH_RESET; from its answer on the chip is ready, and what
\* has been read is what the slot holds.
ResetCall == Len(script) - Len(Verify) + 1
ReadSoFar ==
  IF session \in {"write", "verify"} /\ step > ResetCall
  THEN /\ Ready
       /\ data = [j \in 1 .. (step - ResetCall - 1) * CHUNK_WORDS |-> mem[Cell(j - 1)]]
  ELSE data = <<>>

HostInv ==
  /\ HostTypeOK /\ OnlyHostCommands /\ OneAtATime /\ ReplyStillTrue /\ ReadSoFar

-----------------------------------------------------------------------------
(* Why NeverRefused and CleanSessionSucceeds hold, where the chip is not   *)
(* worn: what a session relies on, call by call.                           *)

\* The firmware has room for every call.
Fitting(r) ==
  /\ r.fate = "whole" /\ r.len <= MAX_WORDS_PER_CMD
  /\ r.addr + r.len <= FLASH_SIZE_WORDS

\* From the last blank check on no erase runs, so none does when a PROGRAM comes.
IsProgram(r) == r # None /\ r.cmd = "PROGRAM"
Programming == session = "write" /\ step > Len(EraseCurrentSlot)
NoEraseRuns ==
  Programming \/ IsProgram(req) \/ IsProgram(inbox) => mode # "erasing"

\* The answers each command may get ...
Accepted(cmd, status) ==
  \/ status = "OK" /\ cmd # "SECTOR_ERASE"
  \/ status = "BUSY" /\ cmd \in {"SECTOR_ERASE", "GET_STATUS"}
AnswersAccept ==
  /\ pc \in {"release", "respond"} => Accepted(req.cmd, answer.status)
  /\ reply # None => Accepted(request.cmd, reply.status)
\* ... and an OK to GET_STATUS that waits means that no erase runs.
StatusStillTrue ==
  reply # None /\ reply.status = "OK" /\ request.cmd = "GET_STATUS" => mode # "erasing"

WelcomeInv ==
  /\ order.upset # "AVR_RESET"
  /\ \A r \in {req, inbox} : r # None => Fitting(r)
  /\ NoEraseRuns /\ AnswersAccept /\ StatusStillTrue
  /\ IsProgram(req) => ~erase_in_progress
  /\ pc = "erase" => req.cmd = "SECTOR_ERASE"

\* The sector the session is at, and which of its five calls.
SectorAt(k) == SectorCells(Cell(SECTOR_MAP[k]))
Erasing == session \in {"erase", "write"} /\ step <= Len(EraseCurrentSlot)
Call == (step - 1) % Len(EraseSector(0))
Here == SectorAt(((step - 1) \div Len(EraseSector(0))) + 1)
Erased(cells) == \A c \in cells : mem[c] = Bits

\* A clean session's erases are its own, and a BUSY to SECTOR_ERASE is about its sector.
OwnErase == mode = "erasing" => Erasing /\ Call \in {0, 1} /\ job.cells = Here
Begun ==
  \/ Call > 0 \/ reply # None
  \/ pc = "respond" \/ At("erase")
  \/ pc \in {"parse", "dispatch"} /\ erase_in_progress
SectorsErased ==
  /\ Erasing /\ Begun => mode = "erasing" \/ Erased(Here)
  /\ Erasing \/ session = "erase" =>
       \A k \in DOMAIN SECTOR_MAP : Len(EraseSector(0)) * k < step => Erased(SectorAt(k))

\* After them every cell holds the bits of the image, and those of the chunks that are
\* programmed no others.
ChunkOf(a) == (a \div CHUNK_WORDS) + 1
Written ==
  Programming => \A a \in 0 .. SlotWords - 1 :
    /\ mem[Cell(a)] # Unknown /\ image[a] \subseteq mem[Cell(a)]
    /\ Len(EraseCurrentSlot) + ChunkOf(a) < step => mem[Cell(a)] = image[a]
Holds(cells, r) == \A j \in 1 .. r.len : cells[Cell(r.addr + j - 1)] = r.data[j]
ChunkWritten ==
  /\ IsProgram(req) /\ pc \notin {"parse", "dispatch"} => Holds(order.mem, req)
  /\ reply # None /\ request.cmd = "PROGRAM" => Holds(mem, request)

CleanInv ==
  clean => session # "none" /\ OwnErase /\ SectorsErased /\ Written /\ ChunkWritten
SessionInv == WelcomeInv /\ CleanInv
=============================================================================

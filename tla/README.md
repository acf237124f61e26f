# Meggy: a TLA+ model of the flash programmer

Meggy is a ROM board for the Amiga: an M29F160FT flash chip (two 1 MB slots,
picked by the J2 switch on A19), an AT90USB1286 that programs it over USB, and a
tri-state buffer through which Gary, the Amiga's address decoder, drives the
chip's /OE. `firmware/` holds the AVR's program in C and the host's
`meggy_flash.py`. These modules model the program from the pins up to the host's
sessions, check it with TLC, and prove part of it with TLAPS.

## 1. Inventory

| Part | Source | State it keeps | Operations |
|---|---|---|---|
| Flash chip (external) | driven by `flash.c` | decoder mode, array, the running embedded algorithm, RY/BY | write cycle, read cycle, /RST, end of program or erase |
| Flash driver | `flash.c`, `flash.h` | DDR and PORT registers, interrupt flag | `flash_init`, `flash_reset`, `flash_hw_reset`, `flash_read_id`, `flash_read_buffer`, two erase starts, `flash_program_buffer`, `oe_buf_isolate/release`, `flash_bus_release` |
| Command layer | `protocol.c` | `erase_in_progress`, `cmd_buf`, `word_buf`, `tx_buf` | `protocol_task`: poll, parse, eight commands |
| Bulk transport | `protocol.c` `bulk_recv`, `bulk_send`, `send_response` | bytes in the two 64-byte endpoints | packets, time-outs, framing |
| CRC-16 | `protocol.c`, `meggy_flash.py` | none | `crc16` twice |
| Host transport | `meggy_flash.py` `MeggyCom` | `_rxbuf` | `_usb_read/_usb_write`, `_transact` with retries and flush |
| Host operations | `meggy_flash.py` | position in an erase, program or verify session | `erase_current_slot`, `program`, `verify`, `read`, `wait_ready` |
| Sector map, images | `meggy_flash.py` | none | `SECTOR_MAP_SLOT0/1`, `load_image`, `byteswap_words` |
| Start-up, main loop | `main.c` | none | `flash_init`, `USB_Init`, `sei`, the loop |
| USB descriptors, LUFA | `Descriptors.c`, `LUFAConfig.h` | `USB_DeviceState` (LUFA) | constant tables |
| Amiga side (external) | README, comments | Gary's /OE, the A19 switch | ROM reads, moves of J2 |
| Scripts, KiCad | `build.bat`, `flash.bat`, `KiCad/` | none | |

How they interact: the host writes a packet into the OUT endpoint; `main()` calls
`protocol_task()`, which polls RY/BY, takes the packet, calls the flash driver and
sends one answer; the driver writes AMD command words to the chip; the chip
programs and erases by itself and shows it on RY/BY only. Erases are not waited
for: `erase_in_progress` and GET_STATUS are how the firmware and the host learn
that one has ended. Gary is held off /OE by `oe_buf_isolate()` until
`oe_buf_release()`.

What is hard: an erase runs for seconds beside everything the host may send; the
chip hears nothing while it is busy, and hears half a sequence as something else;
the flag, the buffer and the chip are three records of one fact; READ resets the
chip by hardware whatever it does; AVR_RESET and power loss come at any time; the
data bus, /OE and the address lines change direction in every command. On the
host's side: answers without sequence numbers, retries of what was done already,
time-outs on both ends.

What makes each part correct:

* *command layer*: what each OK promises is true of the flash; no cell changes that
  no command asked for; the flag never says "idle" over an erase; every call returns;
* *driver*: the chip sees the intended cycles and no other; nobody fights over the
  data bus; write pulses are whole; the bus is given back after every command;
* *transport*: an answer belongs to its request, a call that returns was carried
  out, one that ended is over; framing that is lost is found again; damaged packets
  are noticed;
* *host*: after "Verify OK" the slot holds the image and nothing can change it; no
  session is stopped by a status it provoked itself; every session ends;
* *sector map*: an erase of the slot reaches every sector of it, in both slots.

## 2. Modules

```
NorFlash ── Firmware ─┬─ MCFirmware ── FirmwareClaims
                      ├─ FirmwareProofs ────────┐
                      └─ Meggy ─┬─ MCMeggy      │
                                └─────────── MeggyProofs ── SessionProofs
FlashBus ─┬─ MCFlashBus                            Meggy     implements RomStore
          └─ FlashBusProofs
Transport ─┬─ MCTransport                          Transport implements Rpc
           └─ TransportProofs
Packet ─┬─ MCPacket
        └─ PacketProofs
SectorMap, RomStore (with their own proofs)
```

Lines are EXTENDS. Each level hands the next a result it may rely on. `FlashBus`: a
flash function makes the cycles it means to. `Firmware`, which therefore sends whole
command words: an OK is true of the flash. `Packet`: what passes the CRC is what was
sent. `Transport`, which therefore knows only whole messages: a call that returns
was carried out by the firmware, at least once and at most once per attempt, and
nothing the host did not send is. `Meggy`, where a call is therefore a request in
the firmware's inbox, repeated while answers are lost: the host's report is true of
the flash.

**NorFlash** is the chip as the driver relies on it. A word is the set of its 1
bits, so erased is `Bits` and programming is intersection (`Overlay`). `Write` is
one write cycle, ignored while busy; `Decoded` the unlock decoder; `Finish` the end
of the embedded algorithm: it succeeds (`Succeed`), or on a `Worn` chip it may fail
(`Fail`), with its cells `Unknown` and the mode `"failed"`. A failed chip keeps RY/BY low
and shows its status until a reset command or /RST, the "status mode" of flash.c:253 and
the "error state" of meggy_flash.py:317. `HwReset` is a low /RST or the loss of power,
which leaves the cells at work `Unknown`.

**Firmware** is `protocol_task()`. `pc` is where it stands, `bus` the command words
the running flash function has still to send (`FlashCmd` sends one, so the chip,
the cable and the supply may act between any two), `answer` what
`send_response()` will carry. One action per step of the switch: `TaskPoll`
(protocol.c:129-141), `Parse` (140-182), then per command `Identify`/`SampleId`,
`Read`/`FlashReset`/`ReadWord`, `ChipErase`, `SectorErase`/`EraseStarted`, `GetStatus`,
`Program`/`ProgramWord`/`WaitReady`/`WaitTimeout`/`Release`, `Undefined`,
`AvrReset`/`PullReset`, then `SendResponse`. A request carries its *fate*: how far
`bulk_recv()` and the CRC get with it. READ and FLASH_RESET pull /RST
(`flash_hw_reset`), send a reset word, and then take one word after the other off the
chip (`ReadWord`): each is what its decoder and its algorithm show at that moment
(`Readout`). `order` is a history variable: the last
erase or program the firmware set out on, the array it should leave, and the
command that broke into it, if any.

**FlashBus** is `flash.c` below that. A C function is the sequence of its register
writes; a handler is the concatenation `protocol.c` makes of them, followed by
`flash_bus_release` where line 293 is reached; `Execute` makes one write. Every
handler may follow every other, with Gary turning at any step. `latched` and
`sampled` record the cycles the chip saw, and `handler` says which it should have
seen. Addresses are split as the ports are, ports A and D from PF0-PF2.

**Transport** is `_transact()` against `bulk_recv()`, the parser and `bulk_send()`.
`out_ep` and `in_ep` are the banks of the two endpoints, `dev` is `protocol_task()`
(where it stands, the bytes it has and wants, the answer's rest), `host` is
`MeggyCom` (where it stands, the attempt, what is left to write, `_rxbuf`). A byte
says which call's message it belongs to and its place there. The firmware's actions
are `Poll`, `BulkRecv`/`RecvTimeout`, `Header`, `Payload`, `Checked`, `Answer`,
`BulkSend`/`SendTimeout`; the host's `Open`, `FlushRead`/`FlushEnd`, `Call`, `UsbWrite`,
`UsbRead`, `RecvHeader`, `RecvRest`, the timeouts, `Retry`, `Exit`; the cable's
`UsbError`, `Unplug`. `Tick` is the clock: the firmware is prompt except where it waits
or works, the host may be late at any step.

**Rpc** is what `_transact()` promises: `Begin`, `Execute` (at most `RETRIES` times),
`Return` (after an `Execute`), `Raise`. `Transport` implements it with `open <- InCall`,
the other variables being its own.

**Packet** is one command and its answer, byte for byte, with the real header,
field widths and polynomial; bits flip on the way. Both builders, both parsers and
both `crc16`s are there, as each side wrote them.

**Meggy** extends `Firmware` with the host's sessions. A session is a script of calls
(`EraseCurrentSlot`, `ProgramImage`, `Verify`), `step` and `attempt` say how far it is;
`HostReply` is what the callers of `_transact()` make of a status. `Deliver` is
`SendResponse`, whose answer may be lost; all else of the firmware and the chip is
`Firmware`'s own. `told` is the image last reported as verified, and its slot.

**RomStore** is what the owner is promised: a session changes cells of the selected
slot only, and `Verified` tells of an image only if it is in the flash and no command
can change it any more (`loose` is empty). `Meggy` implements it with `rom <- mem`,
`slot <- a19`, `Nothing <- None` and `loose <- Loose`: the cells the chip is at work on,
and the whole slot while an erase or a program is in the firmware or on its way there.

**SectorMap** has no state: `SECTOR_MAP_SLOT1` at its real size and the chip's sectors,
for two theorems.

Definitions named `Bug...` are variants of the next definition but with a mistake a
programmer could make (a pin left an input, an interrupt not masked, an address
off by one). Nothing uses them; each shows that one property notices when it takes
the place of the real one.

## 3. Runs

| Run | What it checks |
|---|---|
| `MCFirmware.cfg` (202 878 states) | All commands but AVR_RESET, and seven requests that do not parse. Type invariant; `EraseTracked`, `BusyIsolated`, `EveryWordHeard`; what OK means to PROGRAM, GET_STATUS, READ, IDENTIFY; `DataInv`; `OnlyOrderedChanges`, `OnlyResetsTear` |
| `MCFirmwareResets.cfg` (265 362 states) | AVR resets in mid-erase and a worn chip, whose programs may outlast their timeout and whose algorithms may fail. `IInv`, what remains of the safety properties, and liveness: `HandlerReturns`, `EraseCompletes` |
| `MCFlashBus.cfg` (14 702 states) | `NoDataFight`, `WritePulse`, `CyclesAsIntended`, `ReadsOffTheFlash`, `BusIsFree`, `IsolatedForWrites`, `ResetsOnlyWhenAsked` |
| `MCTransport.cfg` (263 652 states) | `AttemptStartsClean`, `AnswerIsOwn`; the refinement `ImplementsRpc`; liveness: `CallReturns`, `FramingRecovers` |
| `MCPacket.cfg` (441 806 states) | `Intact`, `DamageDetected`, `CrcIsRemainder` |
| `MCMeggy.cfg` (382 568 states) | Write, erase and verify sessions one after the other: `NeverRefused`, `CleanSessionSucceeds`; `HostInv` and `SessionInv`, the inductive invariants; the refinement `ImplementsRomStore`; liveness: `SessionEnds` |
| `Claim*.cfg` | Six statements of the comments, the help text and the host's output that the code does not keep (section 5) |

**Bounds.** `MCFirmware`: two words a slot, so four in the chip; slot 0 is one
sector, slot 1 two, so that a sector erase spares a neighbour in both slots; one bit
a word, as bits do not interact. Word addresses 2 and 3 pass the bounds check and
alias 0 and 1, `PROGRAM 3, 2` is one beyond it. PROGRAM takes up to two words
(`MAX_WORDS_PER_CMD` = 2): the loop has a first, a next and an end. `MCFirmwareResets`
has one word a slot, where the extra behaviours fit. `MCFlashBus`: eight values of
A0-A15 and two of A16-A18; 0x555 and 0x2AA stay different, word 7 + 1 crosses into the
next value of A16-A18, 15 + 1 and 21 wrap. `MCTransport`: packets of four bytes,
so that payloads and READ answers take two; two calls of two attempts, in as many
sessions as they fit, so that a retry, and a second call in the same or another
session, meet what the first left. Its times are the shortest that `PaceAssumption`
allows, and keep the real order: the flush's 50 ms, the firmware's waits and its longest
command (256 words of at most 5 ms) are each less than a write's 2 s, that less than a
read's 5 s. A command is long enough that a write can run out of time behind two of them,
in a session that was disturbed. `MCPacket`: one
READ, one PROGRAM, up to three flips each way; `CrcIsRemainder` needs none of them and
is looked at up to one. `MCMeggy`: one sector in slot 0, two in slot 1; the map visits
slot 0's twice, as the real map does its last 64 KB sector; a chunk of one word, two
tries of a call (READ has five in the code, the others three). No counter needs a bound: `i` is at most
`len`, `bus` at most six words, and the OUT endpoint holds one request because
`protocol_task()` handles one at a time.

**Environment.** A request is sent while the firmware is in its loop: it looks at
the endpoint only there, so that one sent earlier is the same. J2 is moved between
commands; moving it inside one would tear any access, and no code could help.
USB may drop at any time. `Worn` says that the chip is past what its datasheet promises: a
word may need more than the 5 ms the firmware waits (200 us, says flash.c:363), and a
program or an erase may fail. It is so in `MCFirmwareResets` only: what OK means to
PROGRAM and GET_STATUS, where the firmware has RY/BY alone to go by, is said of a
chip that works. What READ answers is said, and proved, of either. In `MCMeggy` a word that was torn reads as `Unknown`, which no
image holds: a torn cell is taken never to verify.

In `Transport`, opening the device needs `USB_USBTask()`, which runs in the main loop
and in the waiting loops only, so a session opens while the firmware is in one of
them. A session is `disturbed` when a transfer failed in it (at most once), or when
it began with the firmware still at an earlier session's bytes: there answers really
can be mixed up, since they carry no number, and `Rpc` says so. A header out of step
is read as any command, as a length too large or as no magic. Every caller of
`_transact()` raises an exception on an error status, so the session ends. The empty
packet of protocol.c:56 is never sent: answers are 7 + 2n bytes, never a multiple of
64.

In `Meggy` a session begins with the firmware in its loop (`Transport` has the hurried
ones), and J2 is moved between sessions. Any answer may be lost, the cable and the
supply go at any time, Ctrl-C comes anywhere; `wait_ready()`'s deadline is one of the
places it may come.

**Fairness.** `WF(Task)`: `main()` calls `protocol_task()` for ever and each of its
waits counts down. `WF(ChipDone)`: an embedded algorithm ends, one way or the other. An
erase that fails leaves RY/BY low, so the flag stays up until FLASH_RESET
(`EraseCompletes` excepts it); a program that fails is given up after 5 ms. Nothing is assumed
of the host, the cable or the user; `EraseCompletes` therefore allows for a cable
that is out, when `protocol_task()` returns at once and does not poll. `Transport`:
`WF(Firmware)`, `WF(Transact)` (pyusb returns, the script goes on) and `WF(Tick)`; none of
the user. `Meggy`: `WF(Host)`, `WF(Deliver \/ Run)`, `WF(Chip)`; `SessionEnds` uses no
deadline of `wait_ready()`, so a session is never left asking for an erase that is not
coming.

**Deadlock** is checked in every run: none.

## 4. Proofs

Eight modules hold proofs. They speak of every `SlotWords`, `Bits`, `Sector` map, set of
`Requests`, `MAX_WORDS_PER_CMD`, set of `Images` and of `Sessions`, of every address width
and every buffer of the driver, and of every size and timeout of the transport, under
the assumptions the modules name.

### The firmware's control (`FirmwareProofs`)

* `TypeCorrect`: `Spec => []TypeOK`
* `Invariance`: `Spec => []IInv`
* `EraseIsTracked`, `BusyIsIsolated`, `WordsAreHeard`: the three invariants on the
  flag, the buffer and the chip
* `ResetsAloneTear`: the action property `OnlyResetsTear`

`EraseTracked` is not inductive. That the chip is erasing only with
the flag up depends on which words are still to be sent, hence the parts of `IInv`:
`LastWord` (a word that starts an algorithm is the last of its sequence and belongs
to the function that may send it), `Guarded` (erase and program run with the buffer
isolated and the flag down), `ReadyHere` (where the firmware takes the chip to be
ready, it is), `ProgramWaited` (a program is waited for before anything else), and
`Locals` (`req` and `i` are what the labels say). The chip can become busy in
`FlashCmd` only, with the last word of a sequence; by `Guarded` the flag is about to
be set, by `ReadyHere` the words before it were heard. `Excused` names the two ways
out: an AVR reset while the chip was busy, and a worn chip.

The proof takes types first (`TypeInv`: `TypeOK` with `Locals`), action by action;
then `Control` under `TypeInv`. Lemmas on the chip's operations and on sequences of
command words come before both.

### What an OK means (`FirmwareProofs`, second part)

* `DataInvariance`: `Spec => [](IInv /\ DataInv)`
* `ProgramOkIsTrue`, `StatusOkIsTrue`, `ReadOkIsTrue`, `IdentifyIsTrue`: the promises of
  the four answers
* `OrderedChanges`: the action property `OnlyOrderedChanges`, for
  `MAX_WORDS_PER_CMD <= SlotWords` (256 and 0x80000 in the code: a longer PROGRAM would
  write a word twice, and the second AND would be of a word the order does not know)

`IInv` says when the chip may be busy, not with what. `DataInv` follows a command from
the words to the cells, and each part needs the one before it. `OnTheWay`: the words on
the bus are the end of the sequence the current function sends, and the last of them
names the cells the request does. `Decoder`: a ready chip has heard all the others, so
its decoder is where the sequence is (`Heard`); it may have been busy for the first of
them (`Astray`), and then it falls back to read mode: that is why IDENTIFY and FLASH_RESET
do no harm in an erase. `Carried`: what the chip's algorithm has still to do, added to
what the array holds, is what `order` predicts, at each label. `AnswersTrue`: hence the
answer. Whatever holds only as long as the chip is not worn, and no AVR reset
met a busy one, says `Excused`. What READ returns needs no excuse: whatever ran or failed
before, the pulse on /RST leaves a chip that is ready and whose decoder hears the reset
word in read mode, and stays so while the words are read (`AnswersTrue` at `"read"`;
`StartReadTrue`, `ReadWordTrue`). Without the pulse the words would be status or ID codes.

### The system (`MeggyProofs`, `RomStore`)

* `HostIsRight`: `MeggySpec => []HostInv`; `HostTypeCorrect`: `[]HostTypeOK`
* `ImplementsStore`: `MeggySpec => ImplementsRomStore`, the refinement
* `VerifiedStays`: `MeggySpec => []Store!Kept`, by `VerifiedImageStays`, which
  `RomStore` proves of the abstract store itself

Every step of `Meggy` is a step of `Firmware` or leaves its variables alone, so `IInv` and
`DataInv` come over (`SystemInv` is the three together). `HostInv` adds what the host may
rely on: no session sends CHIP_ERASE or AVR_RESET (`OnlyHostCommands`); a request is in
one place at a time, and an answer that waits is to the call under way (`OneAtATime`); an
OK that waits is still true when it is collected (`ReplyStillTrue`), since a ready chip
stays ready while nothing is handled (`StaysReady`); and from the answer to
`verify()`'s FLASH_RESET on, the chip is ready and what was read is what the slot holds
(`ReadSoFar`). What the script asks for at each step are the lemmas `ScriptCalls` and `Requested`.

The refinement goes by the steps of the store. A cell changes in two ways only: the chip
finishes its algorithm, or READ and FLASH_RESET tear one (`ChipWork` and the lemmas after
it); by `Carried` those cells are in the selected slot, and `Loose` holds them. `Verified`
is `HostDone`: by `ReadSoFar` the image that compared equal is in the flash, and as the
last call was READ, by `OneAtATime` nothing is in flight. J2 is moved only when no
request waits, so `Loose` never names the wrong slot. `Kept` alone is not
inductive in the store; `Settled` adds that while an image is told of no session runs and
no cell is loose.

What is assumed of the constants, and why the code allows it: a slot is a whole number of
chunks (0x80000 words, 256 a chunk); every sector lies in one half of the chip, as A19
is the chip's top address line (`HalvesAssumption`: 0x80000 is the end of slot 0's last
sector in the datasheet's table); the map reaches every sector (`MapAssumption`, which
`SectorMap` proves of the real one); the sessions' calls are among `Requests`
(`ScriptsAssumption`); `None` is no image. TLC evaluates all of them in `MCMeggy`.

### What a session brings about (`SessionProofs`)

* `NothingRefused`: `MeggySpec => []NeverRefused`
* `CleanSucceeds`: `MeggySpec => []CleanSessionSucceeds`
* `SessionsKeepTheirWork`: `MeggySpec => []SessionInv`, what the run checks of the invariants
  below: at every step nothing is refused, and what a session has left behind is done

All for `~Worn` (a word takes 200 us, says flash.c:363, and the firmware waits
5 ms; no program and no erase fails) and `CHUNK_WORDS <= MAX_WORDS_PER_CMD` (256 each, meggy_flash.py:74 and
protocol.h:37). Without the first a PROGRAM may end in TIMEOUT, without the second in
ERROR.

No session provokes an error because of what it asked before. `SessionProofs` first gives
the script call by call (`EraseScript`, `Asked`, `AskedCommand`); `WelcomeInv`, on top of
`SystemInv`, then says that requests fit, that none but the statuses the callers take are
answered (`AnswersAccept`), and above all that no erase runs from the last sector's blank
check on (`NoEraseRuns`): the READ has reset the chip, and an erase begins with SECTOR_ERASE
only (`EraseBegins`). So the erase flag is down when PROGRAM comes, although the flag is
not what the host looks at: polling RY/BY on the way in has cleared it (`FlagStep`).

`CleanInv` follows a session that found the chip idle. Its erases are its own (`OwnErase`):
one runs only between a SECTOR_ERASE and the OK to the GET_STATUS after it, and on the
sector the session is at. From the moment the firmware has begun with it (`Begun`, which
has to tell a BUSY that starts an erase from one that finds the repetition refused) the
sector is being erased or is erased, and all sectors before it are (`SectorsErased`). By
`MapAssumption` the slot is therefore erased when the first PROGRAM comes, so each cell has
all the bits of the image, and a PROGRAM, also one that is repeated, clears exactly the
others (`Written`, `ChunkWritten`, over `Carried`). What `verify()` then reads it reads from
the flash (`ReadSoFar`), and that is the image.

### The pins (`FlashBusProofs`)

* `PulsesAreShort`, `NoFight`, `CyclesAreRight`, `ReleasesTheBus`, `GaryIsShutOut`,
  `NoStrayReset`: `Spec => []P` for each invariant the run checks
* `ReadsAreReads`: the action property `ReadsOffTheFlash`
* `Inductive`: `Spec => []IInv`, which they all follow from

The run has eight low addresses and two words a command; the theorems have any, with
loops of any length. `AddressAssumption` asks that there be at least two values of A0-A15,
since IDENTIFY reads words 0 and 1 and has to tell them apart (there are 65536);
of the host nothing is assumed but that its counts are at most `MaxCount`.

None of the properties is inductive: in the middle of a pulse what happens next depends on
which writes are left. `IInv` says just that: from the registers as they are, the writes the
handler has left are a *walk*, a sequence of states each of which is `Good` (it keeps the
promises) and of which the last is `Free` (the bus released, every cycle made). A step takes
the first state off the walk; a new handler needs a walk of its own. Those are built like the
handlers: a `Triple` says that a sequence of writes has a walk from every state of one set to
a state of another, `\o` chains two triples, and each function of `flash.c` has the triple
that is its contract. Hence the lemmas, from the bottom: the pin functions, one write cycle
(`Issues`: /WE falls with address and data driven and rises with the chip having latched them),
the read cycle, the unlock sequences, the loops over words, the handlers (`EveryHandler`). The
walk stands still while Gary turns, as `Good` holds for each of his positions.

The loops are folds (`FlattenSeq`). What a fold gives for every length is an induction; the
library's theorem for it takes an operator and cannot be used, so `SetInduction` states
induction for *sets* of numbers, from the minimum principle of `WellFoundedInduction`.

### The transport (`TransportProofs`)

* `OncePerAttempt`: `Spec => []ExecutedOnRequest`. A call is carried out at most as often as
  attempts were made for it, while it is under way as after its end, in sessions that were
  disturbed as in others; a command nobody sent is not carried out at all.
* `TransportTypeCorrect`: `Spec => []TypeOK`. In it are that `bulk_recv()` stores no more
  than was asked for and that `RETRIES` bounds the executions.
* `AttemptsStartClean`, `AnswersAreOwn`: the two invariants of the run. In a session no
  failed transfer disturbed, every attempt finds the firmware in its loop and the line
  empty, and the answer that is taken apart is the one to this call.
* `TransportImplementsRpc`: `Spec => ImplementsRpc`, the refinement.

`ExecutedOnRequest` needs an account of the copies of a command that are still on their way.
Each attempt makes one, no step makes two of one, and a copy counts only by its first byte:
`OnceOK` says that executions, plus the first bytes of the call in the host's hands, in the
OUT endpoint and in the buffer of a command being received, each at the front, are at most
`Attempts(c)`. The byte is used up when `bulk_recv()` has put it at the start of a buffer
and that command is carried out; one that lands elsewhere in a buffer is lost, since the
CRC fits a whole message only.
`LineOK`, `DevOK` and `HostOK` give the bytes their types and say what each side's place
implies for its buffers. `IInv` is the four together. The first two theorems and the
refinement do not depend on time: they hold however late either side is.

`AttemptStartsClean` does: the firmware must be back in its loop before the host tries
again. `CalmOK` says that an undisturbed session is in one of a few phases. The host is
out of the line or flushing it (`Flushing`, `Clean`); the command is between the two sides,
whole and in order (`Coming`), or being carried out (`Working`); the answer is between them
(`Answered`). All that can break this is a host so late that the firmware gives up in the
middle of a command: then it reads what is left of it as headers, each of which may be any
command and let it wait for a payload that is not coming (`Lost`). A sum bounds how long
that goes on. `Debt` is the time the firmware may still wait before it is done with what
the bank holds: a `DEV_TIMEOUT` for each header's length of bytes in it, and the rest of
the wait it is in. The bank holds a packet at most. Each tick the host waits is one that
the firmware owed, so that the host's clock and the debt together stay under what
`InTime` says, and by `PaceAssumption` the debt is paid before the host's deadline.
The host therefore waits for its next bank, or for the error answer (`Sorry`), and never
gives up first. `AnswerIsOwn` follows, as every answer on the line in `Answered` or `Lost`
is this call's.

`PaceAssumption` is ((64 + 8) / 8) `DEV_TIMEOUT` < 2 s for the first deadline and a wait more
for the second, 5 s. `DEV_TIMEOUT` is 65535 turns of a loop around `USB_USBTask()` at 16 MHz
(protocol.c:79-84, build.bat:24). LUFA is not in the repository; at some forty cycles a turn it
is about 0.17 s, and the assumption holds up to 54 cycles. Where the host waits less than
the assumption asks, TLC finds a retry that meets the first attempt's rest: the margin is
narrow, and it is spent on a payload that reads as one header after another. A packet has
at least a byte, a header and a CRC too (`SizeAssumption`).

For the refinement `OverOK` adds that no copy of a call is on its way once the call has
ended, unless it was abandoned: by Ctrl-C, a lost cable or a failed transfer, in any of
which `Rpc` allows a late `Execute`. Every way for a call to end without one of them needs
the line to be clean of it (`NoMore` for the steps that make no copy), and each step is then
a step of `Rpc` or none.

### The packets (`PacketProofs`)

* `FormatsAgree`: `Spec => []Intact`. For every request, every contents of the flash and
  every length of a payload, a packet no bit of which has flipped is taken for what it was.
* `ChecksumIsRemainder`: `Spec => []CrcIsRemainder`. For all bytes, of any number, both
  CRCs are the remainder of the long division.

`PacketAssumption` says that a request fits the fields it is written into, that only PROGRAM
has a payload, of as many words as its length says, and that the flash has as many
words as a READ may ask for: what `_transact()`'s callers see to.

`FormatsAgree` goes field by field. `NumberRoundTrip` undoes a number's digits (the powers of
two are literal, as the widths are), `FieldOfOctets` a field's bytes, `SplitRoundTrip` the
words of a payload; `Appended` says where each part of a packet lies, and `SealedBody` that
the CRC fits. `ChecksumsAgree` has the two sides' registers equal: they mask at different
times (`ShiftsAgree`). `CommandRoundTrip` and `AnswerRoundTrip` put these together, and
`PacketInv` says that an unflipped packet on the wire is one of these two.

`CrcDivides` runs the register beside the division. `LeftOf` is their relation: what
the division has left is the register, at the terms it has reached, and the bits of the
message that have not entered it. `ShiftDivides` is one bit, `EnteringByte` the exclusive or at each byte,
`ByteDivides` the inner loop, and at the end, with no message left, the register is the
remainder. Loops of any length are inductions, by `SetInduction` as in `FlashBusProofs`;
`Recursion` gives what a recursive function is at each argument.

### The sector map (`SectorMap`)

`SectorMap` proves of the 19 addresses the host sends that they tile the slot
(`MapTilesSlot`) and reach every sector of slot 1 and of slot 0
(`EverySectorReached`); `MapAssumption` in `Meggy` is this fact for a small map. The
arithmetic is split by the interval an address lies in.

### Model-checked only

* `DamageDetected`. It is no theorem for all constants: a CRC of 16 bits misses some damage
  of a message that is long enough or of enough bits, and where the command byte or the
  length is hit it is computed over other bytes than were sent. What TLC shows is the
  distance of the code at the lengths of the run.
* All liveness (`HandlerReturns`, `EraseCompletes`, `CallReturns`, `FramingRecovers`,
  `SessionEnds`), which the prover cannot do.

## 5. Where the code and its comments differ

* `GaryGetsOeBack` - protocol.c:241, "erase done - return /OE to Gary". GET_STATUS
  releases the buffer only if the flag is still up, and `protocol_task()` has cleared
  it on RY/BY a few lines earlier (132-133). The release happens only if the chip gets
  ready in between; otherwise /OE stays isolated until the next PROGRAM.
* `InitReachesReadMode` - flash.c:239, "Release flash from reset, enter read mode".
  `flash_init()` never drives /RST low, and a chip that is erasing ignores F0.
* `ReadReachesWholeChip` - meggy_flash.py:536, "Dump full 2 MB flash to FILE". The
  addresses beyond A18 that READ accepts show the selected slot again.
* `OeStartsHigh` - flash.c:100, "/OE starts high". DDRF is set before PORTF, which
  `flash_bus_release()` left 0, so that the first `flash_cmd()` after a release begins
  with /OE low. (`flash_init()`, which makes these pins outputs for the first time, is
  left out of the statement.)
* `GaryNotFought` - flash.c:196, "must not fight it". READ, IDENTIFY and FLASH_RESET
  drive /OE without isolating the buffer.

* `EraseReportsTruth` - meggy_flash.py:488, "All {len(secs)} sectors erased." A session
  cut short leaves an erase running; J2 is moved, and the next `--erase` has its first
  sector refused with BUSY (protocol.c:217), which `sector_erase()` takes for the erase's
  start (354). At most a warning about the sector's first word is printed.

Comments only, no run: meggy_flash.py:473 has slot 0 hold top-boot sectors "at those
addresses", where it has one uniform sector (`EverySectorReached` covers both); flash.c:183 has /OE "kept as output held HIGH", line 197 makes
it an input (`BusIsFree` checks the latter); flash.h:14-19 gives an older pin map;
flash.c:136 has the caller of `wait_ready` use 500 us, line 371 uses 5000.

Known behaviour the properties except, on purpose, by name: READ or FLASH_RESET
during an erase cuts it short and a later GET_STATUS says OK (`upset` in
`StatusOkMeansErased`); IDENTIFY during an erase answers with status words; a
session that is `disturbed` may take an earlier call's answer for its own
(`Transport` and `Rpc` have such sessions; in `Meggy` every retry starts clean, so its
reports are those of undisturbed sessions); an erase that fails leaves the flag up;
`CleanSessionSucceeds` speaks of sessions that found the chip idle.

## 6. Not modelled

* Delays of the driver (each is far above the chip's setup and hold times), the
  watchdog and clock set-up, LUFA's inside, USB descriptors and their configuration
  (constant tables), build and DFU scripts, the hardware design files.
* Erase suspend, CFI and sector protection of the chip: the code never uses them.
* The sessions of `--read`, `--read-slot`, `--identify`, `--reset`, `--avr-reset`, `--selftest`
  and `--loopback`, and several options in one command line: they make the calls
  `Firmware` and `Transport` have and report no more than the answers. `erase_chip()` in
  `meggy_flash.py` is called from nowhere.
* `load_image()` and `byteswap_words()`, which prepare the bytes of an image and have no
  part in what happens to them.

## 7. Plan

Every safety property of the runs is proved, but for `DamageDetected`. What could still
be added:

1. A theorem on damage that leaves the command and the lengths alone: the CRC is linear,
   and the polynomial has x + 1 as a factor, so that any odd number of flipped bits is
   noticed. `LeftOf` is a start.
2. Sessions of several command-line options, and of `--read`.

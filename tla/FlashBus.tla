------------------------------ MODULE FlashBus ------------------------------
(***************************************************************************)
(* flash.c at the level of its register writes.  A C function is the       *)
(* sequence of writes it makes to the DDR and PORT registers; protocol.c's *)
(* command handlers are concatenations of such sequences, executed one     *)
(* write at a time while Gary, on the other side of the /OE buffer, reads  *)
(* the ROM whenever it likes.  What the chip then sees on its pins is      *)
(* compared with the AMD command sequences the handlers are to send.       *)
(*                                                                         *)
(* Word addresses are split as the ports are: ADDR_LOW values on ports A   *)
(* and D, the rest on PF0-PF2.  Delays are left out: every one of them is  *)
(* far above the chip's setup and hold times.                              *)
(***************************************************************************)
EXTENDS Integers, Sequences, SequencesExt

CONSTANTS
  ADDR_LOW,       \* values of A0-A15
  ADDR_HIGH,      \* values of A16-A18
  Addresses,      \* word addresses the host may name
  MaxCount,       \* words a READ or PROGRAM may name
  Installed       \* the board sits in an Amiga: Gary drives the buffer's input

ASSUME AddressAssumption ==
  /\ ADDR_LOW \in Nat \ {0, 1} /\ ADDR_HIGH \in Nat \ {0}
  /\ Addresses \subseteq Nat /\ MaxCount \in Nat /\ Installed \in BOOLEAN

VARIABLES
  ddr,       \* direction of each group of pins: TRUE is output
  port,      \* what the PORT registers hold, pin by pin
  irq,       \* the global interrupt flag
  todo,      \* register writes the running handler has left
  handler,   \* the handler running, or the last one: its name and its cycles
  gary,      \* Gary's side of the /OE buffer
  latched,   \* history: write cycles the chip has seen in this handler
  sampled    \* history: addresses read_data() has read in this handler

vars == <<ddr, port, irq, todo, handler, gary, latched, sampled>>

Groups == {"data", "addr", "F", "we", "rst", "buf", "avrReset"}
Pins == {"data", "low", "high", "oe", "we", "rst", "buf", "avrReset"}

-----------------------------------------------------------------------------
(* Register writes.                                                        *)

Ddr(groups, out) == [set |-> "ddr", to |-> [g \in groups |-> out]]
Port(values)     == [set |-> "port", to |-> values]
Pin(p, v)        == Port([q \in {p} |-> v])
Irq(on)          == [set |-> "irq", to |-> on]
Sample           == [set |-> "sample", to |-> 0]

\* The write is made to some of the pins and leaves the others.
Onto(f, values) ==
  [p \in DOMAIN f |-> IF p \in DOMAIN values THEN values[p] ELSE f[p]]

PortF(oe) == Port([q \in {"oe", "high"} |-> IF q = "oe" THEN oe ELSE 0])

WE_LOW == Pin("we", 0)
WE_HIGH == Pin("we", 1)
OE_LOW == Pin("oe", 0)
OE_HIGH == Pin("oe", 1)
RST_LOW == Pin("rst", 0)
RST_HIGH == Pin("rst", 1)

data_bus_output == <<Ddr({"data"}, TRUE)>>
data_bus_input  == <<Ddr({"data"}, FALSE), Pin("data", 0)>>
write_data(d)   == <<Pin("data", d)>>

set_address(wa) ==
  <<Pin("low", wa % ADDR_LOW), Pin("high", (wa \div ADDR_LOW) % ADDR_HIGH)>>

\* The definitions called Bug... are variants with a mistake in them: the run
\* shows that a property finds it.

\* The direction of port F first, its value second.
addr_bus_output == <<Ddr({"addr"}, TRUE), Ddr({"F"}, TRUE), PortF(1)>>

BugInterruptiblePulse(wa, cmd) ==
  addr_bus_output \o data_bus_output \o <<OE_HIGH>> \o set_address(wa)
    \o write_data(cmd) \o <<WE_LOW, WE_HIGH>>
BugAddressFirst(wa, cmd) ==
  set_address(wa) \o addr_bus_output \o data_bus_output \o <<OE_HIGH>>
    \o write_data(cmd) \o <<Irq(FALSE), WE_LOW, WE_HIGH, Irq(TRUE)>>
flash_cmd(wa, cmd) ==
  addr_bus_output \o data_bus_output \o <<OE_HIGH>> \o set_address(wa)
    \o write_data(cmd) \o <<Irq(FALSE), WE_LOW, WE_HIGH, Irq(TRUE)>>

\* 0x555 and 0x2AA, reduced to this bus.
X555 == 5 % ADDR_LOW
X2AA == 2 % ADDR_LOW
AA == 170
unlock == flash_cmd(X555, AA) \o flash_cmd(X2AA, 85)

BugPE4NotOutput == <<Pin("buf", 0)>>
oe_buf_isolate == <<Ddr({"buf"}, TRUE), Pin("buf", 0)>>
oe_buf_release == <<Ddr({"buf"}, FALSE), Pin("buf", 0)>>

BugPortFKept ==
  <<Ddr({"data"}, FALSE), Pin("data", 0), Ddr({"addr"}, FALSE), Pin("low", 0),
    Port([q \in {"we", "rst"} |-> 1])>>
flash_bus_release ==
  <<Ddr({"data"}, FALSE), Pin("data", 0), Ddr({"addr"}, FALSE), Pin("low", 0),
    Ddr({"F"}, FALSE), PortF(0),
    Port([q \in {"we", "rst"} |-> 1])>>

flash_reset == flash_cmd(0, 240) \o data_bus_input

flash_hw_reset ==
  <<RST_LOW, RST_HIGH>> \o flash_cmd(0, 240) \o flash_bus_release

BugDdrBeforePort ==
  <<Ddr({"addr"}, TRUE), Pin("low", 0), Ddr({"F"}, TRUE), PortF(1),
    Ddr({"we", "rst"}, TRUE), Port([q \in {"we", "rst"} |-> 1])>>
  \o data_bus_input \o <<RST_HIGH>> \o flash_cmd(0, 240) \o flash_bus_release
flash_init ==
  <<Ddr({"addr"}, TRUE), Pin("low", 0), Ddr({"F"}, TRUE), PortF(1),
    Port([q \in {"we", "rst", "buf", "avrReset"} |-> IF q \in {"we", "rst"} THEN 1 ELSE 0]),
    [set |-> "ddr", to |-> [g \in {"we", "rst", "buf", "avrReset"} |-> g \in {"we", "rst"}]]>>
  \o data_bus_input \o <<RST_HIGH>> \o flash_cmd(0, 240) \o flash_bus_release

BugOeBeforeInput ==
  unlock \o flash_cmd(X555, 144) \o <<OE_LOW>> \o data_bus_input
    \o set_address(0) \o <<Sample>> \o set_address(1) \o <<Sample, OE_HIGH>>
    \o flash_reset
flash_read_id ==
  unlock \o flash_cmd(X555, 144) \o data_bus_input \o <<OE_LOW>>
    \o set_address(0) \o <<Sample>> \o set_address(1) \o <<Sample, OE_HIGH>>
    \o data_bus_input \o flash_reset

BugAddressBusStillReleased(wa, count) ==
  <<WE_HIGH>> \o data_bus_input \o set_address(wa) \o <<OE_LOW>>
    \o FlattenSeq([i \in 1 .. count |-> set_address(wa + i - 1) \o <<Sample>>])
    \o <<OE_HIGH>> \o data_bus_input
flash_read_buffer(wa, count) ==
  addr_bus_output \o <<WE_HIGH>> \o data_bus_input \o set_address(wa) \o <<OE_LOW>>
    \o FlattenSeq([i \in 1 .. count |-> set_address(wa + i - 1) \o <<Sample>>])
    \o <<OE_HIGH>> \o data_bus_input

erase_start(wa, code) ==
  unlock \o flash_cmd(X555, 128) \o unlock \o flash_cmd(wa, code) \o data_bus_input

\* The words before wait_ready() gives up, if it does.
flash_program_buffer(wa, buf, timeout) ==
  FlattenSeq([i \in 1 .. Len(buf) |->
                unlock \o flash_cmd(X555, 160) \o flash_cmd(wa + i - 1, buf[i])])
    \o (IF timeout THEN flash_reset ELSE data_bus_input)

-----------------------------------------------------------------------------
(* protocol_task()'s handlers: their register writes, and the write and    *)
(* read cycles the chip is to see for them.                                *)

BusAddress(wa) == wa % (ADDR_LOW * ADDR_HIGH)
W(wa, word) == <<BusAddress(wa), word>>
AmdUnlock == <<W(X555, AA), W(X2AA, 85)>>
AmdReset == <<W(0, 240)>>

Handler(name, ops, writes, reads) ==
  [ops |-> ops, cycles |-> [name |-> name, writes |-> writes, reads |-> reads]]
AddressesFrom(wa, count) == [i \in 1 .. count |-> BusAddress(wa + i - 1)]

\* main() up to its loop, sei() last.
StartUp == flash_init \o <<Irq(TRUE)>>
Main == Handler("main", StartUp, AmdReset, <<>>)
Return == Handler("return", <<>>, <<>>, <<>>)     \* an early return
Refuse == Handler("refuse", flash_bus_release, <<>>, <<>>)

Identify ==
  Handler("identify", flash_read_id \o flash_bus_release,
          AmdUnlock \o <<W(X555, 144)>> \o AmdReset, <<0, 1>>)
Read(wa, count) ==
  Handler("read", flash_hw_reset \o flash_read_buffer(wa, count) \o flash_bus_release,
          AmdReset, AddressesFrom(wa, count))
FlashReset == [Read(0, 2) EXCEPT !.cycles.name = "flashReset"]
Erase(wa, code) ==
  Handler("erase", oe_buf_isolate \o erase_start(wa, code) \o flash_bus_release,
          AmdUnlock \o <<W(X555, 128)>> \o AmdUnlock \o <<W(wa, code)>>, <<>>)
Program(wa, buf, timeout) ==
  Handler("program",
          oe_buf_isolate \o flash_program_buffer(wa, buf, timeout)
            \o flash_reset \o oe_buf_release \o flash_bus_release,
          FlattenSeq([i \in 1 .. Len(buf) |->
                        AmdUnlock \o <<W(X555, 160), W(wa + i - 1, buf[i])>>])
            \o (IF timeout THEN AmdReset ELSE <<>>) \o AmdReset, <<>>)
\* Every word programmed, or given up at one that is not ready in time.
Finished(wa, buf) == Program(wa, buf, FALSE)
GivenUp(wa, buf) == Program(wa, buf, TRUE)
EraseOver ==
  Handler("eraseOver", flash_reset \o oe_buf_release \o flash_bus_release,
          AmdReset, <<>>)

\* Up to the low PE5 that restarts the AVR.
AvrReset ==
  Handler("avrReset",
          flash_bus_release \o oe_buf_release
            \o <<Ddr({"avrReset"}, TRUE), Pin("avrReset", 0)>>, <<>>, <<>>)

Buffers == UNION {[1 .. n -> {AA, 1}] : n \in 0 .. MaxCount}

Handlers ==
  {Return, Refuse, Identify, FlashReset, EraseOver, AvrReset}
    \cup {Read(wa, n) : wa \in Addresses, n \in 0 .. MaxCount}
    \cup {Erase(X555, 16)} \cup {Erase(wa, 48) : wa \in Addresses}
    \cup {Finished(wa, buf) : wa \in Addresses, buf \in Buffers}
    \cup {GivenUp(wa, buf) : wa \in Addresses, buf \in Buffers \ {<<>>}}

-----------------------------------------------------------------------------
(* The lines.                                                              *)

Line(group, pin) == IF ddr[group] THEN port[pin] ELSE 1     \* pull-ups
We == Line("we", "we")
Rst == Line("rst", "rst")
BufEnabled == Line("buf", "buf") = 1

\* Levels /OE is driven to: by PF3, and by the buffer when it is enabled.
OeDrivers ==
  (IF ddr["F"] THEN {port["oe"]} ELSE {})
    \cup (IF BufEnabled /\ gary # "absent" THEN {IF gary = "low" THEN 0 ELSE 1} ELSE {})
FlashDrives == 0 \in OeDrivers /\ We = 1 /\ Rst = 1

PinAddress == port["low"] + ADDR_LOW * port["high"]

-----------------------------------------------------------------------------
PowerUp ==
  /\ ddr' = [g \in Groups |-> FALSE] /\ port' = [p \in Pins |-> 0]
  /\ irq' = FALSE /\ todo' = Main.ops /\ handler' = Main.cycles
  /\ latched' = <<>> /\ sampled' = <<>>

Init ==
  /\ ddr = [g \in Groups |-> FALSE] /\ port = [p \in Pins |-> 0]
  /\ irq = FALSE /\ todo = Main.ops /\ handler = Main.cycles
  /\ latched = <<>> /\ sampled = <<>>
  /\ gary \in (IF Installed THEN {"low", "high"} ELSE {"absent"})

\* The next register write of the running handler.
Execute ==
  /\ todo # <<>>
  /\ LET op == Head(todo) IN
     /\ ddr' = IF op.set = "ddr" THEN Onto(ddr, op.to) ELSE ddr
     /\ port' = IF op.set = "port" THEN Onto(port, op.to) ELSE port
     /\ irq' = IF op.set = "irq" THEN op.to ELSE irq
     /\ sampled' = IF op.set = "sample" THEN Append(sampled, PinAddress) ELSE sampled
  \* the chip takes the cycle at the rising edge of /WE
  /\ latched' = IF We = 0 /\ Line("we", "we")' = 1
                THEN Append(latched, <<PinAddress, port["data"]>>) ELSE latched
  /\ todo' = Tail(todo)
  /\ UNCHANGED <<handler, gary>>

\* protocol_task() takes the next command.
Call ==
  /\ todo = <<>> /\ handler.name # "avrReset"
  /\ \E h \in Handlers : todo' = h.ops /\ handler' = h.cycles
  /\ latched' = <<>> /\ sampled' = <<>>
  /\ UNCHANGED <<ddr, port, irq, gary>>

\* The low PE5 has restarted the AVR.
Restart ==
  /\ todo = <<>> /\ handler.name = "avrReset"
  /\ PowerUp /\ UNCHANGED gary

\* The Amiga starts or ends a ROM read.
GaryTurns ==
  /\ gary # "absent"
  /\ gary' = IF gary = "low" THEN "high" ELSE "low"
  /\ UNCHANGED <<ddr, port, irq, todo, handler, latched, sampled>>

Next == Execute \/ Call \/ Restart \/ GaryTurns

Spec == Init /\ [][Next]_vars

-----------------------------------------------------------------------------
(* Properties.                                                             *)

\* The AVR and the flash never drive the data lines at once; when they do, it
\* is Gary who reads, through a buffer that is enabled.
NoDataFight == ddr["data"] /\ FlashDrives => BufEnabled /\ gary = "low"

\* While /WE is low no USB interrupt can stretch the pulse, the address and
\* data lines are driven, and /OE is held high by the AVR (flash.c:92, 113).
WritePulse ==
  We = 0 =>
    ~irq /\ ddr["data"] /\ ddr["addr"] /\ ddr["F"] /\ port["oe"] = 1

\* The chip sees the AMD sequence of the command at the right addresses, every
\* cycle of it and no other, and the words read come from the addresses asked.
CyclesAsIntended ==
  /\ IsPrefix(latched, handler.writes) /\ IsPrefix(sampled, handler.reads)
  /\ todo = <<>> => latched = handler.writes /\ sampled = handler.reads

\* A word is sampled only off a data bus the flash drives and the AVR does not.
ReadsOffTheFlash ==
  [][Len(sampled') > Len(sampled) => FlashDrives /\ ddr["addr"] /\ ~ddr["data"]]_vars

\* Between commands the data, address and /OE pins are inputs, and /WE and /RST
\* are held high (protocol.c:291): Gary has the bus.
BusIsFree ==
  todo = <<>> =>
    /\ \A g \in {"data", "addr", "F"} : ~ddr[g]
    /\ ddr["we"] /\ ddr["rst"] /\ We = 1 /\ Rst = 1

\* From the first word of an erase until its handler returns with the erase
\* under way, and from the first word of a program to its last, Gary cannot make
\* the flash drive the bus (protocol.c:209, 218, 228).
IsolatedForWrites ==
  /\ handler.name = "erase" /\ latched # <<>> => ~BufEnabled
  /\ handler.name = "program" /\ latched \notin {<<>>, handler.writes} => ~BufEnabled

\* /RST falls only for a command that asks for it: restarting the firmware does
\* not cut short what the chip is doing.
ResetsOnlyWhenAsked == Rst = 0 => handler.name \in {"read", "flashReset"}
=============================================================================

----------------------------- MODULE Transport -----------------------------
(***************************************************************************)
(* The way of a command and its answer: MeggyCom._transact() and what it   *)
(* calls on the host, the two bulk endpoints, and bulk_recv(), bulk_send() *)
(* and protocol_task()'s parser in the firmware, with their timeouts.      *)
(*                                                                         *)
(* A byte is [call, pos, ...]: byte pos of the command, or of the answer,  *)
(* of one call of _transact().  The copies a retry sends are the same      *)
(* bytes.  A header that is out of step is read as whatever its bytes may  *)
(* say; a CRC fits nothing but a whole message (Packet's subject).         *)
(*                                                                         *)
(* Time is counted in ticks.  The firmware takes no time but where it      *)
(* waits or works; the host may be late at any step.                       *)
(***************************************************************************)
EXTENDS Integers, Sequences

CONSTANTS
  BULK_EP_SIZE, HEADER, WORD, CRC,   \* sizes in bytes
  RHEADER,                           \* an answer's header
  Kinds,           \* what a call may ask: [send, reply: number of words]
  RETRIES,         \* attempts of a call
  MaxCalls,        \* bound: calls in a behaviour
  DEV_TIMEOUT,     \* 65535 turns of a waiting loop, in ticks
  FLUSH_TIMEOUT,   \* 50 ms
  SLEEP,           \* 150 ms and more before a retry
  WRITE_TIMEOUT,   \* 2 s
  READ_TIMEOUT,    \* 5 s
  MaxWork          \* the longest command

ASSUME SizeAssumption ==
  /\ {BULK_EP_SIZE, HEADER, WORD, CRC, RHEADER} \subseteq Nat \ {0}
  /\ Kinds \subseteq [send: Nat, reply: Nat]
ASSUME TimeAssumption ==
  /\ RETRIES \in Nat \ {0}
  /\ {MaxCalls, DEV_TIMEOUT, FLUSH_TIMEOUT, SLEEP, WRITE_TIMEOUT, READ_TIMEOUT,
      MaxWork} \subseteq Nat
\* A header and an error answer fit into a packet.  A packet read as headers makes
\* the firmware wait once for each and once more, which takes less than the host
\* waits for a bank; with one wait for the next packet, and so does the longest
\* command, less than it waits for an answer.
ASSUME PaceAssumption ==
  /\ HEADER <= BULK_EP_SIZE /\ RHEADER + CRC <= BULK_EP_SIZE
  /\ DEV_TIMEOUT * (HEADER + BULK_EP_SIZE) < HEADER * WRITE_TIMEOUT
  /\ DEV_TIMEOUT * (HEADER + HEADER + BULK_EP_SIZE) < HEADER * READ_TIMEOUT
  /\ MaxWork < READ_TIMEOUT /\ FLUSH_TIMEOUT > 0

VARIABLES
  kinds,       \* what each call so far asks
  out_ep,      \* bank of the OUT endpoint
  in_ep,       \* bank of the IN endpoint
  dev,         \* protocol_task(): pc, bytes read and wanted, bytes to send
  dev_time,    \* ticks in this wait, or of work left
  host,        \* MeggyCom: pc, attempt, bytes to write, _rxbuf
  host_time,   \* ticks since the host's deadline was set
  disturbed,   \* history: a transfer of the session failed, or it began too soon
  abandoned,   \* history: calls that ended, but may still be on their way
  executed,    \* history: how often each call was carried out, and nobody's (0)
  returned     \* history: calls that ended with an answer that is no error

vars == <<kinds, out_ep, in_ep, dev, dev_time, host, host_time, disturbed,
          abandoned, executed, returned>>
devVars == <<dev, dev_time, executed>>
log == <<disturbed, abandoned, returned>>
hostVars == <<kinds, host, host_time, log>>

call == Len(kinds)
Calls == 0 .. MaxCalls

CommandSize(k) == HEADER + WORD * k.send + CRC
Message(c) ==
  [p \in 1 .. CommandSize(kinds[c]) |-> [call |-> c, pos |-> p]]
Reply(c, words, good) ==
  LET n == RHEADER + WORD * words + CRC
  IN  [p \in 1 .. n |-> [call |-> c, pos |-> p, size |-> n, good |-> good]]

Least(a, b) == IF a < b THEN a ELSE b
Packet(s) == SubSeq(s, 1, Least(BULK_EP_SIZE, Len(s)))
Rest(s, n) == SubSeq(s, n + 1, Len(s))

Init ==
  /\ kinds = <<>> /\ out_ep = <<>> /\ in_ep = <<>>
  /\ dev = [pc |-> "poll", buf |-> <<>>, want |-> 0, reply |-> <<>>]
  /\ dev_time = 0
  /\ host = [pc |-> "closed", attempt |-> 0, left |-> <<>>, rx |-> <<>>]
  /\ host_time = 0
  /\ disturbed = FALSE /\ abandoned = {}
  /\ executed = [c \in Calls |-> 0] /\ returned = {}

-----------------------------------------------------------------------------
(* The firmware.                                                           *)

Goto(pc, want) ==
  /\ dev' = [dev EXCEPT !.pc = pc, !.want = want]
  /\ dev_time' = 0
Return ==
  /\ dev' = [pc |-> "poll", buf |-> <<>>, want |-> 0, reply |-> <<>>]
  /\ dev_time' = 0
SendResponse(c, words, good) ==
  /\ dev' = [pc |-> "send", buf |-> <<>>, want |-> 0, reply |-> Reply(c, words, good)]
  /\ dev_time' = 0

Receiving == dev.pc \in {"header", "payload", "crc"}
Received == Receiving /\ Len(dev.buf) = dev.want

\* protocol_task() finds a packet.
Poll ==
  /\ dev.pc = "poll" /\ out_ep # <<>>
  /\ Goto("header", HEADER)
  /\ UNCHANGED <<hostVars, out_ep, in_ep, executed>>

BugRecvOverruns ==
  /\ Receiving /\ ~Received /\ out_ep # <<>>
  /\ dev' = [dev EXCEPT !.buf = @ \o out_ep] /\ out_ep' = <<>> /\ dev_time' = 0
  /\ UNCHANGED <<hostVars, in_ep, executed>>

\* bulk_recv(): the packet's bytes as far as they are wanted; the bank is the
\* host's again only when the last of them is read.
BulkRecv ==
  /\ Receiving /\ ~Received /\ out_ep # <<>>
  /\ LET n == Least(dev.want - Len(dev.buf), Len(out_ep)) IN
     /\ dev' = [dev EXCEPT !.buf = @ \o SubSeq(out_ep, 1, n)]
     /\ out_ep' = Rest(out_ep, n)
  /\ dev_time' = 0
  /\ UNCHANGED <<hostVars, in_ep, executed>>

BugRecvNeverGivesUp == FALSE /\ UNCHANGED vars

\* No packet in 65535 turns: no answer if it was the header that was missing.
RecvTimeout ==
  /\ Receiving /\ ~Received /\ out_ep = <<>> /\ dev_time = DEV_TIMEOUT
  /\ IF dev.pc = "header" THEN Return ELSE SendResponse(dev.buf[1].call, 0, FALSE)
  /\ UNCHANGED <<hostVars, out_ep, in_ep, executed>>

\* What a header says.  Out of step it says anything, or has no magic.
InStep == \A p \in 1 .. HEADER : dev.buf[p] = [call |-> dev.buf[1].call, pos |-> p]
Header ==
  /\ Received /\ dev.pc = "header"
  /\ \/ \E k \in IF InStep THEN {kinds[dev.buf[1].call]} ELSE Kinds :
          IF k.send > 0 THEN Goto("payload", HEADER + WORD * k.send)
          ELSE Goto("crc", HEADER + CRC)
     \/ ~InStep /\ SendResponse(dev.buf[1].call, 0, FALSE)     \* len is too long
     \/ ~InStep /\ dev.buf[1].pos # 1 /\ Return                \* no magic
  /\ UNCHANGED <<hostVars, out_ep, in_ep, executed>>

Payload ==
  /\ Received /\ dev.pc = "payload"
  /\ Goto("crc", dev.want + CRC)
  /\ UNCHANGED <<hostVars, out_ep, in_ep, executed>>

\* The call whose command this is, or 0: the host never sent it.
Sender ==
  IF \E c \in 1 .. call : dev.buf = Message(c) THEN dev.buf[1].call ELSE 0
BugCrcNotCompared == InStep
CrcFits == Sender # 0
Checked ==
  /\ Received /\ dev.pc = "crc"
  /\ IF CrcFits
     THEN /\ dev' = [dev EXCEPT !.pc = "work", !.want = 0]
          /\ dev_time' \in 0 .. MaxWork
          /\ executed' = [executed EXCEPT ![Sender] = @ + 1]
     ELSE SendResponse(dev.buf[1].call, 0, FALSE) /\ UNCHANGED executed
  /\ UNCHANGED <<hostVars, out_ep, in_ep>>

\* The command is carried out; the bus it is about is Firmware's subject.
Answer ==
  /\ dev.pc = "work" /\ dev_time = 0
  /\ SendResponse(dev.buf[1].call, kinds[dev.buf[1].call].reply, TRUE)
  /\ UNCHANGED <<hostVars, out_ep, in_ep, executed>>

\* bulk_send(): a packet whenever the bank is free.
BulkSend ==
  /\ dev.pc = "send" /\ in_ep = <<>>
  /\ in_ep' = Packet(dev.reply)
  /\ IF Len(dev.reply) <= BULK_EP_SIZE THEN Return
     ELSE dev' = [dev EXCEPT !.reply = Rest(@, BULK_EP_SIZE)] /\ dev_time' = 0
  /\ UNCHANGED <<hostVars, out_ep, executed>>

\* The host does not read: the rest of the answer is dropped.
SendTimeout ==
  /\ dev.pc = "send" /\ in_ep # <<>> /\ dev_time = DEV_TIMEOUT
  /\ Return
  /\ UNCHANGED <<hostVars, out_ep, in_ep, executed>>

-----------------------------------------------------------------------------
(* The host.                                                               *)

HostGoto(pc, attempt, left, rx) ==
  /\ host' = [pc |-> pc, attempt |-> attempt, left |-> left, rx |-> rx]
  /\ host_time' = 0
Close == HostGoto("closed", 0, <<>>, <<>>)

InCall == host.pc \notin {"closed", "open"} /\ host.attempt > 0

\* History: a call ends; "loose", it may still be carried out.
EndCall(loose) ==
  abandoned' = IF InCall /\ loose THEN abandoned \cup {call} ELSE abandoned

Waits ==
  \/ Receiving /\ ~Received /\ out_ep = <<>>
  \/ dev.pc = "send" /\ in_ep # <<>>
\* USB_USBTask() runs: in main()'s loop and in the waiting loops.
UsbTask == Waits \/ dev.pc = "poll"
\* The firmware is done with what earlier sessions sent.
Settled == dev.pc = "poll" /\ out_ep = <<>>

BugNoFlush ==
  /\ host.pc = "closed" /\ call < MaxCalls
  /\ UsbTask
  /\ HostGoto("open", 0, <<>>, <<>>)
  /\ disturbed' = ~Settled
  /\ UNCHANGED <<devVars, out_ep, in_ep, kinds, abandoned, returned>>

\* MeggyCom(): it takes USB_USBTask() to answer set_configuration(); configured
\* again, an endpoint may lose its bank.
Open ==
  /\ host.pc = "closed" /\ call < MaxCalls
  /\ UsbTask
  /\ HostGoto("flush", 0, <<>>, <<>>)
  /\ disturbed' = ~Settled
  /\ \/ UNCHANGED <<out_ep, in_ep>>
     \/ out_ep' = <<>> /\ in_ep' = <<>>
  /\ UNCHANGED <<devVars, kinds, abandoned, returned>>

\* The flush: reads until one has found nothing for 50 ms.
FlushRead ==
  /\ host.pc = "flush" /\ in_ep # <<>>
  /\ in_ep' = <<>> /\ host_time' = 0
  /\ UNCHANGED <<devVars, out_ep, kinds, host, log>>
FlushEnd ==
  /\ host.pc = "flush" /\ in_ep = <<>> /\ host_time >= FLUSH_TIMEOUT
  /\ HostGoto(IF InCall THEN "sleep" ELSE "open", host.attempt, <<>>, <<>>)
  /\ UNCHANGED <<devVars, out_ep, in_ep, kinds, log>>

\* _transact() tries again, or raises the exception, which ends the program.
Retry ==
  /\ host.pc = "sleep" /\ host_time >= SLEEP
  /\ IF host.attempt < RETRIES
     THEN HostGoto("write", host.attempt + 1, Message(call), <<>>) /\ UNCHANGED abandoned
     ELSE Close /\ EndCall(disturbed)
  /\ UNCHANGED <<devVars, out_ep, in_ep, kinds, disturbed, returned>>

Call ==
  /\ host.pc = "open" /\ call < MaxCalls
  /\ kinds' \in {Append(kinds, k) : k \in Kinds}
  /\ HostGoto("write", 1, Message(call)', host.rx)
  /\ UNCHANGED <<devVars, out_ep, in_ep, log>>

\* _usb_write(): one packet after the other.
UsbWrite ==
  /\ host.pc = "write" /\ out_ep = <<>>
  /\ out_ep' = Packet(host.left)
  /\ HostGoto(IF Len(host.left) <= BULK_EP_SIZE THEN "readHeader" ELSE "write",
              host.attempt, Rest(host.left, BULK_EP_SIZE), host.rx)
  /\ UNCHANGED <<devVars, in_ep, kinds, log>>

\* _usb_read(): packets are added to _rxbuf until it is long enough.
Reading == host.pc \in {"readHeader", "readRest"}
Wanted == IF host.pc = "readHeader" THEN RHEADER ELSE host.rx[1].size
Short == Reading /\ Len(host.rx) < Wanted
UsbRead ==
  /\ Short /\ in_ep # <<>> /\ host_time < READ_TIMEOUT
  /\ host' = [host EXCEPT !.rx = @ \o in_ep]
  /\ in_ep' = <<>>
  /\ UNCHANGED <<devVars, out_ep, kinds, host_time, log>>

BugRetriesUnflushed ==
  /\ HostGoto("sleep", host.attempt, <<>>, <<>>)
  /\ UNCHANGED <<devVars, out_ep, in_ep, kinds, abandoned, returned>>

\* An exception _transact() catches: _rxbuf is cleared, and the IN endpoint flushed.
Except ==
  /\ HostGoto("flush", host.attempt, <<>>, <<>>)
  /\ UNCHANGED <<devVars, out_ep, in_ep, kinds, abandoned, returned>>
BugNoDeadline == FALSE /\ UNCHANGED vars
ReadTimeout ==
  /\ Short /\ host_time >= READ_TIMEOUT
  /\ Except /\ UNCHANGED disturbed
WriteTimeout ==
  /\ host.pc = "write" /\ out_ep # <<>> /\ host_time >= WRITE_TIMEOUT
  /\ Except /\ UNCHANGED disturbed

\* A transfer fails, one per session.
UsbError ==
  /\ (host.pc = "write" \/ Short) /\ ~disturbed
  /\ Except /\ disturbed' = TRUE

\* _recv_response(): the header, with the length of the rest ...
RecvHeader ==
  /\ host.pc = "readHeader" /\ ~Short
  /\ IF host.rx[1].pos = 1
     THEN /\ HostGoto("readRest", host.attempt, <<>>, host.rx)
          /\ UNCHANGED <<devVars, out_ep, in_ep, kinds, log>>
     ELSE Except /\ UNCHANGED disturbed

\* ... and the rest, with the CRC.  Every caller raises an exception on an error
\* status, and the program ends.
RecvRest ==
  /\ host.pc = "readRest" /\ ~Short
  /\ IF \A p \in 1 .. Wanted : host.rx[p] = [host.rx[1] EXCEPT !.pos = p]
     THEN /\ IF host.rx[1].good
             THEN /\ HostGoto("open", host.attempt, <<>>, Rest(host.rx, Wanted))
                  /\ returned' = returned \cup {call}
             ELSE Close /\ UNCHANGED returned
          /\ EndCall(disturbed)
          /\ UNCHANGED <<devVars, out_ep, in_ep, kinds, disturbed>>
     ELSE Except /\ UNCHANGED disturbed

\* The program's end, or Ctrl-C: the session closes where it is.
Exit ==
  /\ host.pc # "closed"
  /\ Close
  /\ EndCall(TRUE)
  /\ UNCHANGED <<devVars, out_ep, in_ep, kinds, disturbed, returned>>

\* The cable goes while the firmware waits: bulk_recv() and bulk_send() return.
Unplug ==
  /\ UsbTask
  /\ Return /\ Close /\ out_ep' = <<>> /\ in_ep' = <<>>
  /\ EndCall(TRUE)
  /\ UNCHANGED <<executed, kinds, disturbed, returned>>

-----------------------------------------------------------------------------
\* Time passes while the firmware waits, works or has nothing to do.
Tick ==
  /\ \/ Waits /\ dev_time < DEV_TIMEOUT /\ dev_time' = dev_time + 1
     \/ dev.pc = "work" /\ dev_time > 0 /\ dev_time' = dev_time - 1
     \/ dev.pc = "poll" /\ out_ep = <<>> /\ UNCHANGED dev_time
  /\ host_time' = IF host.pc \in {"closed", "open"} THEN host_time
                   ELSE Least(host_time + 1, READ_TIMEOUT)
  /\ UNCHANGED <<kinds, out_ep, in_ep, dev, host, log, executed>>

Firmware ==
  \/ Poll \/ BulkRecv \/ RecvTimeout \/ Header \/ Payload \/ Checked \/ Answer
  \/ BulkSend \/ SendTimeout
Transact ==
  \/ FlushRead \/ FlushEnd \/ Retry \/ UsbWrite \/ UsbRead \/ WriteTimeout
  \/ ReadTimeout \/ RecvHeader \/ RecvRest
User == Open \/ Call \/ UsbError \/ Exit \/ Unplug

Next == Firmware \/ Transact \/ User \/ Tick

Fairness == WF_vars(Firmware) /\ WF_vars(Transact) /\ WF_vars(Tick)
Spec == Init /\ [][Next]_vars /\ Fairness

-----------------------------------------------------------------------------
(* Properties.                                                             *)

\* The variables have their types; bulk_recv() never stores more than it was asked
\* for (protocol.c:88), and the banks hold a packet at most.
TypeOK ==
  /\ kinds \in Seq(Kinds) /\ call <= MaxCalls
  /\ Len(out_ep) <= BULK_EP_SIZE /\ Len(in_ep) <= BULK_EP_SIZE
  /\ dev.pc \in {"poll", "header", "payload", "crc", "work", "send"}
  /\ Len(dev.buf) <= dev.want \/ dev.pc = "work"
  /\ dev_time \in 0 .. IF dev.pc = "work" THEN MaxWork ELSE DEV_TIMEOUT
  /\ host.pc \in {"closed", "flush", "sleep", "open", "write", "readHeader", "readRest"}
  /\ host.attempt \in 0 .. RETRIES
  /\ host_time \in 0 .. READ_TIMEOUT
  /\ executed \in [Calls -> 0 .. RETRIES]
  /\ disturbed \in BOOLEAN
  /\ abandoned \subseteq 1 .. call /\ returned \subseteq 1 .. call

LineClean == dev.pc = "poll" /\ out_ep = <<>> /\ in_ep = <<>> /\ host.rx = <<>>

\* Every attempt starts with the firmware in its loop and not a byte left between
\* the two, first attempts and retries alike: the host's two and five seconds
\* outlast every wait of the firmware's, and the flush takes what is left.
AttemptStartsClean ==
  \/ host.pc = "open"
  \/ host.pc = "write" /\ host.left = Message(call)
  => LineClean \/ disturbed

\* The answer _recv_response() takes apart is this call's, though answers carry no
\* number (meggy_flash.py:267), in a session that no failed transfer disturbed.
AnswerIsOwn == host.pc = "readRest" => host.rx[1].call = call \/ disturbed

\* _transact() keeps Rpc's promise: whatever is lost, late or cut short, a call
\* that returns was carried out, once per attempt at most, and one that ended is over.
Abstract == INSTANCE Rpc WITH open <- InCall
ImplementsRpc == Abstract!Spec

\* Every call ends: no wait for a packet is without a limit, and the attempts are
\* counted (meggy_flash.py:181, 191, 271).
CallReturns == InCall ~> ~InCall

\* However the framing was lost (protocol.c:142, 145), the firmware empties the
\* OUT endpoint and is back in its loop once the host is silent.
FramingRecovers ==
  ~Settled ~> Settled
=============================================================================

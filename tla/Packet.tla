------------------------------- MODULE Packet -------------------------------
(***************************************************************************)
(* Packets, byte for byte: _build_packet() and _recv_response() on the     *)
(* host, protocol_task()'s parser and send_response() in the firmware, and *)
(* the CRC each side computes for itself, while bits flip on the way.      *)
(*                                                                         *)
(* A byte, a field or a CRC register is the set of its 1 bits, which is    *)
(* the polynomial over GF(2) with these exponents.                         *)
(***************************************************************************)
EXTENDS Integers, Sequences, FiniteSets, FiniteSetsExt

CONSTANTS
  Requests,            \* [cmd, addr, len, data], data a sequence of words
  FlashWords,          \* the words a READ finds
  MAX_WORDS_PER_CMD,
  MaxFlips,            \* bound: bits that flip in a packet
  None

Width == 0 .. 15
Octets == SUBSET (0 .. 7)

CMD_READ == 2
CMD_PROGRAM == 5
MAGIC == <<77, 71>>

\* The fields hold what is asked for, the payload is PROGRAM's, and the flash has words.
ASSUME PacketAssumption ==
  /\ MAX_WORDS_PER_CMD \in 0 .. 2 ^ 16 - 1 /\ MaxFlips \in Nat
  /\ \A r \in Requests :
       /\ r \in [cmd : 0 .. 255, addr : 0 .. 2 ^ 24 - 1, len : 0 .. MAX_WORDS_PER_CMD,
                data : Seq(SUBSET Width)]
       /\ Len(r.data) = IF r.cmd = CMD_PROGRAM THEN r.len ELSE 0
  /\ FlashWords \in Seq(SUBSET Width) /\ Len(FlashWords) >= MAX_WORDS_PER_CMD

VARIABLES
  phase,     \* where the packet is: on its way "out" or "in", or "over"
  request,   \* what _transact() was called with
  wire,      \* the bytes on their way
  flips,     \* the bits flipped in them
  got,       \* what protocol_task() made of the command
  reply,     \* what it answered
  taken      \* what _recv_response() made of that

vars == <<phase, request, wire, flips, got, reply, taken>>

-----------------------------------------------------------------------------
(* Numbers and bits.                                                       *)

ToBits(n) == {b \in 0 .. 23 : (n \div 2 ^ b) % 2 = 1}
\* From the highest bit down.
ToNumber(s) ==
  LET top[k \in 0 .. 24] ==
        IF k = 0 THEN 0 ELSE 2 * top[k - 1] + IF 24 - k \in s THEN 1 ELSE 0
  IN  top[24]
Shifted(s, n) == {b + n : b \in s}
Octet(s, k) == Shifted(s \cap (8 * k .. 8 * k + 7), -8 * k)
Field(bytes) == UNION {Shifted(bytes[n], 8 * (Len(bytes) - n)) : n \in DOMAIN bytes}
\* Low byte first.
Split(words) ==
  [n \in 1 .. 2 * Len(words) |-> Octet(words[(n + 1) \div 2], (n + 1) % 2)]
Joined(bytes) ==
  [n \in 1 .. Len(bytes) \div 2 |-> Field(<<bytes[2 * n], bytes[2 * n - 1]>>)]

-----------------------------------------------------------------------------
(* CRC-16/CCITT-FALSE.                                                     *)

Poly == {12, 5, 0}                                  \* 0x1021

\* The firmware's register has 16 bits; what is shifted out is gone.
BugTestsAfterShift ==
  [crc \in SUBSET Width |->
     LET shifted == Shifted(crc, 1) \cap Width
     IN  IF 15 \in shifted THEN SymDiff(shifted, Poly) ELSE shifted]
ShiftC ==
  [crc \in SUBSET Width |->
     LET shifted == Shifted(crc, 1) \cap Width
     IN  IF 15 \in crc THEN SymDiff(shifted, Poly) ELSE shifted]
\* Python's integer is masked after the fact.
ShiftPython ==
  [crc \in SUBSET Width |->
     (IF 15 \in crc THEN SymDiff(Shifted(crc, 1), Poly) ELSE Shifted(crc, 1)) \cap Width]

\* The inner loop, and the outer one.
Through(shift, crc) ==
  LET bit[b \in 0 .. 8] == IF b = 0 THEN crc ELSE shift[bit[b - 1]]
  IN  bit[8]
Crc(shift, bytes) ==
  LET feed[n \in 0 .. Len(bytes)] ==
        IF n = 0 THEN Width
        ELSE Through(shift, SymDiff(feed[n - 1], Shifted(bytes[n], 8)))
  IN  feed[Len(bytes)]
crc16_firmware(bytes) == Crc(ShiftC, bytes)
crc16_host(bytes) == Crc(ShiftPython, bytes)
BugLowByteFirst(bytes, crc) == bytes \o <<Octet(crc, 0), Octet(crc, 1)>>
Sealed(bytes, crc) == bytes \o <<Octet(crc, 1), Octet(crc, 0)>>
BugOneByteCompared(crc, bytes, end) == Octet(crc, 1) = bytes[end + 1]
Fits(crc, bytes, end) == crc = Field(SubSeq(bytes, end + 1, end + 2))

-----------------------------------------------------------------------------
(* The two builders and the two parsers.                                   *)

Magic == <<ToBits(MAGIC[1]), ToBits(MAGIC[2])>>
Number(n, size) == [k \in 1 .. size |-> Octet(ToBits(n), size - k)]

BuildPacket(r) ==
  LET body == Magic \o Number(r.cmd, 1) \o Number(r.addr, 3) \o Number(r.len, 2)
              \o Split(r.data)
  IN  Sealed(body, crc16_host(body))

SendResponse(a) ==
  LET body == Magic \o Number(a.status, 1) \o Number(Len(a.data), 2) \o Split(a.data)
  IN  Sealed(body, crc16_firmware(body))

STATUS == [OK |-> 0, ERROR |-> 1, CRC_ERROR |-> 3]
Failed(status) == [status |-> status, request |-> None]

\* protocol_task(): "None" is a return without an answer.
Parsed(bytes) ==
  LET cmd == ToNumber(bytes[3])
      len == ToNumber(Field(SubSeq(bytes, 7, 8)))
      end == 8 + IF cmd = CMD_PROGRAM THEN 2 * len ELSE 0
  IN  IF SubSeq(bytes, 1, 2) # Magic THEN None
      ELSE IF len > MAX_WORDS_PER_CMD \/ Len(bytes) < end + 2 THEN Failed(STATUS.ERROR)
      ELSE IF ~Fits(crc16_firmware(SubSeq(bytes, 1, end)), bytes, end)
      THEN Failed(STATUS.CRC_ERROR)
      ELSE [status |-> STATUS.OK,
            request |-> [cmd |-> cmd, addr |-> ToNumber(Field(SubSeq(bytes, 4, 6))),
                         len |-> len, data |-> Joined(SubSeq(bytes, 9, end))]]

\* _recv_response(): "None" is an exception, a timeout for an answer too short included.
RecvResponse(bytes) ==
  LET len == ToNumber(Field(SubSeq(bytes, 4, 5)))
      end == 5 + 2 * len
  IN  IF \/ SubSeq(bytes, 1, 2) # Magic
         \/ Len(bytes) < end + 2
         \/ ~Fits(crc16_host(SubSeq(bytes, 1, end)), bytes, end)
      THEN None
      ELSE [status |-> ToNumber(bytes[3]), data |-> Joined(SubSeq(bytes, 6, end))]

-----------------------------------------------------------------------------
Init ==
  /\ request \in Requests /\ wire = BuildPacket(request)
  /\ phase = "out" /\ flips = {} /\ got = None /\ reply = None /\ taken = None

\* A bit flips; first byte first, so that each damage is one state.
Flip ==
  /\ phase \in {"out", "in"} /\ Cardinality(flips) < MaxFlips
  /\ \E n \in DOMAIN wire, b \in 0 .. 7 :
       /\ \A f \in flips : f < 8 * n + b
       /\ wire' = [wire EXCEPT ![n] = SymDiff(@, {b})]
       /\ flips' = flips \cup {8 * n + b}
  /\ UNCHANGED <<phase, request, got, reply, taken>>

\* The command reaches protocol_task(), which answers it, or does not.
ProtocolTask ==
  /\ phase = "out"
  /\ got' = Parsed(wire)
  /\ IF got' = None
     THEN phase' = "over" /\ wire' = <<>> /\ UNCHANGED reply
     ELSE /\ reply' = [status |-> got'.status,
                       data |-> IF got'.status = STATUS.OK /\ got'.request.cmd = CMD_READ
                                THEN SubSeq(FlashWords, 1, got'.request.len) ELSE <<>>]
          /\ wire' = SendResponse(reply')
          /\ phase' = "in"
  /\ flips' = {}
  /\ UNCHANGED <<request, taken>>

\* The answer reaches the host.
Receive ==
  /\ phase = "in"
  /\ taken' = RecvResponse(wire) /\ phase' = "over"
  /\ wire' = <<>> /\ flips' = {}
  /\ UNCHANGED <<request, got, reply>>

NextCall ==
  /\ phase = "over"
  /\ request' \in Requests /\ wire' = BuildPacket(request')
  /\ phase' = "out" /\ flips' = {} /\ got' = None /\ reply' = None /\ taken' = None

Next == Flip \/ ProtocolTask \/ Receive \/ NextCall
Spec == Init /\ [][Next]_vars

-----------------------------------------------------------------------------
(* Properties.                                                             *)

\* The two sides agree on every field's place and byte order, which each has
\* written down for itself (meggy_flash.py:224-262; protocol.c:101-182):
\* a packet nothing has happened to is taken for what it was.
Intact ==
  /\ phase = "out" /\ flips = {} =>
       Parsed(wire) = [status |-> STATUS.OK, request |-> request]
  /\ phase = "in" /\ flips = {} => RecvResponse(wire) = reply

\* Up to MaxFlips wrong bits anywhere, the command byte, the lengths and the CRC
\* included, never make another command or another answer of a packet.
DamageDetected ==
  /\ got # None /\ got.status = STATUS.OK => got.request = request
  /\ taken # None => taken = reply

\* Long division: from the top down, the divisor is taken from every term it reaches.
Remainder(dividend, degree) ==
  LET divide[n \in 0 .. degree - 15] ==
        IF n = 0 THEN dividend
        ELSE LET p == divide[n - 1]
                 top == degree + 1 - n
             IN  IF top \in p THEN SymDiff(p, Shifted(Poly \cup {16}, top - 16)) ELSE p
  IN  divide[degree - 15]

\* Both CRCs are the remainder their polynomial's name promises: of the message and
\* the register's initial ones, times x^16 (protocol.c:8, meggy_flash.py:102).
CrcIsRemainder ==
  LET n == 8 * Len(wire)
      text == SymDiff(Shifted(Field(wire), 16), Shifted(Width, n))
  IN  Cardinality(flips) <= 1 =>
        {crc16_firmware(wire), crc16_host(wire)} = {Remainder(text, n + 15)}
=============================================================================

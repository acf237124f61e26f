--------------------------- MODULE TransportProofs ---------------------------
(***************************************************************************)
(* The way of a command and its answer, for any sizes of the packets and   *)
(* messages, any number of attempts and any times that keep the pace.      *)
(*                                                                         *)
(* A command is carried out once per attempt at most, whatever is late,    *)
(* lost or cut short: every attempt sends one first byte, no step copies   *)
(* it, and bulk_recv() must have put it first into the buffer of a command *)
(* that is carried out.  In a session that no failed transfer disturbs     *)
(* every attempt starts on a clean line and every answer is the call's own *)
(* one: what the firmware has to wait for before it is back in its loop is *)
(* bounded by the bytes it has been sent, and ends before the host's       *)
(* deadline.  And so _transact() keeps the promise that Rpc states.        *)
(***************************************************************************)
EXTENDS Transport, SequenceTheorems, TLAPS

-----------------------------------------------------------------------------
(* The invariant.                                                          *)

CommandBytes(n) == [call : 1 .. n, pos : Nat \ {0}]
AnswerBytes(n) == [call : 1 .. n, pos : Nat \ {0}, size : Nat, good : BOOLEAN]

\* What is on the line.
LineOK ==
  /\ out_ep \in Seq(CommandBytes(call)) /\ Len(out_ep) <= BULK_EP_SIZE
  /\ in_ep \in Seq(AnswerBytes(call)) /\ Len(in_ep) <= BULK_EP_SIZE

\* The firmware: from its second byte on it knows whom it reads.
DevOK ==
  /\ dev \in [pc : {"poll", "header", "payload", "crc", "work", "send"},
              buf : Seq(CommandBytes(call)), want : Nat, reply : Seq(AnswerBytes(call))]
  /\ dev_time \in 0 .. IF dev.pc = "work" THEN MaxWork ELSE DEV_TIMEOUT
  /\ Len(dev.buf) <= dev.want \/ dev.pc = "work"
  /\ dev.pc = "poll" => dev.buf = <<>>
  /\ dev.pc = "header" => dev.want = HEADER
  /\ dev.pc \in {"payload", "crc", "work"} => dev.buf # <<>>

\* The host: what it has left to write it has only while it writes.
HostOK ==
  /\ kinds \in Seq(Kinds) /\ call <= MaxCalls
  /\ host \in [pc : {"closed", "flush", "sleep", "open", "write", "readHeader", "readRest"},
               attempt : 0 .. RETRIES, left : Seq(CommandBytes(call)),
               rx : Seq(AnswerBytes(call))]
  /\ host_time \in 0 .. READ_TIMEOUT
  /\ disturbed \in BOOLEAN
  /\ abandoned \subseteq 1 .. call /\ returned \subseteq 1 .. call
  /\ host.pc \in {"sleep", "write", "readHeader", "readRest"} => host.attempt > 0
  /\ host.attempt > 0 => call > 0
  /\ host.left # <<>> => host.pc = "write"
  /\ host.pc = "readRest" => host.rx # <<>>

\* One if the bytes begin with the first byte of c's command.
Starts(s, c) == IF s # <<>> /\ s[1] = [call |-> c, pos |-> 1] THEN 1 ELSE 0

\* A first byte comes first.
FirstsLead(s) == \A p \in 2 .. Len(s) : s[p].pos # 1

\* How often c may still be carried out without another attempt; and the attempts
\* made so far, or that may have been made.
OnTheWay(c) ==
  (IF Receiving THEN Starts(dev.buf, c) ELSE 0) + Starts(out_ep, c) + Starts(host.left, c)
Attempts(c) == IF c = call /\ InCall THEN host.attempt ELSE RETRIES

OnceOK ==
  /\ FirstsLead(out_ep) /\ FirstsLead(host.left)
  /\ executed \in [Calls -> Nat]
  /\ \A c \in Calls : c \notin 1 .. call => executed[c] = 0
  /\ \A c \in 1 .. call : executed[c] + OnTheWay(c) <= Attempts(c)

IInv == LineOK /\ DevOK /\ HostOK /\ OnceOK

-----------------------------------------------------------------------------
(* Packets and messages.                                                   *)

LEMMA Constant ==
  /\ BULK_EP_SIZE \in Nat \ {0} /\ HEADER \in Nat \ {0} /\ WORD \in Nat \ {0}
  /\ CRC \in Nat \ {0} /\ RHEADER \in Nat \ {0}
  /\ \A k \in Kinds : k.send \in Nat /\ k.reply \in Nat
  /\ RETRIES \in Nat \ {0} /\ MaxCalls \in Nat /\ DEV_TIMEOUT \in Nat
  /\ READ_TIMEOUT \in Nat /\ MaxWork \in Nat
BY SizeAssumption, TimeAssumption

\* What is left after n bytes.
LEMMA RestOf ==
  ASSUME NEW S, NEW s \in Seq(S), NEW n \in Nat
  PROVE  /\ Rest(s, n) \in Seq(S)
         /\ n <= Len(s) => Len(Rest(s, n)) = Len(s) - n
         /\ n >= Len(s) => Rest(s, n) = <<>>
         /\ \A i \in 1 .. Len(s) - n : Rest(s, n)[i] = s[n + i]
<1>1. Len(s) \in Nat /\ \A i \in n + 1 .. Len(s) : s[i] \in S
  BY LenProperties, ElementOfSeq
<1>2. /\ SubSeq(s, n + 1, Len(s)) \in Seq(S)
      /\ Len(SubSeq(s, n + 1, Len(s))) = IF n + 1 <= Len(s) THEN Len(s) - (n + 1) + 1 ELSE 0
      /\ \A i \in 1 .. Len(s) - (n + 1) + 1 : SubSeq(s, n + 1, Len(s))[i] = s[n + 1 + i - 1]
  BY <1>1, SubSeqProperties
<1>3. n >= Len(s) => SubSeq(s, n + 1, Len(s)) = <<>>
  BY <1>1, SubSeqEmpty
<1>4. QED
  BY <1>1, <1>2, <1>3 DEF Rest

\* The first n bytes.
LEMMA FirstOf ==
  ASSUME NEW S, NEW s \in Seq(S), NEW n \in Nat, n <= Len(s)
  PROVE  /\ SubSeq(s, 1, n) \in Seq(S)
         /\ Len(SubSeq(s, 1, n)) = n
         /\ \A i \in 1 .. n : SubSeq(s, 1, n)[i] = s[i]
<1>1. Len(s) \in Nat /\ \A i \in 1 .. n : s[i] \in S
  BY LenProperties, ElementOfSeq
<1>2. /\ SubSeq(s, 1, n) \in Seq(S)
      /\ Len(SubSeq(s, 1, n)) = IF 1 <= n THEN n - 1 + 1 ELSE 0
      /\ \A i \in 1 .. n - 1 + 1 : SubSeq(s, 1, n)[i] = s[1 + i - 1]
  BY <1>1, SubSeqProperties
<1>3. QED
  BY <1>1, <1>2

LEMMA PacketOf ==
  ASSUME NEW S, NEW s \in Seq(S)
  PROVE  /\ Packet(s) \in Seq(S)
         /\ Len(Packet(s)) <= BULK_EP_SIZE /\ Len(Packet(s)) <= Len(s)
         /\ s # <<>> => Packet(s) # <<>>
         /\ \A i \in 1 .. Len(Packet(s)) : Packet(s)[i] = s[i]
<1> DEFINE n == Least(BULK_EP_SIZE, Len(s))
<1>1. Len(s) \in Nat /\ (s # <<>> => Len(s) > 0)
  BY EmptySeq, LenProperties
<1>2. n \in Nat /\ n <= Len(s) /\ n <= BULK_EP_SIZE /\ (Len(s) > 0 => n > 0)
  BY <1>1, Constant DEF Least
<1> HIDE DEF n
<1>3. /\ SubSeq(s, 1, n) \in Seq(S) /\ Len(SubSeq(s, 1, n)) = n
      /\ \A i \in 1 .. n : SubSeq(s, 1, n)[i] = s[i]
  BY <1>2, FirstOf
<1>4. Packet(s) = SubSeq(s, 1, n)
  BY DEF Packet, n
<1>5. QED
  BY <1>1, <1>2, <1>3, <1>4

\* A command: its first byte is its only one that starts it.
LEMMA MessageOf ==
  kinds \in Seq(Kinds) =>
    \A c \in 1 .. call :
      /\ Message(c) \in Seq(CommandBytes(call)) /\ Message(c) # <<>>
      /\ Message(c)[1] = [call |-> c, pos |-> 1] /\ FirstsLead(Message(c))
<1> SUFFICES ASSUME kinds \in Seq(Kinds), NEW c \in 1 .. call
             PROVE  /\ Message(c) \in Seq(CommandBytes(call)) /\ Message(c) # <<>>
                    /\ Message(c)[1] = [call |-> c, pos |-> 1] /\ FirstsLead(Message(c))
  OBVIOUS
<1> DEFINE n == CommandSize(kinds[c])
<1>1. call \in Nat /\ kinds[c] \in Kinds
  BY LenProperties, ElementOfSeq DEF call
<1>2. n \in Nat /\ n > 0
  <2>1. kinds[c].send \in Nat
    BY <1>1, Constant
  <2>2. PICK w \in Nat : w = WORD * kinds[c].send
    BY <2>1, Constant
  <2>3. n = HEADER + w + CRC
    BY <2>2 DEF CommandSize
  <2>4. QED
    BY <2>3, Constant
<1> HIDE DEF n
<1>3. Message(c) = [p \in 1 .. n |-> [call |-> c, pos |-> p]]
  BY DEF Message, n
<1>4. \A p \in 1 .. n : [call |-> c, pos |-> p] \in CommandBytes(call)
  BY <1>1, <1>2 DEF CommandBytes
<1>5. Message(c) \in Seq(CommandBytes(call))
  BY <1>2, <1>3, <1>4, SeqDef
<1>6. Len(Message(c)) = n
  BY <1>2, <1>3, <1>5, LenProperties
<1>7. \A p \in 1 .. n : Message(c)[p] = [call |-> c, pos |-> p]
  BY <1>3
<1>8. Message(c) # <<>>
  BY <1>2, <1>6, EmptySeq
<1>9. FirstsLead(Message(c))
  BY <1>2, <1>6, <1>7 DEF FirstsLead
<1>10. QED
  BY <1>2, <1>5, <1>7, <1>8, <1>9

LEMMA ReplyOf ==
  ASSUME call \in Nat, NEW c \in 1 .. call, NEW words \in Nat, NEW good \in BOOLEAN
  PROVE  Reply(c, words, good) \in Seq(AnswerBytes(call))
<1> DEFINE n == RHEADER + WORD * words + CRC
<1>1. n \in Nat
  BY Constant
<1> HIDE DEF n
<1>2. Reply(c, words, good) =
        [p \in 1 .. n |-> [call |-> c, pos |-> p, size |-> n, good |-> good]]
  BY DEF Reply, n
<1>3. \A p \in 1 .. n : [call |-> c, pos |-> p, size |-> n, good |-> good] \in AnswerBytes(call)
  BY <1>1 DEF AnswerBytes
<1>4. QED
  BY <1>1, <1>2, <1>3, SeqDef

-----------------------------------------------------------------------------
(* First bytes.                                                            *)

LEMMA StartsRest ==
  ASSUME NEW n \in Nat \ {0}, NEW k \in Nat, NEW s \in Seq(CommandBytes(k)), FirstsLead(s)
  PROVE  FirstsLead(Rest(s, n)) /\ \A c : Starts(Rest(s, n), c) = 0
<1>1. /\ Rest(s, n) \in Seq(CommandBytes(k))
      /\ n <= Len(s) => Len(Rest(s, n)) = Len(s) - n
      /\ n >= Len(s) => Rest(s, n) = <<>>
      /\ \A i \in 1 .. Len(s) - n : Rest(s, n)[i] = s[n + i]
  BY RestOf
<1>2. Len(s) \in Nat
  BY LenProperties
<1>3. CASE n >= Len(s)
  BY <1>1, <1>3 DEF FirstsLead, Starts
<1>4. CASE n < Len(s)
  <2>1. \A i \in 1 .. Len(Rest(s, n)) : Rest(s, n)[i].pos # 1
    BY <1>1, <1>2, <1>4 DEF FirstsLead
  <2>2. Len(Rest(s, n)) \in Nat \ {0}
    BY <1>1, <1>2, <1>4
  <2>3. Rest(s, n)[1].pos # 1
    BY <2>1, <2>2
  <2>4. QED
    BY <2>1, <2>2, <2>3 DEF FirstsLead, Starts
<1>5. QED
  BY <1>2, <1>3, <1>4

LEMMA StartsPacket ==
  ASSUME NEW k \in Nat, NEW s \in Seq(CommandBytes(k)), FirstsLead(s)
  PROVE  FirstsLead(Packet(s)) /\ \A c : Starts(Packet(s), c) = Starts(s, c)
<1>1. /\ Packet(s) \in Seq(CommandBytes(k))
      /\ Len(Packet(s)) <= Len(s)
      /\ s # <<>> => Packet(s) # <<>>
      /\ \A i \in 1 .. Len(Packet(s)) : Packet(s)[i] = s[i]
  BY PacketOf
<1>2. /\ Len(s) \in Nat /\ Len(Packet(s)) \in Nat
      /\ Packet(s) # <<>> => Len(Packet(s)) > 0
      /\ s = <<>> => Len(Packet(s)) = 0
  BY <1>1, EmptySeq, LenProperties
<1>3. s = <<>> => Packet(s) = <<>>
  BY <1>1, <1>2, EmptySeq
<1>4. FirstsLead(Packet(s))
  BY <1>1, <1>2 DEF FirstsLead
<1>5. QED
  BY <1>1, <1>2, <1>3, <1>4 DEF Starts

\* bulk_recv() takes n bytes of t to those it has.
LEMMA StartsRecv ==
  ASSUME NEW k \in Nat, NEW s \in Seq(CommandBytes(k)), NEW t \in Seq(CommandBytes(k)),
         NEW n \in Nat \ {0}, n <= Len(t), FirstsLead(t)
  PROVE  /\ s \o SubSeq(t, 1, n) \in Seq(CommandBytes(k))
         /\ Len(s \o SubSeq(t, 1, n)) = Len(s) + n
         /\ s \o SubSeq(t, 1, n) # <<>>
         /\ \A c : Starts(s \o SubSeq(t, 1, n), c) <= Starts(s, c) + Starts(t, c)
<1> DEFINE u == SubSeq(t, 1, n)
<1>1. u \in Seq(CommandBytes(k)) /\ Len(u) = n /\ \A i \in 1 .. n : u[i] = t[i]
  BY FirstOf
<1> HIDE DEF u
<1>2. /\ s \o u \in Seq(CommandBytes(k)) /\ Len(s \o u) = Len(s) + Len(u)
      /\ \A i \in 1 .. Len(s) + Len(u) : (s \o u)[i] = IF i <= Len(s) THEN s[i] ELSE u[i - Len(s)]
  BY <1>1, ConcatProperties
<1>3. Len(s) \in Nat /\ (s # <<>> => Len(s) > 0) /\ (s = <<>> => Len(s) = 0) /\ t # <<>>
  BY EmptySeq, LenProperties
<1>4. s \o u # <<>>
  BY <1>1, <1>2, <1>3, EmptySeq
<1>5. (s \o u)[1] = IF s # <<>> THEN s[1] ELSE t[1]
  BY <1>1, <1>2, <1>3
<1>6. ASSUME NEW c PROVE Starts(s \o u, c) <= Starts(s, c) + Starts(t, c)
  BY <1>3, <1>4, <1>5 DEF Starts
<1>7. QED
  BY <1>1, <1>2, <1>4, <1>6 DEF u

-----------------------------------------------------------------------------
(* The counting.                                                           *)

LEMMA OnTheWayType == \A c : OnTheWay(c) \in Nat
<1>1. \A s, c : Starts(s, c) \in Nat
  BY DEF Starts
<1>2. QED
  BY <1>1 DEF OnTheWay

LEMMA Counts ==
  ASSUME IInv
  PROVE  /\ call \in Nat /\ 1 .. call \subseteq Calls
         /\ \A s, c : Starts(s, c) \in {0, 1}
         /\ \A c : OnTheWay(c) \in Nat /\ Attempts(c) \in 0 .. RETRIES
<1>1. call \in Nat
  BY LenProperties DEF IInv, HostOK, call
<1>2. 1 .. call \subseteq Calls
  BY <1>1, Constant DEF IInv, HostOK, Calls
<1>3. \A s, c : Starts(s, c) \in {0, 1}
  BY DEF Starts
<1>4. \A c : OnTheWay(c) \in Nat
  BY OnTheWayType
<1>5. \A c : Attempts(c) \in 0 .. RETRIES
  BY Constant DEF Attempts, IInv, HostOK
<1>6. QED
  BY <1>1, <1>2, <1>3, <1>4, <1>5

\* A step that puts no command on its way, carries none out and takes no attempt back.
LEMMA OnceStep ==
  ASSUME IInv, call' = call, executed' = executed,
         FirstsLead(out_ep'), FirstsLead(host'.left),
         \A c \in 1 .. call : OnTheWay(c)' <= OnTheWay(c) /\ Attempts(c) <= Attempts(c)',
         \A c \in 1 .. call : OnTheWay(c)' \in Nat /\ Attempts(c)' \in 0 .. RETRIES
  PROVE  OnceOK'
<1>1. OnceOK
  BY DEF IInv
<1>2. \A c \in 1 .. call : executed[c] \in Nat
  BY <1>1, Counts DEF OnceOK
<1>3. \A c \in 1 .. call : executed'[c] + OnTheWay(c)' <= Attempts(c)'
  BY <1>1, <1>2, Counts, Constant DEF OnceOK
<1>4. QED
  BY <1>1, <1>3 DEF OnceOK

\* The same, for a step of the firmware's.
LEMMA FirmwareOnce ==
  ASSUME IInv, UNCHANGED hostVars, executed' = executed, FirstsLead(out_ep'),
         \A c \in 1 .. call : OnTheWay(c)' <= OnTheWay(c)
  PROVE  OnceOK' /\ HostOK'
<1>1. call' = call /\ FirstsLead(host'.left)
  BY DEF call, hostVars, IInv, OnceOK
<1>2. \A c : Attempts(c)' = Attempts(c)
  BY <1>1 DEF Attempts, InCall, hostVars
<1>3. (\A c : OnTheWay(c) \in Nat)'
  BY OnTheWayType, PTL
<1>4. OnceOK'
  BY <1>1, <1>2, <1>3, OnceStep, Counts
<1>5. HostOK'
  BY <1>1 DEF HostOK, IInv, hostVars, log
<1>6. QED
  BY <1>4, <1>5

\* And for a step of the host's that leaves the kinds.
LEMMA HostOnce ==
  ASSUME IInv, UNCHANGED <<dev, executed, kinds>>,
         FirstsLead(out_ep'), FirstsLead(host'.left),
         \A c \in 1 .. call :
           Starts(out_ep', c) + Starts(host'.left, c) <= Starts(out_ep, c) + Starts(host.left, c),
         InCall' => host'.attempt \in host.attempt .. RETRIES /\ InCall
  PROVE  OnceOK'
<1>1. call' = call
  BY DEF call
<1>2. (\A c : OnTheWay(c) \in Nat)'
  BY OnTheWayType, PTL
<1>3. \A c \in 1 .. call : OnTheWay(c)' <= OnTheWay(c)
  <2>1. \A c : (IF Receiving THEN Starts(dev.buf, c) ELSE 0)' = IF Receiving THEN Starts(dev.buf, c) ELSE 0
    BY DEF Receiving, Starts
  <2>2. \A t, c : Starts(t, c) \in Nat
    BY DEF Starts
  <2>3. QED
    BY <2>1, <2>2 DEF OnTheWay
<1>4. \A c \in 1 .. call : Attempts(c)' \in 0 .. RETRIES /\ Attempts(c) <= Attempts(c)'
  BY <1>1, Counts, Constant DEF Attempts, IInv, HostOK
<1>5. QED
  BY <1>1, <1>2, <1>3, <1>4, OnceStep

-----------------------------------------------------------------------------
(* The firmware's steps.                                                   *)

LEMMA CallOf ==
  ASSUME IInv, dev.buf # <<>>
  PROVE  dev.buf[1].call \in 1 .. call /\ kinds[dev.buf[1].call] \in Kinds
<1>1. dev.buf \in Seq(CommandBytes(call)) /\ kinds \in Seq(Kinds)
  BY DEF IInv, DevOK, HostOK
<1>2. Len(dev.buf) \in Nat \ {0}
  BY <1>1, EmptySeq
<1>3. dev.buf[1] \in CommandBytes(call)
  BY <1>1, <1>2, ElementOfSeq
<1>4. dev.buf[1].call \in 1 .. call
  BY <1>3 DEF CommandBytes
<1>5. QED
  BY <1>1, <1>4, ElementOfSeq DEF call

\* The three ways on: back to the loop, to an answer, to more bytes.
LEMMA ReturnOK ==
  ASSUME IInv, Return, call' = call
  PROVE  DevOK' /\ ~Receiving'
<1>1. \A S : <<>> \in Seq(S)
  BY EmptySeq
<1>2. Len(<<>>) = 0
  BY EmptySeq
<1>3. QED
  BY <1>1, <1>2, Constant DEF Return, DevOK, Receiving

LEMMA SendResponseOK ==
  ASSUME IInv, call' = call, NEW c \in 1 .. call, NEW words \in Nat, NEW good \in BOOLEAN,
         SendResponse(c, words, good)
  PROVE  DevOK' /\ ~Receiving'
<1>1. \A S : <<>> \in Seq(S)
  BY EmptySeq
<1>2. Len(<<>>) = 0
  BY EmptySeq
<1>3. Reply(c, words, good) \in Seq(AnswerBytes(call))
  BY Counts, ReplyOf
<1>4. QED
  BY <1>1, <1>2, <1>3, Constant DEF SendResponse, DevOK, Receiving

LEMMA GotoOK ==
  ASSUME IInv, call' = call, NEW pc \in {"header", "payload", "crc"}, NEW want \in Nat,
         Goto(pc, want), Len(dev.buf) <= want,
         pc = "header" => want = HEADER, pc # "header" => dev.buf # <<>>
  PROVE  DevOK' /\ dev'.buf = dev.buf
<1>1. dev' = [dev EXCEPT !.pc = pc, !.want = want] /\ dev_time' = 0
  BY DEF Goto
<1>2. DevOK
  BY DEF IInv
<1>3. dev'.buf = dev.buf /\ dev'.pc = pc /\ dev'.want = want
  BY <1>1, <1>2 DEF DevOK
<1>4. dev' \in [pc : {"poll", "header", "payload", "crc", "work", "send"},
                buf : Seq(CommandBytes(call)), want : Nat, reply : Seq(AnswerBytes(call))]
  BY <1>1, <1>2 DEF DevOK
<1>5. dev_time' \in 0 .. DEV_TIMEOUT
  BY <1>1, Constant
<1>6. QED
  BY <1>3, <1>4, <1>5 DEF DevOK

\* Nothing is on its way to a firmware that has stopped reading, and nothing more
\* to one that reads on.
LEMMA LessOnTheWay ==
  ASSUME UNCHANGED <<out_ep, host>>, ~Receiving' \/ (Receiving /\ dev'.buf = dev.buf)
  PROVE  \A c : OnTheWay(c)' <= OnTheWay(c)
<1>1. \A s, c : Starts(s, c) \in Nat
  BY DEF Starts
<1>2. QED
  BY <1>1 DEF OnTheWay

LEMMA BulkRecvStep ==
  ASSUME IInv, BulkRecv
  PROVE  IInv' /\ \A c \in 1 .. call : OnTheWay(c)' <= OnTheWay(c)
<1> DEFINE n == Least(dev.want - Len(dev.buf), Len(out_ep))
           got == dev.buf \o SubSeq(out_ep, 1, n)
<1>1. /\ call \in Nat /\ call' = call /\ host' = host /\ executed' = executed
      /\ UNCHANGED <<hostVars, in_ep>> /\ Receiving
  BY Counts DEF BulkRecv, call, hostVars
<1>2. /\ dev.buf \in Seq(CommandBytes(call)) /\ out_ep \in Seq(CommandBytes(call))
      /\ dev.want \in Nat /\ FirstsLead(out_ep) /\ out_ep # <<>> /\ dev.pc # "work"
  BY DEF IInv, DevOK, LineOK, OnceOK, BulkRecv, Receiving
<1>3. /\ Len(dev.buf) \in Nat /\ Len(out_ep) \in Nat \ {0} /\ Len(dev.buf) # dev.want
      /\ Len(dev.buf) <= dev.want
  BY <1>1, <1>2, EmptySeq, LenProperties DEF IInv, DevOK, BulkRecv, Received
<1>4. n \in Nat \ {0} /\ n <= Len(out_ep) /\ n <= dev.want - Len(dev.buf)
  BY <1>2, <1>3 DEF Least
<1>5. dev' = [dev EXCEPT !.buf = got] /\ out_ep' = Rest(out_ep, n) /\ dev_time' = 0
  BY DEF BulkRecv
<1> HIDE DEF n
<1>6. /\ got \in Seq(CommandBytes(call)) /\ Len(got) = Len(dev.buf) + n /\ got # <<>>
      /\ \A c : Starts(got, c) <= Starts(dev.buf, c) + Starts(out_ep, c)
  BY <1>1, <1>2, <1>4, StartsRecv
<1>7. /\ Rest(out_ep, n) \in Seq(CommandBytes(call))
      /\ Len(Rest(out_ep, n)) = Len(out_ep) - n
  BY <1>2, <1>4, RestOf
<1>8. FirstsLead(Rest(out_ep, n)) /\ \A c : Starts(Rest(out_ep, n), c) = 0
  BY <1>1, <1>2, <1>4, StartsRest
<1> HIDE DEF got
<1>9. LineOK'
  <2>1. /\ Len(out_ep) <= BULK_EP_SIZE /\ in_ep \in Seq(AnswerBytes(call))
        /\ Len(in_ep) <= BULK_EP_SIZE
    BY DEF IInv, LineOK
  <2>2. out_ep' \in Seq(CommandBytes(call)) /\ Len(out_ep') <= BULK_EP_SIZE
    <3>1. BULK_EP_SIZE \in Nat
      BY Constant
    <3>2. Len(out_ep') = Len(out_ep) - n
      BY <1>5, <1>7
    <3>3. QED
      BY <1>3, <1>4, <1>5, <1>7, <2>1, <3>1, <3>2
  <2>3. QED
    BY <1>1, <2>1, <2>2 DEF LineOK
<1>10. dev'.buf = got /\ dev'.pc = dev.pc /\ dev'.want = dev.want
  BY <1>5 DEF IInv, DevOK
<1>11. DevOK'
  <2>1. dev' \in [pc : {"poll", "header", "payload", "crc", "work", "send"},
                  buf : Seq(CommandBytes(call)), want : Nat, reply : Seq(AnswerBytes(call))]
    BY <1>5, <1>6 DEF IInv, DevOK
  <2>2. Len(got) <= dev.want
    BY <1>2, <1>3, <1>4, <1>6
  <2>3. dev.pc # "poll" /\ dev.pc # "work"
    BY <1>1 DEF Receiving
  <2>4. dev.pc = "header" => dev.want = HEADER
    BY DEF IInv, DevOK
  <2>5. dev_time' = 0 /\ got # <<>>
    BY <1>5, <1>6
  <2>6. QED
    BY <1>1, <1>10, <2>1, <2>2, <2>3, <2>4, <2>5, Constant DEF DevOK
<1>12. \A c \in 1 .. call : OnTheWay(c)' <= OnTheWay(c)
  <2>1. \A s, c : Starts(s, c) \in Nat
    BY DEF Starts
  <2>2. Receiving'
    BY <1>1, <1>10 DEF Receiving
  <2>3. QED
    BY <1>1, <1>5, <1>6, <1>8, <1>10, <2>1, <2>2 DEF OnTheWay
<1>13. FirstsLead(out_ep')
  BY <1>5, <1>8
<1>14. QED
  BY <1>1, <1>9, <1>11, <1>12, <1>13, FirmwareOnce DEF IInv

\* The header has been read: what it asks is known, or may be anything.
LEMMA HeaderStep ==
  ASSUME IInv, Header
  PROVE  DevOK' /\ \A c : OnTheWay(c)' <= OnTheWay(c)
<1>1. call' = call /\ UNCHANGED <<out_ep, host>> /\ Receiving
  BY DEF Header, hostVars, call, Received
<1>2. Len(dev.buf) = HEADER /\ dev.buf \in Seq(CommandBytes(call))
  BY DEF Header, Received, IInv, DevOK
<1>3. dev.buf # <<>>
  BY <1>2, EmptySeq, Constant
<1>4. CASE \E k \in IF InStep THEN {kinds[dev.buf[1].call]} ELSE Kinds :
             IF k.send > 0 THEN Goto("payload", HEADER + WORD * k.send)
             ELSE Goto("crc", HEADER + CRC)
  <2>1. PICK k \in Kinds : IF k.send > 0 THEN Goto("payload", HEADER + WORD * k.send)
                           ELSE Goto("crc", HEADER + CRC)
    BY <1>3, <1>4, CallOf
  <2>2. PICK w \in Nat : w = WORD * k.send
    BY Constant
  <2>3. HEADER + WORD * k.send \in Nat /\ HEADER <= HEADER + WORD * k.send
    BY <2>2, Constant
  <2>4. HEADER + CRC \in Nat /\ HEADER <= HEADER + CRC
    BY Constant
  <2>5. DevOK' /\ dev'.buf = dev.buf
    BY <1>1, <1>2, <1>3, <2>1, <2>3, <2>4, GotoOK
  <2>6. QED
    BY <1>1, <2>5, LessOnTheWay
<1>5. CASE SendResponse(dev.buf[1].call, 0, FALSE)
  <2>1. DevOK' /\ ~Receiving'
    BY <1>1, <1>3, <1>5, CallOf, SendResponseOK
  <2>2. QED
    BY <1>1, <2>1, LessOnTheWay
<1>6. CASE Return
  <2>1. DevOK' /\ ~Receiving'
    BY <1>1, <1>6, ReturnOK
  <2>2. QED
    BY <1>1, <2>1, LessOnTheWay
<1>7. QED
  BY <1>4, <1>5, <1>6 DEF Header

\* A command is carried out only if its first byte came first, and is no more on its way.
LEMMA CheckedStep ==
  ASSUME IInv, Checked
  PROVE  IInv'
<1>1. /\ call \in Nat /\ call' = call /\ Receiving /\ dev.buf # <<>>
      /\ UNCHANGED <<hostVars, host, out_ep, in_ep>>
  BY Counts DEF Checked, hostVars, call, Received, IInv, DevOK
<1>2. LineOK' /\ HostOK'
  BY <1>1 DEF IInv, LineOK, HostOK, hostVars, log
<1>0. (\A c : OnTheWay(c) \in Nat)'
  BY OnTheWayType, PTL
<1>3. CASE CrcFits
  <2>1. PICK c \in 1 .. call : dev.buf = Message(c)
    BY <1>3 DEF CrcFits, Sender
  <2>2. dev.buf[1] = [call |-> c, pos |-> 1]
    BY <2>1, MessageOf DEF IInv, HostOK
  <2>3. Sender = c
    BY <2>1, <2>2 DEF Sender
  <2>4. /\ dev' = [dev EXCEPT !.pc = "work", !.want = 0] /\ dev_time' \in 0 .. MaxWork
        /\ executed' = [executed EXCEPT ![c] = @ + 1]
    BY <1>3, <2>3 DEF Checked
  <2>5. dev'.pc = "work" /\ dev'.buf = dev.buf
    BY <2>4 DEF IInv, DevOK
  <2>6. DevOK'
    BY <1>1, <2>4, <2>5 DEF IInv, DevOK
  <2>7. OnceOK'
    <3>1. executed \in [Calls -> Nat] /\ c \in Calls
      BY Counts DEF IInv, OnceOK
    <3>2. \A d \in Calls : executed'[d] = IF d = c THEN executed[d] + 1 ELSE executed[d]
      BY <2>4, <3>1
    <3>3. executed' \in [Calls -> Nat]
      BY <2>4, <3>1
    <3>4. \A s, d : Starts(s, d) \in Nat
      BY DEF Starts
    <3>5. ~Receiving'
      BY <2>5 DEF Receiving
    <3>6. Starts(dev.buf, c) = 1
      BY <1>1, <2>2 DEF Starts
    <3>7. OnTheWay(c)' + 1 <= OnTheWay(c) /\ \A d : OnTheWay(d)' <= OnTheWay(d)
      BY <1>1, <3>4, <3>5, <3>6 DEF OnTheWay
    <3>8. \A d : Attempts(d)' = Attempts(d)
      BY <1>1 DEF Attempts, InCall
    <3>9. ASSUME NEW d \in 1 .. call
           PROVE  executed'[d] + OnTheWay(d)' <= Attempts(d)'
      <4>1. executed[d] + OnTheWay(d) <= Attempts(d) /\ executed[d] \in Nat /\ d \in Calls
        BY <3>1, Counts DEF IInv, OnceOK
      <4>2. OnTheWay(d)' \in Nat /\ OnTheWay(d) \in Nat /\ Attempts(d) \in Nat
        BY <1>0, Counts, Constant
      <4>3. QED
        BY <3>2, <3>7, <3>8, <4>1, <4>2
    <3>10. FirstsLead(out_ep') /\ FirstsLead(host'.left)
      BY <1>1 DEF IInv, OnceOK
    <3>11. \A d \in Calls : d \notin 1 .. call => executed'[d] = 0
      BY <3>2 DEF IInv, OnceOK
    <3>12. QED
      BY <1>1, <3>3, <3>9, <3>10, <3>11 DEF OnceOK
  <2>8. QED
    BY <1>2, <2>6, <2>7 DEF IInv
<1>4. CASE ~CrcFits
  <2>1. DevOK' /\ ~Receiving' /\ executed' = executed
    BY <1>1, <1>4, CallOf, SendResponseOK DEF Checked
  <2>2. FirstsLead(out_ep')
    BY <1>1 DEF IInv, OnceOK
  <2>3. OnceOK'
    BY <1>1, <2>1, <2>2, LessOnTheWay, FirmwareOnce
  <2>4. QED
    BY <1>2, <2>1, <2>3 DEF IInv
<1>5. QED
  BY <1>3, <1>4

\* A step that leaves the line and the counts: what it does to dev is all there is.
LEMMA DevStep ==
  ASSUME IInv, UNCHANGED <<hostVars, out_ep, executed>>,
         in_ep' \in Seq(AnswerBytes(call)), Len(in_ep') <= BULK_EP_SIZE,
         DevOK', \A c : OnTheWay(c)' <= OnTheWay(c)
  PROVE  IInv'
<1>1. call' = call /\ FirstsLead(out_ep')
  BY DEF hostVars, call, IInv, OnceOK
<1>2. LineOK'
  BY <1>1 DEF IInv, LineOK
<1>3. OnceOK' /\ HostOK'
  BY <1>1, FirmwareOnce
<1>4. QED
  BY <1>2, <1>3 DEF IInv

LEMMA FirmwareStep ==
  ASSUME IInv, Firmware
  PROVE  IInv'
<1>1. /\ in_ep \in Seq(AnswerBytes(call)) /\ Len(in_ep) <= BULK_EP_SIZE
      /\ dev.buf \in Seq(CommandBytes(call)) /\ dev.reply \in Seq(AnswerBytes(call))
      /\ call \in Nat
  BY Counts DEF IInv, LineOK, DevOK
<1>2. CASE Poll
  <2>1. call' = call /\ UNCHANGED <<hostVars, out_ep, in_ep, executed, host>>
    BY <1>2 DEF Poll, hostVars, call
  <2>2. dev.buf = <<>> /\ Len(dev.buf) = 0
    BY <1>2, EmptySeq DEF Poll, IInv, DevOK
  <2>3. DevOK' /\ dev'.buf = dev.buf
    BY <1>2, <2>1, <2>2, GotoOK, Constant DEF Poll
  <2>4. \A c : OnTheWay(c)' <= OnTheWay(c)
    <3>1. \A s, c : Starts(s, c) \in Nat
      BY DEF Starts
    <3>2. \A c : Starts(dev'.buf, c) = 0
      BY <2>2, <2>3 DEF Starts
    <3>3. QED
      BY <2>1, <3>1, <3>2 DEF OnTheWay
  <2>5. QED
    BY <1>1, <2>1, <2>3, <2>4, DevStep
<1>3. CASE BulkRecv
  BY <1>3, BulkRecvStep
<1>4. CASE RecvTimeout
  <2>1. call' = call /\ UNCHANGED <<hostVars, out_ep, in_ep, executed, host>>
    BY <1>4 DEF RecvTimeout, hostVars, call
  <2>2. DevOK' /\ ~Receiving'
    <3>1. CASE dev.pc = "header"
      BY <1>4, <2>1, <3>1, ReturnOK DEF RecvTimeout
    <3>2. CASE dev.pc # "header"
      <4>1. dev.buf # <<>>
        BY <1>4, <3>2 DEF RecvTimeout, Receiving, IInv, DevOK
      <4>2. SendResponse(dev.buf[1].call, 0, FALSE)
        BY <1>4, <3>2 DEF RecvTimeout
      <4>3. QED
        BY <2>1, <4>1, <4>2, CallOf, SendResponseOK
    <3>3. QED
      BY <3>1, <3>2
  <2>3. \A c : OnTheWay(c)' <= OnTheWay(c)
    BY <2>1, <2>2, LessOnTheWay
  <2>4. QED
    BY <1>1, <2>1, <2>2, <2>3, DevStep
<1>5. CASE Header
  <2>1. UNCHANGED <<hostVars, out_ep, in_ep, executed>>
    BY <1>5 DEF Header
  <2>2. QED
    BY <1>1, <1>5, <2>1, HeaderStep, DevStep
<1>6. CASE Payload
  <2>1. /\ call' = call /\ UNCHANGED <<hostVars, out_ep, in_ep, executed, host>>
        /\ Receiving /\ dev.buf # <<>>
    BY <1>6 DEF Payload, hostVars, call, Received, IInv, DevOK
  <2>2. /\ dev.want + CRC \in Nat /\ Len(dev.buf) <= dev.want + CRC
    BY <1>6, Constant DEF Payload, Received, IInv, DevOK
  <2>3. DevOK' /\ dev'.buf = dev.buf
    BY <1>6, <2>1, <2>2, GotoOK DEF Payload
  <2>4. \A c : OnTheWay(c)' <= OnTheWay(c)
    BY <2>1, <2>3, LessOnTheWay
  <2>5. QED
    BY <1>1, <2>1, <2>3, <2>4, DevStep
<1>7. CASE Checked
  BY <1>7, CheckedStep
<1>8. CASE Answer
  <2>1. call' = call /\ UNCHANGED <<hostVars, out_ep, in_ep, executed, host>> /\ dev.buf # <<>>
    BY <1>8 DEF Answer, hostVars, call, IInv, DevOK
  <2>2. kinds[dev.buf[1].call].reply \in Nat
    BY <2>1, CallOf, Constant
  <2>3. SendResponse(dev.buf[1].call, kinds[dev.buf[1].call].reply, TRUE)
    BY <1>8 DEF Answer
  <2>4. DevOK' /\ ~Receiving'
    BY <2>1, <2>2, <2>3, CallOf, SendResponseOK
  <2>5. \A c : OnTheWay(c)' <= OnTheWay(c)
    BY <2>1, <2>4, LessOnTheWay
  <2>6. QED
    BY <1>1, <2>1, <2>4, <2>5, DevStep
<1>9. CASE BulkSend
  <2>1. call' = call /\ UNCHANGED <<hostVars, out_ep, executed, host>> /\ dev.pc = "send"
    BY <1>9 DEF BulkSend, hostVars, call
  <2>2. in_ep' \in Seq(AnswerBytes(call)) /\ Len(in_ep') <= BULK_EP_SIZE
    BY <1>1, <1>9, PacketOf DEF BulkSend
  <2>3. DevOK' /\ ~Receiving'
    <3>1. CASE Len(dev.reply) <= BULK_EP_SIZE
      BY <1>9, <2>1, <3>1, ReturnOK DEF BulkSend
    <3>2. CASE ~(Len(dev.reply) <= BULK_EP_SIZE)
      <4>1. dev' = [dev EXCEPT !.reply = Rest(@, BULK_EP_SIZE)] /\ dev_time' = 0
        BY <1>9, <3>2 DEF BulkSend
      <4>2. Rest(dev.reply, BULK_EP_SIZE) \in Seq(AnswerBytes(call))
        BY <1>1, RestOf, Constant
      <4>3. dev' \in [pc : {"poll", "header", "payload", "crc", "work", "send"},
                      buf : Seq(CommandBytes(call)), want : Nat,
                      reply : Seq(AnswerBytes(call))]
        BY <4>1, <4>2 DEF IInv, DevOK
      <4>4. dev'.pc = "send" /\ dev'.buf = dev.buf /\ dev'.want = dev.want
        BY <2>1, <4>1 DEF IInv, DevOK
      <4>5. Len(dev.buf) <= dev.want
        BY <2>1 DEF IInv, DevOK
      <4>6. QED
        BY <2>1, <4>1, <4>3, <4>4, <4>5, Constant DEF DevOK, Receiving
    <3>3. QED
      BY <3>1, <3>2
  <2>4. \A c : OnTheWay(c)' <= OnTheWay(c)
    BY <2>1, <2>3, LessOnTheWay
  <2>5. QED
    BY <2>1, <2>2, <2>3, <2>4, DevStep
<1>10. CASE SendTimeout
  <2>1. call' = call /\ UNCHANGED <<hostVars, out_ep, in_ep, executed, host>>
    BY <1>10 DEF SendTimeout, hostVars, call
  <2>2. DevOK' /\ ~Receiving'
    BY <1>10, <2>1, ReturnOK DEF SendTimeout
  <2>3. \A c : OnTheWay(c)' <= OnTheWay(c)
    BY <2>1, <2>2, LessOnTheWay
  <2>4. QED
    BY <1>1, <2>1, <2>2, <2>3, DevStep
<1>11. QED
  BY <1>2, <1>3, <1>4, <1>5, <1>6, <1>7, <1>8, <1>9, <1>10 DEF Firmware

-----------------------------------------------------------------------------
(* The host's steps.                                                       *)

HostPcs == {"closed", "flush", "sleep", "open", "write", "readHeader", "readRest"}

LEMMA HostGotoOK ==
  ASSUME IInv, kinds' = kinds, NEW pc \in HostPcs, NEW attempt \in 0 .. RETRIES,
         NEW left \in Seq(CommandBytes(call)), NEW rx \in Seq(AnswerBytes(call)),
         HostGoto(pc, attempt, left, rx),
         pc \in {"sleep", "write", "readHeader", "readRest"} => attempt > 0,
         attempt > 0 => call > 0, left # <<>> => pc = "write", pc = "readRest" => rx # <<>>,
         disturbed' \in BOOLEAN, abandoned' \subseteq 1 .. call, returned' \subseteq 1 .. call
  PROVE  HostOK'
<1>1. call' = call /\ READ_TIMEOUT \in Nat
  BY Constant DEF call
<1>2. host' = [pc |-> pc, attempt |-> attempt, left |-> left, rx |-> rx] /\ host_time' = 0
  BY DEF HostGoto
<1>3. kinds \in Seq(Kinds) /\ call <= MaxCalls
  BY DEF IInv, HostOK
<1>4. QED
  BY <1>1, <1>2, <1>3 DEF HostOK, HostPcs

LEMMA DevKept ==
  ASSUME IInv, UNCHANGED <<dev, dev_time, kinds>>
  PROVE  DevOK'
<1>1. call' = call
  BY DEF call
<1>2. QED
  BY <1>1 DEF IInv, DevOK

LEMMA LineKept ==
  ASSUME IInv, kinds' = kinds, out_ep' \in {out_ep, <<>>}, in_ep' \in {in_ep, <<>>}
  PROVE  LineOK' /\ FirstsLead(out_ep') /\ \A c : Starts(out_ep', c) <= Starts(out_ep, c)
<1>1. call' = call
  BY DEF call
<1>2. Len(<<>>) = 0 /\ \A S : <<>> \in Seq(S)
  BY EmptySeq
<1>3. LineOK'
  <2>1. Len(<<>>) <= BULK_EP_SIZE
    BY <1>2, Constant
  <2>2. LineOK
    BY DEF IInv
  <2>3. out_ep' \in Seq(CommandBytes(call)) /\ Len(out_ep') <= BULK_EP_SIZE
    BY <1>2, <2>1, <2>2, Zenon DEF LineOK
  <2>4. in_ep' \in Seq(AnswerBytes(call)) /\ Len(in_ep') <= BULK_EP_SIZE
    BY <1>2, <2>1, <2>2, Zenon DEF LineOK
  <2>5. QED
    BY <1>1, <2>3, <2>4 DEF LineOK
<1>4. FirstsLead(out_ep')
  BY <1>2 DEF IInv, OnceOK, FirstsLead
<1>5. QED
  BY <1>3, <1>4 DEF Starts

\* The host goes anywhere but to write.
LEMMA HostGoesOn ==
  ASSUME IInv, UNCHANGED <<devVars, kinds>>,
         out_ep' \in {out_ep, <<>>}, in_ep' \in {in_ep, <<>>},
         NEW pc \in HostPcs \ {"write"}, NEW attempt \in {0, host.attempt},
         NEW rx \in Seq(AnswerBytes(call)), HostGoto(pc, attempt, <<>>, rx),
         pc \in {"sleep", "readHeader", "readRest"} => attempt > 0,
         pc \notin {"closed", "open"} /\ attempt > 0 => InCall,
         pc = "readRest" => rx # <<>>,
         disturbed' \in BOOLEAN, abandoned' \subseteq 1 .. call, returned' \subseteq 1 .. call
  PROVE  IInv'
<1>1. <<>> \in Seq(CommandBytes(call)) /\ Len(<<>>) = 0
  BY EmptySeq
<1>2. attempt \in 0 .. RETRIES /\ (attempt > 0 => call > 0)
  BY Constant DEF IInv, HostOK
<1>3. HostOK'
  BY <1>1, <1>2, HostGotoOK
<1>4. host' = [pc |-> pc, attempt |-> attempt, left |-> <<>>, rx |-> rx]
  BY DEF HostGoto
<1>5. LineOK' /\ FirstsLead(out_ep') /\ \A c : Starts(out_ep', c) <= Starts(out_ep, c)
  BY LineKept
<1>6. DevOK'
  BY DevKept DEF devVars
<1>7. FirstsLead(host'.left) /\ \A c : Starts(host'.left, c) = 0
  BY <1>1, <1>4 DEF FirstsLead, Starts
<1>8. InCall' => host'.attempt \in host.attempt .. RETRIES /\ InCall
  BY <1>2, <1>4, Constant DEF InCall, IInv, HostOK
<1>9. \A c \in 1 .. call :
        Starts(out_ep', c) + Starts(host'.left, c) <= Starts(out_ep, c) + Starts(host.left, c)
  <2>1. \A s, c : Starts(s, c) \in Nat
    BY DEF Starts
  <2>2. QED
    BY <1>5, <1>7, <2>1
<1>10. OnceOK'
  BY <1>5, <1>7, <1>8, <1>9, HostOnce DEF devVars
<1>11. QED
  BY <1>3, <1>5, <1>6, <1>10 DEF IInv

\* A call that ends has been made.
LEMMA EndCallOK ==
  ASSUME IInv, NEW loose \in BOOLEAN, EndCall(loose)
  PROVE  abandoned' \subseteq 1 .. call
<1>1. abandoned \subseteq 1 .. call /\ (host.attempt > 0 => call > 0) /\ call \in Nat
  BY Counts DEF IInv, HostOK
<1>2. InCall => call \in 1 .. call
  BY <1>1 DEF InCall
<1>3. abandoned' = abandoned \/ (InCall /\ abandoned' = abandoned \cup {call})
  BY DEF EndCall
<1>4. QED
  BY <1>1, <1>2, <1>3

LEMMA ExceptStep ==
  ASSUME IInv, Except, disturbed' \in BOOLEAN, InCall
  PROVE  IInv'
<1>1. <<>> \in Seq(AnswerBytes(call))
  BY EmptySeq
<1>2. /\ HostGoto("flush", host.attempt, <<>>, <<>>)
      /\ UNCHANGED <<devVars, out_ep, in_ep, kinds, abandoned, returned>>
  BY DEF Except
<1>3. abandoned' \subseteq 1 .. call /\ returned' \subseteq 1 .. call
  BY <1>2 DEF IInv, HostOK
<1>4. QED
  BY <1>1, <1>2, <1>3, HostGoesOn DEF HostPcs

LEMMA RetryStep ==
  ASSUME IInv, Retry
  PROVE  IInv'
<1>1. /\ <<>> \in Seq(AnswerBytes(call)) /\ <<>> \in Seq(CommandBytes(call))
      /\ UNCHANGED <<devVars, out_ep, in_ep, kinds, disturbed, returned>>
      /\ call' = call /\ call \in Nat
  BY EmptySeq, Counts DEF Retry, call
<1>2. /\ host.pc = "sleep" /\ host.attempt \in 1 .. RETRIES /\ host.left = <<>> /\ call > 0
      /\ abandoned \subseteq 1 .. call /\ returned \subseteq 1 .. call
      /\ disturbed \in BOOLEAN /\ kinds \in Seq(Kinds)
  BY Constant DEF Retry, IInv, HostOK
<1>3. CASE host.attempt < RETRIES
  <2>1. HostGoto("write", host.attempt + 1, Message(call), <<>>) /\ abandoned' = abandoned
    BY <1>3 DEF Retry
  <2>2. /\ call \in 1 .. call /\ Message(call) \in Seq(CommandBytes(call)) /\ Message(call) # <<>>
        /\ Message(call)[1] = [call |-> call, pos |-> 1] /\ FirstsLead(Message(call))
    BY <1>1, <1>2, MessageOf
  <2>3. host.attempt + 1 \in 0 .. RETRIES /\ host.attempt + 1 > 0
    BY <1>2, <1>3, Constant
  <2>4. HostOK'
    BY <1>1, <1>2, <2>1, <2>2, <2>3, HostGotoOK DEF HostPcs
  <2>5. host' = [pc |-> "write", attempt |-> host.attempt + 1, left |-> Message(call), rx |-> <<>>]
    BY <2>1 DEF HostGoto
  <2>6. LineOK' /\ DevOK' /\ FirstsLead(out_ep') /\ FirstsLead(host'.left)
    BY <1>1, <2>2, <2>5, LineKept, DevKept DEF devVars
  <2>7. ASSUME NEW c \in 1 .. call
        PROVE  executed'[c] + OnTheWay(c)' <= Attempts(c)'
    <3>1. \A s, d : Starts(s, d) \in Nat
      BY DEF Starts
    <3>2. Starts(host.left, c) = 0 /\ Starts(host'.left, c) = IF c = call THEN 1 ELSE 0
      BY <1>2, <2>2, <2>5 DEF Starts
    <3>3. OnTheWay(c)' = OnTheWay(c) + (IF c = call THEN 1 ELSE 0)
      BY <1>1, <3>1, <3>2 DEF OnTheWay, devVars, Receiving
    <3>4. Attempts(c)' = Attempts(c) + (IF c = call THEN 1 ELSE 0)
      BY <1>1, <1>2, <2>5, Constant DEF Attempts, InCall
    <3>5. executed[c] + OnTheWay(c) <= Attempts(c) /\ executed[c] \in Nat
      BY Counts DEF IInv, OnceOK
    <3>6. OnTheWay(c) \in Nat /\ Attempts(c) \in Nat /\ executed'[c] = executed[c]
      BY <1>1, Counts, Constant DEF devVars
    <3>7. QED
      BY <3>3, <3>4, <3>5, <3>6
  <2>8. OnceOK'
    BY <1>1, <2>6, <2>7 DEF IInv, OnceOK, devVars
  <2>9. QED
    BY <2>4, <2>6, <2>8 DEF IInv
<1>4. CASE ~(host.attempt < RETRIES)
  <2>1. Close /\ EndCall(disturbed)
    BY <1>4 DEF Retry
  <2>2. abandoned' \subseteq 1 .. call
    BY <1>2, <2>1, EndCallOK
  <2>3. HostGoto("closed", 0, <<>>, <<>>)
    BY <2>1 DEF Close
  <2>4. QED
    BY <1>1, <1>2, <2>2, <2>3, HostGoesOn DEF HostPcs
<1>5. QED
  BY <1>3, <1>4

\* A new call: no byte of it can be anywhere yet.
LEMMA CallStep ==
  ASSUME IInv, Call
  PROVE  IInv'
<1>1. PICK k \in Kinds : kinds' = Append(kinds, k)
  BY DEF Call
<1>2. /\ kinds \in Seq(Kinds) /\ call \in Nat /\ host.pc = "open" /\ call < MaxCalls
      /\ host.rx \in Seq(AnswerBytes(call)) /\ host.left = <<>> /\ disturbed \in BOOLEAN
      /\ abandoned \subseteq 1 .. call /\ returned \subseteq 1 .. call
  BY Counts DEF Call, IInv, HostOK
<1>3. kinds' \in Seq(Kinds) /\ call' = call + 1
  BY <1>1, <1>2, AppendProperties DEF call
<1>4. /\ CommandBytes(call) \subseteq CommandBytes(call')
      /\ AnswerBytes(call) \subseteq AnswerBytes(call')
  BY <1>2, <1>3 DEF CommandBytes, AnswerBytes
<1>5. \A s : /\ s \in Seq(CommandBytes(call)) => s \in Seq(CommandBytes(call'))
             /\ s \in Seq(AnswerBytes(call)) => s \in Seq(AnswerBytes(call'))
  BY <1>4, SeqMonotonic
<1>6. (kinds \in Seq(Kinds) =>
        \A c \in 1 .. call :
          /\ Message(c) \in Seq(CommandBytes(call)) /\ Message(c) # <<>>
          /\ Message(c)[1] = [call |-> c, pos |-> 1] /\ FirstsLead(Message(c)))'
  BY MessageOf, PTL
<1> DEFINE m == Message(call)'
<1>7. /\ m \in Seq(CommandBytes(call')) /\ m # <<>>
      /\ m[1] = [call |-> call', pos |-> 1] /\ FirstsLead(m)
  BY <1>2, <1>3, <1>6
<1>8. /\ HostGoto("write", 1, m, host.rx)
      /\ UNCHANGED <<devVars, out_ep, in_ep, log>>
  BY DEF Call
<1> HIDE DEF m
<1>9. host' = [pc |-> "write", attempt |-> 1, left |-> m, rx |-> host.rx] /\ host_time' = 0
  BY <1>8 DEF HostGoto
<1>10. LineOK'
  BY <1>5, <1>8 DEF IInv, LineOK
<1>11. DevOK'
  <2>1. dev' \in [pc : {"poll", "header", "payload", "crc", "work", "send"},
                  buf : Seq(CommandBytes(call')), want : Nat, reply : Seq(AnswerBytes(call'))]
    BY <1>5, <1>8 DEF IInv, DevOK, devVars
  <2>2. QED
    BY <1>8, <2>1 DEF IInv, DevOK, devVars
<1>12. HostOK'
  <2>1. /\ call' <= MaxCalls /\ 1 .. call \subseteq 1 .. call' /\ call' > 0
        /\ READ_TIMEOUT \in Nat /\ 1 \in 0 .. RETRIES
    BY <1>2, <1>3, Constant
  <2>2. host' \in [pc : HostPcs, attempt : 0 .. RETRIES, left : Seq(CommandBytes(call')),
                   rx : Seq(AnswerBytes(call'))]
    BY <1>2, <1>5, <1>7, <1>9, <2>1 DEF HostPcs
  <2>3. abandoned' \subseteq 1 .. call' /\ returned' \subseteq 1 .. call' /\ disturbed' \in BOOLEAN
    BY <1>2, <1>8, <2>1 DEF log
  <2>4. QED
    BY <1>3, <1>9, <2>1, <2>2, <2>3 DEF HostOK, HostPcs
<1>13. OnceOK'
  <2>1. FirstsLead(out_ep') /\ FirstsLead(host'.left) /\ executed' = executed
    BY <1>7, <1>8, <1>9 DEF IInv, OnceOK, devVars
  <2>2. \A c \in Calls : c \notin 1 .. call' => executed'[c] = 0
    BY <1>2, <1>3, <2>1 DEF IInv, OnceOK
  <2>3. \A s, d : Starts(s, d) \in Nat
    BY DEF Starts
  <2>4. ASSUME NEW c \in 1 .. call'
        PROVE  executed'[c] + OnTheWay(c)' <= Attempts(c)'
    <3>1. CASE c = call'
      <4>1. c \notin 1 .. call /\ c \in Calls
        BY <1>2, <1>3, <3>1, Constant DEF Calls
      <4>2. executed'[c] = 0
        BY <2>1, <4>1 DEF IInv, OnceOK
      <4>3. ASSUME NEW s \in Seq(CommandBytes(call))
            PROVE  Starts(s, c) = 0
        <5>1. s # <<>> => s[1] \in CommandBytes(call)
          BY EmptySeq, ElementOfSeq
        <5>2. QED
          BY <4>1, <5>1 DEF CommandBytes, Starts
      <4>4. Starts(out_ep, c) = 0 /\ Starts(dev.buf, c) = 0
        BY <4>3 DEF IInv, LineOK, DevOK
      <4>5. Starts(m, c) = 1
        BY <1>7, <3>1 DEF Starts
      <4>6. OnTheWay(c)' = 1
        BY <1>8, <1>9, <4>4, <4>5 DEF OnTheWay, devVars, Receiving
      <4>7. Attempts(c)' = 1
        BY <1>9, <3>1 DEF Attempts, InCall
      <4>8. QED
        BY <4>2, <4>6, <4>7
    <3>2. CASE c # call'
      <4>1. c \in 1 .. call
        BY <1>2, <1>3, <3>2
      <4>2. Starts(m, c) = 0 /\ Starts(host.left, c) = 0
        BY <1>2, <1>7, <3>2 DEF Starts
      <4>3. OnTheWay(c)' = OnTheWay(c)
        BY <1>8, <1>9, <2>3, <4>2 DEF OnTheWay, devVars, Receiving
      <4>4. Attempts(c)' = RETRIES /\ Attempts(c) = RETRIES
        BY <1>2, <3>2 DEF Attempts, InCall
      <4>5. executed[c] + OnTheWay(c) <= Attempts(c)
        BY <4>1 DEF IInv, OnceOK
      <4>6. QED
        BY <2>1, <4>3, <4>4, <4>5
    <3>3. QED
      BY <3>1, <3>2
  <2>5. QED
    BY <2>1, <2>2, <2>4 DEF IInv, OnceOK
<1>14. QED
  BY <1>10, <1>11, <1>12, <1>13 DEF IInv

LEMMA UsbWriteStep ==
  ASSUME IInv, UsbWrite
  PROVE  IInv'
<1> DEFINE pc == IF Len(host.left) <= BULK_EP_SIZE THEN "readHeader" ELSE "write"
           left == Rest(host.left, BULK_EP_SIZE)
<1>1. /\ UNCHANGED <<devVars, in_ep, kinds, log>> /\ out_ep = <<>> /\ out_ep' = Packet(host.left)
      /\ HostGoto(pc, host.attempt, left, host.rx)
      /\ call' = call /\ call \in Nat
  BY Counts DEF UsbWrite, call
<1>2. /\ host.pc = "write" /\ host.attempt \in 0 .. RETRIES /\ host.attempt > 0 /\ call > 0
      /\ host.left \in Seq(CommandBytes(call)) /\ host.rx \in Seq(AnswerBytes(call))
      /\ FirstsLead(host.left) /\ disturbed \in BOOLEAN
      /\ abandoned \subseteq 1 .. call /\ returned \subseteq 1 .. call
  BY DEF UsbWrite, IInv, HostOK, OnceOK
<1>3. /\ left \in Seq(CommandBytes(call)) /\ (BULK_EP_SIZE >= Len(host.left) => left = <<>>)
      /\ FirstsLead(left) /\ \A c : Starts(left, c) = 0
  <2> DEFINE S == CommandBytes(call)
  <2>1. BULK_EP_SIZE \in Nat \ {0} /\ host.left \in Seq(S)
    BY <1>2, Constant
  <2>2. FirstsLead(left) /\ \A c : Starts(left, c) = 0
    BY <1>1, <1>2, <2>1, StartsRest
  <2> HIDE DEF S
  <2>3. left \in Seq(S) /\ (BULK_EP_SIZE >= Len(host.left) => left = <<>>)
    BY <2>1, RestOf
  <2>4. QED
    BY <2>2, <2>3 DEF S
<1>4. /\ Packet(host.left) \in Seq(CommandBytes(call)) /\ Len(Packet(host.left)) <= BULK_EP_SIZE
      /\ FirstsLead(Packet(host.left))
      /\ \A c : Starts(Packet(host.left), c) = Starts(host.left, c)
  BY <1>1, <1>2, PacketOf, StartsPacket
<1>5. pc \in HostPcs /\ (left # <<>> => pc = "write") /\ pc # "readRest"
  <2>1. Len(host.left) \in Nat
    BY <1>2, LenProperties
  <2>2. QED
    BY <1>3, <2>1, Constant DEF HostPcs
<1>6. host' = [pc |-> pc, attempt |-> host.attempt, left |-> left, rx |-> host.rx]
  BY <1>1 DEF HostGoto
<1> HIDE DEF pc, left
<1>7. HostOK'
  BY <1>1, <1>2, <1>3, <1>5, HostGotoOK DEF log
<1>8. LineOK' /\ FirstsLead(out_ep')
  BY <1>1, <1>4 DEF IInv, LineOK
<1>9. DevOK'
  BY <1>1, DevKept DEF devVars
<1>10. OnceOK'
  <2>1. FirstsLead(host'.left)
    BY <1>3, <1>6
  <2>2. \A c : Starts(out_ep', c) + Starts(host'.left, c) <= Starts(out_ep, c) + Starts(host.left, c)
    <3>1. \A s, c : Starts(s, c) \in Nat
      BY DEF Starts
    <3>2. \A c : Starts(out_ep', c) = Starts(host.left, c) /\ Starts(host'.left, c) = 0
      BY <1>1, <1>3, <1>4, <1>6
    <3>3. QED
      BY <3>1, <3>2
  <2>3. host'.attempt \in host.attempt .. RETRIES /\ InCall
    BY <1>2, <1>6, Constant DEF InCall
  <2>4. QED
    BY <1>1, <1>8, <2>1, <2>2, <2>3, HostOnce DEF devVars
<1>11. QED
  BY <1>7, <1>8, <1>9, <1>10 DEF IInv

LEMMA UsbReadStep ==
  ASSUME IInv, UsbRead
  PROVE  IInv'
<1>1. /\ host' = [host EXCEPT !.rx = @ \o in_ep] /\ in_ep' = <<>> /\ in_ep # <<>>
      /\ UNCHANGED <<devVars, out_ep, kinds, host_time, log>> /\ call' = call
  BY DEF UsbRead, call
<1>2. host.rx \in Seq(AnswerBytes(call)) /\ in_ep \in Seq(AnswerBytes(call))
  BY DEF IInv, HostOK, LineOK
<1>3. host.rx \o in_ep \in Seq(AnswerBytes(call)) /\ host.rx \o in_ep # <<>>
  BY <1>1, <1>2, ConcatProperties, ConcatEqualIffEmpty
<1>4. /\ host'.pc = host.pc /\ host'.attempt = host.attempt /\ host'.left = host.left
      /\ host'.rx # <<>>
      /\ host' \in [pc : HostPcs, attempt : 0 .. RETRIES, left : Seq(CommandBytes(call)),
                    rx : Seq(AnswerBytes(call))]
  BY <1>1, <1>3 DEF IInv, HostOK, HostPcs
<1>5. HostOK'
  BY <1>1, <1>4 DEF IInv, HostOK, HostPcs, log
<1>6. LineOK' /\ FirstsLead(out_ep')
  BY <1>1, LineKept
<1>7. DevOK'
  BY <1>1, DevKept DEF devVars
<1>8. OnceOK'
  <2>1. FirstsLead(host'.left)
    BY <1>4 DEF IInv, OnceOK
  <2>2. \A c : Starts(out_ep', c) + Starts(host'.left, c) <= Starts(out_ep, c) + Starts(host.left, c)
    BY <1>1, <1>4 DEF Starts
  <2>3. InCall' => host'.attempt \in host.attempt .. RETRIES /\ InCall
    BY <1>4, Constant DEF InCall, IInv, HostOK
  <2>4. QED
    BY <1>1, <1>6, <2>1, <2>2, <2>3, HostOnce DEF devVars
<1>9. QED
  BY <1>5, <1>6, <1>7, <1>8 DEF IInv

\* A step that leaves the host's state and the banks, but for an emptied one.
LEMMA IdleStep ==
  ASSUME IInv, UNCHANGED <<kinds, host, dev, executed, log>>, out_ep' = out_ep,
         in_ep' \in {in_ep, <<>>}, host_time' \in 0 .. READ_TIMEOUT,
         dev_time' \in 0 .. IF dev.pc = "work" THEN MaxWork ELSE DEV_TIMEOUT
  PROVE  IInv'
<1>1. call' = call
  BY DEF call
<1>2. LineOK' /\ FirstsLead(out_ep')
  BY LineKept
<1>3. DevOK'
  BY <1>1 DEF IInv, DevOK
<1>4. HostOK'
  BY <1>1 DEF IInv, HostOK, log
<1>5. OnceOK'
  <2>1. FirstsLead(host'.left)
    BY DEF IInv, OnceOK
  <2>2. \A c : Starts(out_ep', c) + Starts(host'.left, c) <= Starts(out_ep, c) + Starts(host.left, c)
    BY DEF Starts
  <2>3. InCall' => host'.attempt \in host.attempt .. RETRIES /\ InCall
    BY Constant DEF InCall, IInv, HostOK
  <2>4. QED
    BY <1>2, <2>1, <2>2, <2>3, HostOnce
<1>6. QED
  BY <1>2, <1>3, <1>4, <1>5 DEF IInv

LEMMA RecvRestStep ==
  ASSUME IInv, RecvRest
  PROVE  IInv'
<1>1. /\ host.pc = "readRest" /\ host.attempt > 0 /\ call \in 1 .. call /\ host.rx # <<>>
      /\ host.rx \in Seq(AnswerBytes(call)) /\ disturbed \in BOOLEAN
      /\ returned \subseteq 1 .. call /\ InCall
  <2>1. HostOK /\ host.pc = "readRest"
    BY DEF RecvRest, IInv
  <2>2. host.attempt > 0 /\ call > 0 /\ call \in Nat /\ host.rx # <<>>
    BY <2>1, Counts DEF HostOK
  <2>3. QED
    BY <2>1, <2>2 DEF HostOK, InCall
<1>2. CASE \A p \in 1 .. Wanted : host.rx[p] = [host.rx[1] EXCEPT !.pos = p]
  <2>1. abandoned' \subseteq 1 .. call
    BY <1>1, <1>2, EndCallOK DEF RecvRest
  <2>2. UNCHANGED <<devVars, out_ep, in_ep, kinds, disturbed>>
    BY <1>2 DEF RecvRest
  <2>3. CASE host.rx[1].good
    <3>1. /\ HostGoto("open", host.attempt, <<>>, Rest(host.rx, Wanted))
          /\ returned' = returned \cup {call}
      BY <1>2, <2>3 DEF RecvRest
    <3>2. Wanted \in Nat
      <4>1. host.rx[1] \in AnswerBytes(call)
        BY <1>1, EmptySeq, ElementOfSeq
      <4>2. QED
        BY <1>1, <4>1 DEF Wanted, AnswerBytes
    <3>3. Rest(host.rx, Wanted) \in Seq(AnswerBytes(call))
      BY <1>1, <3>2, RestOf
    <3>4. returned' \subseteq 1 .. call
      BY <1>1, <3>1
    <3>5. QED
      BY <1>1, <2>1, <2>2, <3>1, <3>3, <3>4, HostGoesOn DEF HostPcs
  <2>4. CASE ~host.rx[1].good
    <3>1. HostGoto("closed", 0, <<>>, <<>>) /\ returned' = returned
      BY <1>2, <2>4 DEF RecvRest, Close
    <3>2. <<>> \in Seq(AnswerBytes(call))
      BY EmptySeq
    <3>3. QED
      BY <1>1, <2>1, <2>2, <3>1, <3>2, HostGoesOn DEF HostPcs
  <2>5. QED
    BY <2>3, <2>4
<1>3. CASE ~(\A p \in 1 .. Wanted : host.rx[p] = [host.rx[1] EXCEPT !.pos = p])
  BY <1>1, <1>3, ExceptStep DEF RecvRest
<1>4. QED
  BY <1>2, <1>3

LEMMA RecvHeaderStep ==
  ASSUME IInv, RecvHeader
  PROVE  IInv'
<1>1. /\ host.pc = "readHeader" /\ host.attempt > 0
      /\ host.rx \in Seq(AnswerBytes(call)) /\ disturbed \in BOOLEAN /\ InCall
      /\ abandoned \subseteq 1 .. call /\ returned \subseteq 1 .. call
  BY Constant DEF RecvHeader, IInv, HostOK, InCall
<1>2. CASE host.rx[1].pos = 1
  <2>1. /\ HostGoto("readRest", host.attempt, <<>>, host.rx)
        /\ UNCHANGED <<devVars, out_ep, in_ep, kinds, log>>
    BY <1>2 DEF RecvHeader
  <2>2. host.rx # <<>>
    <3>1. ~(Len(host.rx) < RHEADER)
      BY <1>1 DEF RecvHeader, Short, Reading, Wanted
    <3>2. Len(<<>>) = 0
      BY EmptySeq
    <3>3. QED
      BY <3>1, <3>2, Constant
  <2>3. QED
    BY <1>1, <2>1, <2>2, HostGoesOn DEF HostPcs, log
<1>3. CASE host.rx[1].pos # 1
  BY <1>1, <1>3, ExceptStep DEF RecvHeader
<1>4. QED
  BY <1>2, <1>3

LEMMA UnplugStep ==
  ASSUME IInv, Unplug
  PROVE  IInv'
<1>1. /\ Return /\ HostGoto("closed", 0, <<>>, <<>>) /\ out_ep' = <<>> /\ in_ep' = <<>>
      /\ EndCall(TRUE) /\ UNCHANGED <<executed, kinds, disturbed, returned>> /\ call' = call
  BY DEF Unplug, Close, call
<1>2. Len(<<>>) = 0 /\ \A S : <<>> \in Seq(S)
  BY EmptySeq
<1>3. DevOK' /\ ~Receiving'
  BY <1>1, ReturnOK
<1>4. LineOK' /\ FirstsLead(out_ep')
  BY <1>1, LineKept
<1>5. HostOK'
  <2>1. abandoned' \subseteq 1 .. call
    BY <1>1, EndCallOK
  <2>2. disturbed' \in BOOLEAN /\ returned' \subseteq 1 .. call
    BY <1>1 DEF IInv, HostOK
  <2>3. QED
    <3>1. 0 \in 0 .. RETRIES /\ ~(0 > 0)
      BY Constant
    <3>2. QED
      BY <1>1, <1>2, <2>1, <2>2, <3>1, HostGotoOK DEF HostPcs
<1>6. OnceOK'
  <2>1. host' = [pc |-> "closed", attempt |-> 0, left |-> <<>>, rx |-> <<>>]
    BY <1>1 DEF HostGoto
  <2>2. FirstsLead(host'.left)
    BY <1>2, <2>1 DEF FirstsLead
  <2>3. \A c : OnTheWay(c)' = 0
    BY <1>1, <1>3, <2>1 DEF OnTheWay, Starts
  <2>4. \A c : Attempts(c)' = RETRIES
    BY <2>1 DEF Attempts, InCall
  <2>5. QED
    BY <1>1, <1>4, <2>2, <2>3, <2>4, Counts, OnceStep, Constant
<1>7. QED
  BY <1>3, <1>4, <1>5, <1>6 DEF IInv

LEMMA TransactStep ==
  ASSUME IInv, Transact
  PROVE  IInv'
<1>1. /\ <<>> \in Seq(AnswerBytes(call)) /\ disturbed \in BOOLEAN
      /\ abandoned \subseteq 1 .. call /\ returned \subseteq 1 .. call
      /\ 0 \in 0 .. READ_TIMEOUT
      /\ dev_time \in 0 .. IF dev.pc = "work" THEN MaxWork ELSE DEV_TIMEOUT
  BY EmptySeq, Constant DEF IInv, HostOK, DevOK
<1>2. CASE FlushRead
  BY <1>1, <1>2, IdleStep DEF FlushRead, devVars
<1>3. CASE FlushEnd
  <2>1. /\ HostGoto(IF InCall THEN "sleep" ELSE "open", host.attempt, <<>>, <<>>)
        /\ UNCHANGED <<devVars, out_ep, in_ep, kinds, log>>
    BY <1>3 DEF FlushEnd
  <2>2. InCall => host.attempt > 0
    BY DEF InCall
  <2>3. QED
    BY <1>1, <2>1, <2>2, HostGoesOn DEF HostPcs, log
<1>4. CASE Retry
  BY <1>4, RetryStep
<1>5. CASE UsbWrite
  BY <1>5, UsbWriteStep
<1>6. CASE UsbRead
  BY <1>6, UsbReadStep
<1>7. CASE WriteTimeout
  <2>1. InCall
    BY <1>7 DEF WriteTimeout, InCall, IInv, HostOK
  <2>2. QED
    BY <1>1, <1>7, <2>1, ExceptStep DEF WriteTimeout
<1>8. CASE ReadTimeout
  <2>1. InCall
    BY <1>8 DEF ReadTimeout, Short, Reading, InCall, IInv, HostOK
  <2>2. QED
    BY <1>1, <1>8, <2>1, ExceptStep DEF ReadTimeout
<1>9. CASE RecvHeader
  BY <1>9, RecvHeaderStep
<1>10. CASE RecvRest
  BY <1>10, RecvRestStep
<1>11. QED
  BY <1>2, <1>3, <1>4, <1>5, <1>6, <1>7, <1>8, <1>9, <1>10 DEF Transact

LEMMA UserStep ==
  ASSUME IInv, User
  PROVE  IInv'
<1>1. /\ <<>> \in Seq(AnswerBytes(call)) /\ disturbed \in BOOLEAN
      /\ abandoned \subseteq 1 .. call /\ returned \subseteq 1 .. call
  BY EmptySeq DEF IInv, HostOK
<1>2. CASE Open
  <2>1. /\ HostGoto("flush", 0, <<>>, <<>>) /\ disturbed' \in BOOLEAN
        /\ UNCHANGED <<devVars, kinds, abandoned, returned>>
    BY <1>2 DEF Open
  <2>2. out_ep' \in {out_ep, <<>>} /\ in_ep' \in {in_ep, <<>>}
    BY <1>2 DEF Open
  <2>3. "flush" \in HostPcs \ {"write"} /\ 0 \in {0, host.attempt} /\ ~(0 > 0)
    BY DEF HostPcs
  <2>4. abandoned' \subseteq 1 .. call /\ returned' \subseteq 1 .. call
    BY <1>1, <2>1
  <2>5. QED
    BY <1>1, <2>1, <2>2, <2>3, <2>4, HostGoesOn
<1>3. CASE Call
  BY <1>3, CallStep
<1>4. CASE UsbError
  <2>1. InCall
    BY <1>4 DEF UsbError, Short, Reading, InCall, IInv, HostOK
  <2>2. Except /\ disturbed' \in BOOLEAN
    BY <1>4 DEF UsbError
  <2>3. QED
    BY <2>1, <2>2, ExceptStep
<1>5. CASE Exit
  <2>1. /\ HostGoto("closed", 0, <<>>, <<>>)
        /\ UNCHANGED <<devVars, out_ep, in_ep, kinds, disturbed, returned>>
    BY <1>5 DEF Exit, Close
  <2>2. abandoned' \subseteq 1 .. call
    BY <1>5, EndCallOK DEF Exit
  <2>3. QED
    BY <1>1, <2>1, <2>2, HostGoesOn DEF HostPcs
<1>6. CASE Unplug
  BY <1>6, UnplugStep
<1>7. QED
  BY <1>2, <1>3, <1>4, <1>5, <1>6 DEF User

LEMMA TickStep ==
  ASSUME IInv, Tick
  PROVE  IInv'
<1>1. /\ UNCHANGED <<kinds, out_ep, in_ep, dev, host, log, executed>>
      /\ host_time \in 0 .. READ_TIMEOUT
      /\ dev_time \in 0 .. IF dev.pc = "work" THEN MaxWork ELSE DEV_TIMEOUT
  BY DEF Tick, IInv, HostOK, DevOK
<1>2. host_time' \in 0 .. READ_TIMEOUT
  BY <1>1, Constant DEF Tick, Least
<1>3. dev_time' \in 0 .. IF dev.pc = "work" THEN MaxWork ELSE DEV_TIMEOUT
  <2>1. CASE Waits /\ dev_time < DEV_TIMEOUT /\ dev_time' = dev_time + 1
    <3>1. dev.pc # "work"
      BY <2>1 DEF Waits, Receiving
    <3>2. QED
      BY <1>1, <2>1, <3>1, Constant
  <2>2. CASE dev.pc = "work" /\ dev_time > 0 /\ dev_time' = dev_time - 1
    BY <1>1, <2>2, Constant
  <2>3. CASE dev_time' = dev_time
    BY <1>1, <2>3
  <2>4. QED
    BY <2>1, <2>2, <2>3 DEF Tick
<1>4. QED
  BY <1>1, <1>2, <1>3, IdleStep

-----------------------------------------------------------------------------
(* The theorems.                                                           *)

LEMMA InitOK == Init => IInv
<1> SUFFICES ASSUME Init PROVE IInv
  OBVIOUS
<1>1. Len(<<>>) = 0 /\ \A S : <<>> \in Seq(S)
  BY EmptySeq
<1>2. call = 0
  BY <1>1 DEF Init, call
<1>3. LineOK /\ DevOK
  BY <1>1, Constant DEF Init, LineOK, DevOK
<1>4. HostOK
  <2>1. host = [pc |-> "closed", attempt |-> 0, left |-> <<>>, rx |-> <<>>]
    BY DEF Init
  <2>2. host \in [pc : {"closed", "flush", "sleep", "open", "write", "readHeader", "readRest"},
                  attempt : 0 .. RETRIES, left : Seq(CommandBytes(call)),
                  rx : Seq(AnswerBytes(call))]
    BY <1>1, <2>1, Constant
  <2>3. kinds \in Seq(Kinds) /\ call <= MaxCalls /\ host_time \in 0 .. READ_TIMEOUT
    BY <1>1, <1>2, Constant DEF Init
  <2>4. disturbed \in BOOLEAN /\ abandoned \subseteq 1 .. call /\ returned \subseteq 1 .. call
    BY DEF Init
  <2>5. QED
    BY <2>1, <2>2, <2>3, <2>4 DEF HostOK
<1>5. OnceOK
  BY <1>1, <1>2 DEF Init, OnceOK, FirstsLead
<1>6. QED
  BY <1>3, <1>4, <1>5 DEF IInv

LEMMA StepOK == IInv /\ [Next]_vars => IInv'
<1> SUFFICES ASSUME IInv, [Next]_vars PROVE IInv'
  OBVIOUS
<1>1. CASE UNCHANGED vars
  <2>1. host_time \in 0 .. READ_TIMEOUT
    BY DEF IInv, HostOK
  <2>2. dev_time \in 0 .. IF dev.pc = "work" THEN MaxWork ELSE DEV_TIMEOUT
    BY DEF IInv, DevOK
  <2>3. QED
    BY <1>1, <2>1, <2>2, IdleStep DEF vars, log
<1>2. QED
  BY <1>1, FirmwareStep, TransactStep, UserStep, TickStep DEF Next

\* No call's command is carried out more often than the call has tried, in the
\* middle of a call as after its end, in disturbed sessions and undisturbed ones; and
\* the firmware carries out nothing that the host has not sent (meggy_flash.py:181).
ExecutedOnRequest ==
  /\ \A c \in 1 .. call : executed[c] <= Attempts(c)
  /\ \A c \in Calls : c \notin 1 .. call => executed[c] = 0

THEOREM OncePerAttempt == Spec => []ExecutedOnRequest
<1>1. IInv => ExecutedOnRequest
  <2> SUFFICES ASSUME IInv, NEW c \in 1 .. call PROVE executed[c] <= Attempts(c)
    BY DEF ExecutedOnRequest, IInv, OnceOK
  <2>1. executed[c] \in Nat /\ executed[c] + OnTheWay(c) <= Attempts(c)
    BY Counts DEF IInv, OnceOK
  <2>2. OnTheWay(c) \in Nat /\ Attempts(c) \in 0 .. RETRIES
    BY Counts
  <2>3. QED
    BY <2>1, <2>2, Constant
<1>2. QED
  BY <1>1, InitOK, StepOK, PTL DEF Spec

\* The variables keep their types: bulk_recv() never stores more bytes than it was
\* asked for (protocol.c:88), the banks hold a packet at most, every wait of the
\* firmware's ends, and no call is carried out more than RETRIES times.
THEOREM TransportTypeCorrect == Spec => []TypeOK
<1>1. IInv => TypeOK
  <2> SUFFICES ASSUME IInv PROVE TypeOK
    OBVIOUS
  <2>1. ASSUME NEW c \in Calls
        PROVE  executed[c] \in 0 .. RETRIES
    <3>1. CASE c \in 1 .. call
      <4>1. /\ executed[c] \in Nat /\ OnTheWay(c) \in Nat /\ Attempts(c) \in 0 .. RETRIES
            /\ executed[c] + OnTheWay(c) <= Attempts(c)
        BY <3>1, Counts DEF IInv, OnceOK
      <4>2. QED
        BY <4>1, Constant
    <3>2. CASE c \notin 1 .. call
      BY <3>2, Constant DEF IInv, OnceOK
    <3>3. QED
      BY <3>1, <3>2
  <2>2. executed \in [Calls -> 0 .. RETRIES]
    BY <2>1 DEF IInv, OnceOK
  <2>3. QED
    BY <2>2 DEF IInv, LineOK, DevOK, HostOK, TypeOK
<1>2. QED
  BY <1>1, InitOK, StepOK, PTL DEF Spec
-----------------------------------------------------------------------------
(* An undisturbed session.  Each side is in one of a few phases, and where *)
(* the framing is lost the clocks bound what is left to happen: the        *)
(* firmware owes the host at most a wait for each header's length of bytes *)
(* that the bank holds, and the host's deadline is later than that.        *)

\* Bytes n + 1, n + 2, ... of a message.
Piece(s, n, message) == \A p \in 1 .. Len(s) : s[p] = message[n + p]
ToSend == IF dev.pc = "send" THEN dev.reply ELSE <<>>

\* The firmware reads nothing, and nothing is there for it to read.
Quiet == dev.pc \in {"poll", "send"} /\ out_ep = <<>>
Flushing ==
  /\ host.pc = "flush" /\ Quiet
  /\ dev.pc = "send" /\ in_ep = <<>> => host_time = 0
Clean == host.pc \in {"sleep", "open"} /\ LineClean

\* The command is between the two, whole and in order.
Coming ==
  /\ host.pc \in {"write", "readHeader"} /\ dev.pc \in {"poll", "header", "payload", "crc"}
  /\ in_ep = <<>> /\ host.rx = <<>> /\ (host.pc = "write" => host.left # <<>>)
  /\ Piece(dev.buf, 0, Message(call)) /\ Piece(out_ep, Len(dev.buf), Message(call))
  /\ Piece(host.left, Len(dev.buf) + Len(out_ep), Message(call))
  /\ Len(dev.buf) + Len(out_ep) + Len(host.left) = CommandSize(kinds[call])
  /\ dev.pc # "poll" \/ out_ep # <<>> => Len(dev.buf) + Len(out_ep) >= HEADER
  /\ dev.pc = "payload" =>
       kinds[call].send > 0 /\ dev.want = HEADER + WORD * kinds[call].send
  /\ dev.pc = "crc" => dev.want = CommandSize(kinds[call])
  /\ host.pc = "readHeader" \/ out_ep # <<>> => host_time = 0
Working ==
  /\ host.pc = "readHeader" /\ dev.pc = "work"
  /\ out_ep = <<>> /\ in_ep = <<>> /\ host.rx = <<>>
  /\ dev.buf[1].call = call /\ executed[call] > 0
  /\ host_time + dev_time <= MaxWork

\* What is left of the answer when the firmware gave up sending it is its beginning.
Good == Reply(call, kinds[call].reply, TRUE)
Answered ==
  /\ Reading /\ Quiet /\ executed[call] > 0
  /\ Piece(host.rx, 0, Good) /\ Piece(in_ep, Len(host.rx), Good)
  /\ Piece(ToSend, Len(host.rx) + Len(in_ep), Good)
  /\ Len(host.rx) + Len(in_ep) + Len(ToSend) <= Len(Good)

\* The firmware gave up in the middle of a command: it reads the rest as headers.
Sorry == Reply(call, 0, FALSE)
Middle == Seq([call : {call}, pos : Nat \ {0, 1}])
Held ==
  Len(out_ep) + CASE dev.pc = "header" -> Len(dev.buf)
                  [] dev.pc \in {"payload", "crc"} -> HEADER
                  [] OTHER -> 0
Debt ==
  DEV_TIMEOUT * Held
  + IF dev.pc = "send" THEN HEADER * (DEV_TIMEOUT - dev_time) ELSE 0
NextWait ==
  DEV_TIMEOUT - IF Receiving /\ ~Received /\ out_ep = <<>> THEN dev_time ELSE 0
InTime ==
  /\ host.pc = "write" /\ out_ep # <<>> =>
       HEADER * host_time + Debt <= DEV_TIMEOUT * (HEADER + BULK_EP_SIZE)
  /\ host.pc = "readHeader" /\ host.rx = <<>> /\ ~Quiet =>
       HEADER * host_time + Debt + HEADER * NextWait
         <= DEV_TIMEOUT * (HEADER + HEADER + BULK_EP_SIZE)
Lost ==
  /\ host.pc \in {"write", "readHeader", "readRest"} /\ dev.pc # "work"
  /\ out_ep \in Middle /\ host.left \in Middle /\ (Receiving => dev.buf \in Middle)
  /\ host.rx \in {<<>>, Sorry} /\ in_ep \in {<<>>, Sorry}
  /\ dev.pc = "send" => dev.reply = Sorry
  /\ host.pc = "write" => host.rx = <<>>
  /\ host.pc = "readRest" => host.rx = Sorry
  /\ host.rx = <<>> /\ in_ep = <<>> => dev.pc = "send"
  /\ InTime

Undisturbed ==
  \/ host.pc = "closed" \/ Flushing \/ Clean
  \/ Coming \/ Working \/ Answered \/ Lost
SendsOK == dev.pc = "send" => dev.reply # <<>>
CalmOK == SendsOK /\ (disturbed \/ Undisturbed)

\* Pieces of a message, cut and joined.
LEMMA SplitOf ==
  ASSUME NEW S, NEW s \in Seq(S)
  PROVE  /\ Packet(s) \in Seq(S) /\ Rest(s, BULK_EP_SIZE) \in Seq(S)
         /\ Len(Packet(s)) + Len(Rest(s, BULK_EP_SIZE)) = Len(s)
         /\ Len(Packet(s)) = Least(BULK_EP_SIZE, Len(s))
         /\ Len(s) > BULK_EP_SIZE => Rest(s, BULK_EP_SIZE) # <<>>
         /\ Len(s) <= BULK_EP_SIZE => Rest(s, BULK_EP_SIZE) = <<>> /\ Packet(s) = s
         /\ \A n \in Nat : \A m : Piece(s, n, m) =>
              /\ Piece(Packet(s), n, m)
              /\ Piece(Rest(s, BULK_EP_SIZE), n + Len(Packet(s)), m)
<1> DEFINE k == Least(BULK_EP_SIZE, Len(s))
           r == Rest(s, BULK_EP_SIZE)
<1>1. Len(s) \in Nat /\ BULK_EP_SIZE \in Nat \ {0}
  BY LenProperties, Constant
<1>2. k \in Nat /\ k <= Len(s) /\ k <= BULK_EP_SIZE /\ (k = Len(s) \/ k = BULK_EP_SIZE)
  BY <1>1 DEF Least
<1>3. /\ Packet(s) \in Seq(S) /\ Len(Packet(s)) = k
      /\ \A i \in 1 .. k : Packet(s)[i] = s[i]
  <2> HIDE DEF k
  <2>1. /\ SubSeq(s, 1, k) \in Seq(S) /\ Len(SubSeq(s, 1, k)) = k
        /\ \A i \in 1 .. k : SubSeq(s, 1, k)[i] = s[i]
    BY <1>2, FirstOf
  <2>2. Packet(s) = SubSeq(s, 1, k)
    BY DEF Packet, k
  <2>3. QED
    BY <2>1, <2>2
<1>4. /\ r \in Seq(S)
      /\ BULK_EP_SIZE <= Len(s) => Len(r) = Len(s) - BULK_EP_SIZE
      /\ BULK_EP_SIZE >= Len(s) => r = <<>>
      /\ \A i \in 1 .. Len(s) - BULK_EP_SIZE : r[i] = s[BULK_EP_SIZE + i]
  BY <1>1, RestOf
<1> HIDE DEF r
<1>5. Len(r) \in Nat /\ Len(<<>>) = 0
  BY <1>4, LenProperties, EmptySeq
<1>6. Len(Packet(s)) + Len(r) = Len(s) /\ (Len(s) > BULK_EP_SIZE => r # <<>>)
  BY <1>1, <1>2, <1>3, <1>4, <1>5
<1>7. Len(s) <= BULK_EP_SIZE => Packet(s) = s
  <2> SUFFICES ASSUME Len(s) <= BULK_EP_SIZE PROVE Packet(s) = s
    OBVIOUS
  <2>1. Len(Packet(s)) = Len(s) /\ \A i \in 1 .. Len(s) : Packet(s)[i] = s[i]
    BY <1>1, <1>2, <1>3
  <2>2. QED
    BY <1>3, <2>1, SeqEqual
<1>8. ASSUME NEW n \in Nat, NEW m, Piece(s, n, m)
      PROVE  Piece(Packet(s), n, m) /\ Piece(r, n + Len(Packet(s)), m)
  <2>1. Piece(Packet(s), n, m)
    BY <1>1, <1>2, <1>3, <1>8 DEF Piece
  <2>2. ASSUME NEW i \in 1 .. Len(r)
        PROVE  r[i] = m[n + Len(Packet(s)) + i]
    <3>1. k = BULK_EP_SIZE /\ i \in 1 .. Len(s) - BULK_EP_SIZE
      BY <1>1, <1>2, <1>4, <1>5
    <3>2. BULK_EP_SIZE + i \in 1 .. Len(s)
      BY <1>1, <3>1
    <3>3. r[i] = m[n + (BULK_EP_SIZE + i)]
      BY <1>4, <1>8, <3>1, <3>2 DEF Piece
    <3>4. n + (BULK_EP_SIZE + i) = n + Len(Packet(s)) + i
      BY <1>1, <1>3, <3>1
    <3>5. QED
      BY <3>3, <3>4
  <2>3. QED
    BY <2>1, <2>2 DEF Piece
<1>9. QED
  BY <1>3, <1>4, <1>6, <1>7, <1>8 DEF r, k

\* bulk_recv() takes l bytes of t to those it has, s.
LEMMA TakenOf ==
  ASSUME NEW S, NEW s \in Seq(S), NEW t \in Seq(S), NEW l \in Nat, l <= Len(t)
  PROVE  /\ s \o SubSeq(t, 1, l) \in Seq(S) /\ Rest(t, l) \in Seq(S)
         /\ Len(s \o SubSeq(t, 1, l)) = Len(s) + l /\ Len(Rest(t, l)) = Len(t) - l
         /\ \A n \in Nat : \A m : Piece(s, n, m) /\ Piece(t, n + Len(s), m) =>
              /\ Piece(s \o SubSeq(t, 1, l), n, m)
              /\ Piece(Rest(t, l), n + Len(s) + l, m)
<1> DEFINE u == SubSeq(t, 1, l)
           r == Rest(t, l)
<1>1. Len(s) \in Nat /\ Len(t) \in Nat
  BY LenProperties
<1>2. u \in Seq(S) /\ Len(u) = l /\ \A i \in 1 .. l : u[i] = t[i]
  BY FirstOf
<1>3. /\ r \in Seq(S) /\ Len(r) = Len(t) - l
      /\ \A i \in 1 .. Len(t) - l : r[i] = t[l + i]
  BY RestOf
<1> HIDE DEF u, r
<1>4. /\ s \o u \in Seq(S) /\ Len(s \o u) = Len(s) + Len(u)
      /\ \A i \in 1 .. Len(s) + Len(u) : (s \o u)[i] = IF i <= Len(s) THEN s[i] ELSE u[i - Len(s)]
  BY <1>2, ConcatProperties
<1>5. ASSUME NEW n \in Nat, NEW m, Piece(s, n, m), Piece(t, n + Len(s), m)
      PROVE  Piece(s \o u, n, m) /\ Piece(r, n + Len(s) + l, m)
  <2>1. ASSUME NEW i \in 1 .. Len(s) + l
        PROVE  (s \o u)[i] = m[n + i]
    <3>1. CASE i <= Len(s)
      BY <1>1, <1>2, <1>4, <1>5, <3>1 DEF Piece
    <3>2. CASE ~(i <= Len(s))
      <4>1. i - Len(s) \in 1 .. l /\ i - Len(s) \in 1 .. Len(t)
        BY <1>1, <3>2
      <4>2. (s \o u)[i] = t[i - Len(s)]
        BY <1>2, <1>4, <3>2, <4>1
      <4>3. t[i - Len(s)] = m[n + Len(s) + (i - Len(s))]
        BY <1>5, <4>1 DEF Piece
      <4>4. n + Len(s) + (i - Len(s)) = n + i
        BY <1>1
      <4>5. QED
        BY <4>2, <4>3, <4>4
    <3>3. QED
      BY <3>1, <3>2
  <2>2. ASSUME NEW i \in 1 .. Len(r)
        PROVE  r[i] = m[n + Len(s) + l + i]
    <3>1. l + i \in 1 .. Len(t) /\ i \in 1 .. Len(t) - l
      BY <1>1, <1>3
    <3>2. r[i] = m[n + Len(s) + (l + i)]
      BY <1>3, <1>5, <3>1 DEF Piece
    <3>3. n + Len(s) + (l + i) = n + Len(s) + l + i
      BY <1>1
    <3>4. QED
      BY <3>2, <3>3
  <2>3. QED
    BY <1>2, <1>4, <2>1, <2>2 DEF Piece
<1>6. QED
  BY <1>2, <1>3, <1>4, <1>5 DEF u, r

\* _rxbuf takes all of the packet t.
LEMMA JoinedOf ==
  ASSUME NEW S, NEW s \in Seq(S), NEW t \in Seq(S)
  PROVE  /\ s \o t \in Seq(S) /\ Len(s \o t) = Len(s) + Len(t)
         /\ s = <<>> => s \o t = t
         /\ \A n \in Nat : \A m : Piece(s, n, m) /\ Piece(t, n + Len(s), m) => Piece(s \o t, n, m)
<1>1. Len(s) \in Nat /\ Len(t) \in Nat
  BY LenProperties
<1>2. SubSeq(t, 1, Len(t)) = t
  <2>1. /\ SubSeq(t, 1, Len(t)) \in Seq(S) /\ Len(SubSeq(t, 1, Len(t))) = Len(t)
        /\ \A i \in 1 .. Len(t) : SubSeq(t, 1, Len(t))[i] = t[i]
    BY <1>1, FirstOf
  <2>2. QED
    BY <2>1, SeqEqual
<1>3. /\ s \o SubSeq(t, 1, Len(t)) \in Seq(S)
      /\ Len(s \o SubSeq(t, 1, Len(t))) = Len(s) + Len(t)
      /\ \A n \in Nat : \A m : Piece(s, n, m) /\ Piece(t, n + Len(s), m) =>
           Piece(s \o SubSeq(t, 1, Len(t)), n, m)
  <2>1. PICK l \in Nat : l = Len(t) /\ l <= Len(t)
    BY <1>1
  <2>2. s \o SubSeq(t, 1, l) \in Seq(S) /\ Len(s \o SubSeq(t, 1, l)) = Len(s) + l
    BY <2>1, TakenOf
  <2>3. ASSUME NEW n \in Nat, NEW m, Piece(s, n, m), Piece(t, n + Len(s), m)
        PROVE  Piece(s \o SubSeq(t, 1, l), n, m)
    BY <2>1, <2>3, TakenOf
  <2>4. QED
    BY <2>1, <2>2, <2>3
<1>4. s = <<>> => s \o t = t
  BY ConcatEmptySeq
<1>5. QED
  BY <1>2, <1>3, <1>4

\* The messages are what they are.
LEMMA WholeMessage ==
  ASSUME IInv, NEW c \in 1 .. call
  PROVE  /\ kinds[c] \in Kinds /\ CommandSize(kinds[c]) \in Nat
         /\ HEADER + CRC <= CommandSize(kinds[c])
         /\ kinds[c].send \in Nat /\ WORD * kinds[c].send \in Nat
         /\ CommandSize(kinds[c]) = HEADER + WORD * kinds[c].send + CRC
         /\ kinds[c].send = 0 => CommandSize(kinds[c]) = HEADER + CRC
         /\ Message(c) \in Seq(CommandBytes(call)) /\ Len(Message(c)) = CommandSize(kinds[c])
         /\ \A p \in 1 .. CommandSize(kinds[c]) : Message(c)[p] = [call |-> c, pos |-> p]
<1>1. kinds \in Seq(Kinds) /\ kinds[c] \in Kinds
  BY ElementOfSeq DEF call, IInv, HostOK
<1>2. kinds[c].send \in Nat
  BY <1>1, Constant
<1>3. PICK w \in Nat : w = WORD * kinds[c].send /\ (kinds[c].send = 0 => w = 0)
  BY <1>2, Constant
<1> DEFINE n == CommandSize(kinds[c])
<1>4. n = HEADER + w + CRC
  BY <1>3 DEF CommandSize
<1>5. n \in Nat /\ HEADER + CRC <= n /\ (kinds[c].send = 0 => n = HEADER + CRC)
  BY <1>3, <1>4, Constant
<1> HIDE DEF n
<1>6. Message(c) = [p \in 1 .. n |-> [call |-> c, pos |-> p]]
  BY DEF Message, n
<1>7. Message(c) \in Seq(CommandBytes(call))
  BY <1>1, MessageOf
<1>8. Len(Message(c)) = n
  BY <1>5, <1>6, <1>7, LenProperties
<1>9. QED
  BY <1>1, <1>2, <1>3, <1>4, <1>5, <1>6, <1>7, <1>8 DEF n

LEMMA WholeReply ==
  ASSUME call \in Nat, NEW c \in 1 .. call, NEW words \in Nat, NEW good \in BOOLEAN
  PROVE  LET r == Reply(c, words, good) IN
           /\ r \in Seq(AnswerBytes(call)) /\ Len(r) >= RHEADER + CRC
           /\ words = 0 => Len(r) = RHEADER + CRC
           /\ \A p \in 1 .. Len(r) :
                r[p] = [call |-> c, pos |-> p, size |-> Len(r), good |-> good]
<1> DEFINE r == Reply(c, words, good)
           n == RHEADER + WORD * words + CRC
<1>1. PICK w \in Nat : w = WORD * words /\ (words = 0 => w = 0)
  BY Constant
<1>2. n \in Nat /\ n >= RHEADER + CRC /\ (words = 0 => n = RHEADER + CRC)
  BY <1>1, Constant
<1> HIDE DEF n
<1>3. r = [p \in 1 .. n |-> [call |-> c, pos |-> p, size |-> n, good |-> good]]
  BY DEF Reply, n
<1>4. r \in Seq(AnswerBytes(call))
  BY ReplyOf
<1> HIDE DEF r
<1>5. Len(r) = n
  BY <1>2, <1>3, <1>4, LenProperties
<1>6. QED
  BY <1>2, <1>3, <1>4, <1>5 DEF r

\* What a state allows of the two sides.
LEMMA FirmwareOf ==
  ASSUME Firmware
  PROVE  \/ dev.pc = "poll" /\ out_ep # <<>> /\ Poll
         \/ Receiving /\ (BulkRecv \/ RecvTimeout)
         \/ dev.pc = "header" /\ Header
         \/ dev.pc = "payload" /\ Payload
         \/ dev.pc = "crc" /\ Checked
         \/ dev.pc = "work" /\ Answer
         \/ dev.pc = "send" /\ (BulkSend \/ SendTimeout)
BY DEF Firmware, Poll, BulkRecv, RecvTimeout, Header, Payload, Checked, Answer, BulkSend,
       SendTimeout

LEMMA TransactOf ==
  ASSUME Transact
  PROVE  \/ host.pc = "flush" /\ (FlushRead \/ FlushEnd)
         \/ host.pc = "sleep" /\ Retry
         \/ host.pc = "write" /\ (UsbWrite \/ WriteTimeout)
         \/ host.pc = "readHeader" /\ (UsbRead \/ ReadTimeout \/ RecvHeader)
         \/ host.pc = "readRest" /\ (UsbRead \/ ReadTimeout \/ RecvRest)
BY DEF Transact, FlushRead, FlushEnd, Retry, UsbWrite, WriteTimeout, UsbRead, ReadTimeout,
       RecvHeader, RecvRest, Short, Reading

\* What every phase knows of its variables.
LEMMA Typed ==
  ASSUME IInv
  PROVE  /\ call \in Nat /\ out_ep \in Seq(CommandBytes(call)) /\ in_ep \in Seq(AnswerBytes(call))
         /\ dev \in [pc : {"poll", "header", "payload", "crc", "work", "send"},
                     buf : Seq(CommandBytes(call)), want : Nat, reply : Seq(AnswerBytes(call))]
         /\ host \in [pc : HostPcs, attempt : 0 .. RETRIES, left : Seq(CommandBytes(call)),
                      rx : Seq(AnswerBytes(call))]
         /\ Len(out_ep) \in Nat /\ Len(in_ep) \in Nat /\ Len(dev.buf) \in Nat
         /\ Len(dev.reply) \in Nat /\ Len(host.left) \in Nat /\ Len(host.rx) \in Nat
         /\ host_time \in Nat
         /\ Len(out_ep) <= BULK_EP_SIZE /\ (out_ep # <<>> => Len(out_ep) > 0)
         /\ host.pc \in {"sleep", "write", "readHeader", "readRest"} => call \in 1 .. call
         /\ host.left # <<>> => host.pc = "write"
         /\ host.pc = "readRest" => host.rx # <<>>
         /\ dev.pc = "poll" => dev.buf = <<>>
         /\ dev.pc = "header" => dev.want = HEADER
         /\ dev.pc \in {"payload", "crc", "work"} => dev.buf # <<>>
         /\ dev.pc # "work" => Len(dev.buf) <= dev.want /\ dev_time \in 0 .. DEV_TIMEOUT
         /\ dev.pc = "work" => dev_time \in 0 .. MaxWork
<1>1. call \in Nat /\ LineOK /\ DevOK /\ HostOK
  BY Counts DEF IInv
<1>2. /\ out_ep \in Seq(CommandBytes(call)) /\ in_ep \in Seq(AnswerBytes(call))
      /\ dev \in [pc : {"poll", "header", "payload", "crc", "work", "send"},
                  buf : Seq(CommandBytes(call)), want : Nat, reply : Seq(AnswerBytes(call))]
      /\ host \in [pc : HostPcs, attempt : 0 .. RETRIES, left : Seq(CommandBytes(call)),
                   rx : Seq(AnswerBytes(call))]
  BY <1>1 DEF LineOK, DevOK, HostOK, HostPcs
<1>3. /\ Len(out_ep) \in Nat /\ Len(in_ep) \in Nat /\ Len(dev.buf) \in Nat
      /\ Len(dev.reply) \in Nat /\ Len(host.left) \in Nat /\ Len(host.rx) \in Nat
      /\ (out_ep # <<>> => Len(out_ep) > 0)
  BY <1>2, LenProperties, EmptySeq
<1>4. /\ host_time \in Nat /\ Len(out_ep) <= BULK_EP_SIZE
      /\ host.pc \in {"sleep", "write", "readHeader", "readRest"} => call \in 1 .. call
      /\ host.left # <<>> => host.pc = "write"
      /\ host.pc = "readRest" => host.rx # <<>>
  BY <1>1, Constant DEF LineOK, HostOK
<1>5. /\ dev.pc = "poll" => dev.buf = <<>>
      /\ dev.pc = "header" => dev.want = HEADER
      /\ dev.pc \in {"payload", "crc", "work"} => dev.buf # <<>>
      /\ dev.pc # "work" => Len(dev.buf) <= dev.want /\ dev_time \in 0 .. DEV_TIMEOUT
      /\ dev.pc = "work" => dev_time \in 0 .. MaxWork
  BY <1>1 DEF DevOK
<1>6. QED
  BY <1>1, <1>2, <1>3, <1>4, <1>5

\* An answer has bytes.
LEMMA SomeReply ==
  ASSUME IInv, NEW c \in 1 .. call, NEW words \in Nat, NEW good \in BOOLEAN,
         SendResponse(c, words, good)
  PROVE  dev'.pc = "send" /\ dev'.reply = Reply(c, words, good) /\ dev'.reply # <<>>
<1>1. call \in Nat
  BY Typed
<1>2. Len(Reply(c, words, good)) >= RHEADER + CRC
  BY <1>1, WholeReply
<1>3. Len(<<>>) = 0
  BY EmptySeq
<1>4. QED
  BY <1>2, <1>3, Constant DEF SendResponse

LEMMA SendsStep ==
  ASSUME IInv, SendsOK, Firmware \/ UNCHANGED dev \/ Return
  PROVE  SendsOK'
<1>1. ASSUME NEW pc, NEW want, Goto(pc, want), pc # "send"
      PROVE  SendsOK'
  BY <1>1, Typed DEF Goto, SendsOK
<1>2. CASE Return
  BY <1>2 DEF Return, SendsOK
<1>3. CASE UNCHANGED dev
  BY <1>3 DEF SendsOK
<1>4. ASSUME NEW c \in 1 .. call, NEW words \in Nat, NEW good \in BOOLEAN,
             SendResponse(c, words, good)
      PROVE  SendsOK'
  BY <1>4, SomeReply DEF SendsOK
<1>5. CASE Poll
  BY <1>1, <1>5 DEF Poll
<1>6. CASE BulkRecv
  <2>1. dev'.pc = dev.pc /\ Receiving
    BY <1>6, Typed DEF BulkRecv
  <2>2. QED
    BY <2>1 DEF SendsOK, Receiving
<1>7. CASE RecvTimeout
  <2>1. Return \/ (dev.pc # "header" /\ SendResponse(dev.buf[1].call, 0, FALSE))
    BY <1>7 DEF RecvTimeout
  <2>2. dev.pc # "header" => dev.buf # <<>>
    BY <1>7, Typed DEF RecvTimeout, Receiving
  <2>3. QED
    BY <1>2, <1>4, <2>1, <2>2, CallOf
<1>8. CASE Header
  <2>1. dev.buf # <<>>
    BY <1>8, Typed, EmptySeq, Constant DEF Header, Received
  <2>2. \/ \E k \in Kinds \cup {kinds[dev.buf[1].call]} :
             Goto("payload", HEADER + WORD * k.send) \/ Goto("crc", HEADER + CRC)
        \/ SendResponse(dev.buf[1].call, 0, FALSE)
        \/ Return
    BY <1>8 DEF Header
  <2>3. QED
    BY <1>1, <1>2, <1>4, <2>1, <2>2, CallOf
<1>9. CASE Payload
  BY <1>1, <1>9 DEF Payload
<1>10. CASE Checked
  <2>1. dev.buf # <<>>
    BY <1>10, Typed DEF Checked
  <2>2. \/ dev' = [dev EXCEPT !.pc = "work", !.want = 0]
        \/ SendResponse(dev.buf[1].call, 0, FALSE)
    BY <1>10 DEF Checked
  <2>3. QED
    BY <1>4, <2>1, <2>2, CallOf, Typed DEF SendsOK
<1>11. CASE Answer
  <2>1. dev.buf # <<>> /\ SendResponse(dev.buf[1].call, kinds[dev.buf[1].call].reply, TRUE)
    BY <1>11, Typed DEF Answer
  <2>2. QED
    BY <1>4, <2>1, CallOf, Constant
<1>12. CASE BulkSend
  <2>1. CASE Len(dev.reply) <= BULK_EP_SIZE
    BY <1>2, <1>12, <2>1 DEF BulkSend
  <2>2. CASE ~(Len(dev.reply) <= BULK_EP_SIZE)
    <3>1. dev' = [dev EXCEPT !.reply = Rest(@, BULK_EP_SIZE)]
      BY <1>12, <2>2 DEF BulkSend
    <3>2. Rest(dev.reply, BULK_EP_SIZE) # <<>>
      <4>1. PICK n \in Nat : dev.reply \in Seq(AnswerBytes(n))
        BY Typed
      <4>2. Len(dev.reply) > BULK_EP_SIZE
        BY <2>2, Typed, Constant
      <4>3. QED
        BY <4>1, <4>2, SplitOf
    <3>3. QED
      BY <3>1, <3>2, Typed DEF SendsOK
  <2>3. QED
    BY <2>1, <2>2
<1>13. CASE SendTimeout
  BY <1>2, <1>13 DEF SendTimeout
<1>14. QED
  BY <1>2, <1>3, <1>5, <1>6, <1>7, <1>8, <1>9, <1>10, <1>11, <1>12, <1>13 DEF Firmware

\* The calls so far stay the same.
LEMMA Same ==
  ASSUME kinds' = kinds
  PROVE  /\ call' = call /\ Message(call)' = Message(call) /\ Good' = Good /\ Sorry' = Sorry
         /\ CommandSize(kinds[call])' = CommandSize(kinds[call]) /\ kinds'[call'] = kinds[call]
BY DEF call, Message, Good, Sorry, Reply

LEMMA FlushingStep ==
  ASSUME IInv, SendsOK, Flushing, Firmware \/ Transact \/ Tick
  PROVE  Flushing' \/ Clean'
<1>1. CASE Firmware
  <2>1. host' = host /\ host_time' = host_time
    BY <1>1 DEF Firmware, Poll, BulkRecv, RecvTimeout, Header, Payload, Checked, Answer,
                BulkSend, SendTimeout, hostVars
  <2>2. CASE BulkSend
    <3>1. in_ep' # <<>> /\ out_ep' = out_ep
      <4>1. PICK n \in Nat : dev.reply \in Seq(AnswerBytes(n))
        BY Typed
      <4>2. dev.reply # <<>>
        BY <2>2 DEF BulkSend, SendsOK
      <4>3. Packet(dev.reply) # <<>>
        BY <4>1, <4>2, PacketOf
      <4>4. QED
        BY <2>2, <4>3 DEF BulkSend
    <3>2. dev'.pc \in {"poll", "send"}
      BY <2>2, Typed DEF BulkSend, Return
    <3>3. QED
      BY <2>1, <3>1, <3>2 DEF Flushing, Quiet
  <2>3. CASE SendTimeout
    BY <2>1, <2>3 DEF SendTimeout, Return, Flushing, Quiet
  <2>4. QED
    BY <1>1, <2>2, <2>3, FirmwareOf DEF Flushing, Quiet, Receiving
<1>2. CASE Transact
  <2>1. CASE FlushRead
    BY <2>1 DEF FlushRead, Flushing, Quiet, devVars
  <2>2. CASE FlushEnd
    <3>1. dev.pc = "poll" /\ out_ep = <<>> /\ in_ep = <<>> /\ UNCHANGED <<dev, out_ep, in_ep>>
      BY SMTT(30), <2>2, PaceAssumption, TimeAssumption, Typed
         DEF FlushEnd, Flushing, Quiet, devVars
    <3>2. host'.pc \in {"sleep", "open"} /\ host'.rx = <<>>
      BY <2>2 DEF FlushEnd, HostGoto
    <3>3. QED
      BY <3>1, <3>2 DEF Clean, LineClean
  <2>3. QED
    BY <1>2, <2>1, <2>2, TransactOf DEF Flushing
<1>3. CASE Tick
  <2>1. UNCHANGED <<out_ep, in_ep, dev, host>>
    BY <1>3 DEF Tick
  <2>2. ~(dev.pc = "send" /\ in_ep = <<>>)
    BY <1>3 DEF Tick, Waits, Receiving
  <2>3. QED
    BY <2>1, <2>2 DEF Flushing, Quiet
<1>4. QED
  BY <1>1, <1>2, <1>3

\* This call's command, in a form that also speaks of the next state.
LEMMA ThisMessage ==
  IInv /\ host.pc \in {"sleep", "write", "readHeader", "readRest"} =>
    /\ call \in 1 .. call /\ kinds[call] \in Kinds
    /\ CommandSize(kinds[call]) \in Nat /\ HEADER + CRC <= CommandSize(kinds[call])
    /\ Message(call) \in Seq(CommandBytes(call)) /\ Len(Message(call)) = CommandSize(kinds[call])
BY Typed, WholeMessage

\* A command sets out on a clean line.
LEMMA SetsOut ==
  ASSUME IInv, IInv', LineClean, UNCHANGED <<dev, out_ep, in_ep>>,
         NEW n, HostGoto("write", n, Message(call)', <<>>)
  PROVE  Coming'
<1>1. /\ dev.pc = "poll" /\ out_ep = <<>> /\ in_ep = <<>> /\ dev.buf = <<>>
      /\ host'.pc = "write" /\ host'.left = Message(call)' /\ host'.rx = <<>>
  BY Typed DEF LineClean, HostGoto
<1>2. (IInv /\ host.pc \in {"sleep", "write", "readHeader", "readRest"} =>
        /\ call \in 1 .. call /\ kinds[call] \in Kinds
        /\ CommandSize(kinds[call]) \in Nat /\ HEADER + CRC <= CommandSize(kinds[call])
        /\ Message(call) \in Seq(CommandBytes(call))
        /\ Len(Message(call)) = CommandSize(kinds[call]))'
  BY ThisMessage, PTL
<1>3. call' \in 1 .. call'
  BY <1>1, <1>2
<1>4. (/\ CommandSize(kinds[call]) \in Nat /\ HEADER + CRC <= CommandSize(kinds[call])
       /\ Message(call) \in Seq(CommandBytes(call))
       /\ Len(Message(call)) = CommandSize(kinds[call]))'
  BY <1>1, <1>2
<1>5. Len(<<>>) = 0
  BY EmptySeq
<1>6. host'.left # <<>>
  BY <1>1, <1>3, <1>4, <1>5, Constant
<1>7. Piece(dev.buf, 0, Message(call))' /\ Piece(out_ep, Len(dev.buf), Message(call))'
  BY <1>1, <1>5 DEF Piece
<1>8. Piece(host.left, Len(dev.buf) + Len(out_ep), Message(call))'
  <2> DEFINE m == Message(call)'
  <2>1. Len(m) \in Nat /\ host'.left = m
    BY <1>1, <1>3, <1>4
  <2> HIDE DEF m
  <2>2. \A p \in 1 .. Len(m) : 0 + 0 + p = p
    BY <2>1
  <2>3. Piece(m, 0 + 0, m)
    BY <2>2 DEF Piece
  <2>4. QED
    BY <1>1, <1>5, <2>1, <2>3 DEF m
<1>9. (Len(dev.buf) + Len(out_ep) + Len(host.left) = CommandSize(kinds[call]))'
  BY <1>1, <1>3, <1>4, <1>5
<1>10. QED
  BY <1>1, <1>6, <1>7, <1>8, <1>9 DEF Coming

LEMMA CleanStep ==
  ASSUME IInv, IInv', Clean, Firmware \/ Transact \/ Tick
  PROVE  Clean' \/ Coming' \/ host'.pc = "closed"
<1>1. CASE Firmware
  BY <1>1, FirmwareOf DEF Clean, LineClean, Receiving
<1>2. CASE Transact
  <2>1. Retry /\ LineClean /\ UNCHANGED <<dev, out_ep, in_ep, kinds>>
    BY <1>2, TransactOf DEF Clean, Retry, devVars
  <2>2. CASE host.attempt < RETRIES
    <3>1. HostGoto("write", host.attempt + 1, Message(call)', <<>>)
      BY <2>1, <2>2, Same DEF Retry
    <3>2. QED
      BY <2>1, <3>1, SetsOut
  <2>3. CASE ~(host.attempt < RETRIES)
    BY <2>1, <2>3 DEF Retry, Close, HostGoto
  <2>4. QED
    BY <2>2, <2>3
<1>3. CASE Tick
  BY <1>3 DEF Tick, Clean, LineClean
<1>4. QED
  BY <1>1, <1>2, <1>3

LEMMA GoodReply ==
  ASSUME IInv, call \in 1 .. call
  PROVE  /\ Good \in Seq(AnswerBytes(call)) /\ Len(Good) \in Nat /\ Len(Good) >= RHEADER + CRC
         /\ \A p \in 1 .. Len(Good) :
              Good[p] = [call |-> call, pos |-> p, size |-> Len(Good), good |-> TRUE]
<1>1. kinds[call].reply \in Nat /\ call \in Nat
  BY WholeMessage, Constant
<1>2. /\ Good \in Seq(AnswerBytes(call)) /\ Len(Good) >= RHEADER + CRC
      /\ \A p \in 1 .. Len(Good) :
           Good[p] = [call |-> call, pos |-> p, size |-> Len(Good), good |-> TRUE]
  BY <1>1, WholeReply DEF Good
<1>3. QED
  BY <1>2, LenProperties

LEMMA WorkingStep ==
  ASSUME IInv, Working, Firmware \/ Transact \/ Tick
  PROVE  Working' \/ Answered'
<1>1. /\ host.pc = "readHeader" /\ dev.pc = "work" /\ out_ep = <<>> /\ in_ep = <<>>
      /\ host.rx = <<>> /\ dev.buf[1].call = call /\ executed[call] > 0
      /\ host_time + dev_time <= MaxWork
      /\ host_time \in Nat /\ dev_time \in Nat /\ call \in 1 .. call
  BY Typed, Constant DEF Working
<1>2. Len(<<>>) = 0
  BY EmptySeq
<1>3. CASE Firmware
  <2>1. Answer
    BY <1>1, <1>3, FirmwareOf DEF Receiving
  <2>2. UNCHANGED <<kinds, host, out_ep, in_ep, executed>>
    BY <2>1 DEF Answer, hostVars
  <2>3. dev'.pc = "send" /\ dev'.reply = Good
    BY <1>1, <2>1 DEF Answer, SendResponse, Good
  <2>4. /\ host'.pc = "readHeader" /\ out_ep' = <<>> /\ in_ep' = <<>> /\ host'.rx = <<>>
        /\ call' = call /\ Good' = Good /\ ToSend' = Good
    BY <1>1, <2>2, <2>3, Same DEF ToSend
  <2>5. Len(Good) \in Nat
    BY <1>1, GoodReply
  <2>6. Piece(Good, 0 + 0, Good) /\ Piece(<<>>, 0, Good)
    <3>1. \A p \in 1 .. Len(Good) : 0 + 0 + p = p
      BY <2>5
    <3>2. QED
      BY <1>2, <3>1 DEF Piece
  <2>7. /\ Piece(host.rx, 0, Good)' /\ Piece(in_ep, Len(host.rx), Good)'
        /\ Piece(ToSend, Len(host.rx) + Len(in_ep), Good)'
        /\ (Len(host.rx) + Len(in_ep) + Len(ToSend) <= Len(Good))'
    BY <1>2, <2>4, <2>5, <2>6
  <2>8. QED
    BY <1>1, <2>2, <2>3, <2>4, <2>7 DEF Answered, Reading, Quiet
<1>4. CASE Transact
  <2>1. UsbRead \/ ReadTimeout \/ RecvHeader
    BY <1>1, <1>4, TransactOf
  <2>2. Short
    BY <1>1, <1>2, Constant DEF Short, Reading, Wanted
  <2>3. ~UsbRead /\ ~RecvHeader
    BY <1>1, <2>2 DEF UsbRead, RecvHeader
  <2>4. ~ReadTimeout
    BY <1>1, PaceAssumption, Constant DEF ReadTimeout
  <2>5. QED
    BY <2>1, <2>3, <2>4
<1>5. CASE Tick
  <2> DEFINE h == host_time'
             d == dev_time'
  <2>1. UNCHANGED <<kinds, out_ep, in_ep, dev, host, executed>> /\ call' = call
    BY <1>5 DEF Tick, call
  <2>2. d = dev_time - 1
    BY <1>1, <1>5 DEF Tick, Waits, Receiving
  <2>3. h = Least(host_time + 1, READ_TIMEOUT)
    BY <1>1, <1>5 DEF Tick
  <2> HIDE DEF h, d
  <2>4. h + d <= MaxWork
    BY <1>1, <2>2, <2>3, Constant DEF Least
  <2>5. host_time' + dev_time' <= MaxWork
    BY <2>4 DEF h, d
  <2>6. QED
    BY <1>1, <2>1, <2>5 DEF Working
<1>6. QED
  BY <1>3, <1>4, <1>5

LEMMA AnsweredStep ==
  ASSUME IInv, SendsOK, Answered, Firmware \/ Transact \/ Tick
  PROVE  Answered' \/ Flushing' \/ Clean'
<1>1. /\ Reading /\ dev.pc \in {"poll", "send"} /\ out_ep = <<>> /\ executed[call] > 0
      /\ Piece(host.rx, 0, Good) /\ Piece(in_ep, Len(host.rx), Good)
      /\ Piece(ToSend, Len(host.rx) + Len(in_ep), Good)
      /\ Len(host.rx) + Len(in_ep) + Len(ToSend) <= Len(Good)
  BY DEF Answered, Quiet
<1>2. /\ call \in 1 .. call /\ host.rx \in Seq(AnswerBytes(call))
      /\ in_ep \in Seq(AnswerBytes(call)) /\ ToSend \in Seq(AnswerBytes(call))
  <2>1. <<>> \in Seq(AnswerBytes(call))
    BY EmptySeq
  <2>2. QED
    BY <1>1, <2>1, Typed DEF Reading, ToSend
<1>3. Len(host.rx) \in Nat /\ Len(in_ep) \in Nat /\ Len(ToSend) \in Nat /\ Len(<<>>) = 0
  BY <1>2, LenProperties, EmptySeq
<1>4. /\ Len(Good) \in Nat /\ Len(Good) >= RHEADER + CRC
      /\ \A p \in 1 .. Len(Good) :
           Good[p] = [call |-> call, pos |-> p, size |-> Len(Good), good |-> TRUE]
  BY <1>2, GoodReply
<1>5. \A n : Piece(<<>>, n, Good)
  BY <1>3 DEF Piece
<1>6. CASE BulkSend
  <2>1. /\ dev.pc = "send" /\ in_ep = <<>> /\ in_ep' = Packet(ToSend) /\ ToSend = dev.reply
        /\ UNCHANGED <<kinds, host, out_ep, executed>>
    BY <1>6 DEF BulkSend, hostVars, ToSend
  <2>2. /\ Len(Packet(ToSend)) + Len(Rest(ToSend, BULK_EP_SIZE)) = Len(ToSend)
        /\ Len(ToSend) <= BULK_EP_SIZE => Rest(ToSend, BULK_EP_SIZE) = <<>>
        /\ Packet(ToSend) \in Seq(AnswerBytes(call))
        /\ Rest(ToSend, BULK_EP_SIZE) \in Seq(AnswerBytes(call))
        /\ Piece(Packet(ToSend), Len(host.rx), Good)
        /\ Piece(Rest(ToSend, BULK_EP_SIZE), Len(host.rx) + Len(Packet(ToSend)), Good)
    <3>1. PICK n \in Nat : n = Len(host.rx) /\ Piece(ToSend, n, Good)
      BY <1>1, <1>3, <2>1
    <3>2. PICK t \in Seq(AnswerBytes(call)) : t = ToSend
      BY <1>2
    <3>3. /\ Len(Packet(t)) + Len(Rest(t, BULK_EP_SIZE)) = Len(t)
          /\ Len(t) <= BULK_EP_SIZE => Rest(t, BULK_EP_SIZE) = <<>>
          /\ Packet(t) \in Seq(AnswerBytes(call)) /\ Rest(t, BULK_EP_SIZE) \in Seq(AnswerBytes(call))
      BY SplitOf
    <3>4. Piece(Packet(t), n, Good) /\ Piece(Rest(t, BULK_EP_SIZE), n + Len(Packet(t)), Good)
      BY <3>1, <3>2, SplitOf
    <3>5. QED
      BY <3>1, <3>2, <3>3, <3>4
  <2>3. dev'.pc \in {"poll", "send"} /\ ToSend' = Rest(ToSend, BULK_EP_SIZE)
    <3>1. CASE Len(dev.reply) <= BULK_EP_SIZE
      BY <1>6, <2>1, <2>2, <3>1 DEF BulkSend, Return, ToSend
    <3>2. CASE ~(Len(dev.reply) <= BULK_EP_SIZE)
      <4>1. dev' = [dev EXCEPT !.reply = Rest(@, BULK_EP_SIZE)]
        BY <1>6, <3>2 DEF BulkSend
      <4>2. dev'.pc = "send" /\ dev'.reply = Rest(dev.reply, BULK_EP_SIZE)
        BY <2>1, <4>1, Typed
      <4>3. QED
        BY <2>1, <4>2 DEF ToSend
    <3>3. QED
      BY <3>1, <3>2
  <2>4. Len(Packet(ToSend)) \in Nat /\ Len(Rest(ToSend, BULK_EP_SIZE)) \in Nat
    BY <2>2, LenProperties
  <2>5. Good' = Good /\ call' = call
    BY <2>1, Same
  <2>6. /\ Piece(host.rx, 0, Good)' /\ Piece(in_ep, Len(host.rx), Good)'
        /\ Piece(ToSend, Len(host.rx) + Len(in_ep), Good)'
        /\ (Len(host.rx) + Len(in_ep) + Len(ToSend) <= Len(Good))'
    <3>1. Piece(host.rx, 0, Good)' /\ Piece(in_ep, Len(host.rx), Good)'
      BY <1>1, <2>1, <2>2, <2>5
    <3>2. Piece(ToSend, Len(host.rx) + Len(in_ep), Good)'
      BY <2>1, <2>2, <2>3, <2>5
    <3>3. Len(host.rx) + Len(Packet(ToSend)) + Len(Rest(ToSend, BULK_EP_SIZE)) <= Len(Good)
      <4>1. Len(in_ep) = 0
        BY <1>3, <2>1
      <4>2. QED
        BY <1>1, <1>3, <1>4, <2>2, <2>4, <4>1
    <3>4. QED
      BY <2>1, <2>3, <2>5, <3>1, <3>2, <3>3
  <2>7. QED
    BY <1>1, <2>1, <2>3, <2>5, <2>6 DEF Answered, Reading, Quiet
<1>7. CASE SendTimeout
  <2>1. UNCHANGED <<kinds, host, out_ep, in_ep, executed>> /\ dev'.pc = "poll"
    BY <1>7 DEF SendTimeout, hostVars, Return
  <2>2. Good' = Good /\ call' = call /\ ToSend' = <<>>
    BY <2>1, Same DEF ToSend
  <2>3. /\ Piece(host.rx, 0, Good)' /\ Piece(in_ep, Len(host.rx), Good)'
        /\ Piece(ToSend, Len(host.rx) + Len(in_ep), Good)'
        /\ (Len(host.rx) + Len(in_ep) + Len(ToSend) <= Len(Good))'
    BY <1>1, <1>3, <1>4, <1>5, <2>1, <2>2
  <2>4. QED
    BY <1>1, <2>1, <2>2, <2>3 DEF Answered, Reading, Quiet
<1>8. CASE UsbRead
  <2>1. /\ host' = [host EXCEPT !.rx = @ \o in_ep] /\ in_ep' = <<>>
        /\ UNCHANGED <<dev, out_ep, kinds, executed>>
    BY <1>8 DEF UsbRead, devVars
  <2>2. host'.pc = host.pc /\ host'.rx = host.rx \o in_ep
    BY <2>1, Typed
  <2>3. Good' = Good /\ call' = call /\ ToSend' = ToSend
    BY <2>1, Same DEF ToSend
  <2>4. Len(host'.rx) = Len(host.rx) + Len(in_ep)
    BY <1>2, <2>2, JoinedOf
  <2>5. Piece(host'.rx, 0, Good)
    <3>1. Piece(in_ep, 0 + Len(host.rx), Good)
      BY <1>1, <1>3
    <3>2. QED
      BY <1>1, <1>2, <2>2, <3>1, JoinedOf
  <2>6. /\ Piece(host.rx, 0, Good)' /\ Piece(in_ep, Len(host.rx), Good)'
        /\ Piece(ToSend, Len(host.rx) + Len(in_ep), Good)'
        /\ (Len(host.rx) + Len(in_ep) + Len(ToSend) <= Len(Good))'
    BY <1>1, <1>3, <1>4, <1>5, <2>1, <2>3, <2>4, <2>5
  <2>7. QED
    BY <1>1, <2>1, <2>2, <2>3, <2>6 DEF Answered, Reading, Quiet
<1>9. CASE ReadTimeout
  BY <1>1, <1>9 DEF ReadTimeout, Except, HostGoto, devVars, Flushing, Quiet
<1>10. Len(host.rx) > 0 =>
         host.rx[1] = [call |-> call, pos |-> 1, size |-> Len(Good), good |-> TRUE]
  BY <1>1, <1>3, <1>4 DEF Piece
<1>11. CASE RecvHeader
  <2>1. Len(host.rx) > 0
    BY <1>1, <1>3, <1>11, Constant DEF RecvHeader, Short, Reading, Wanted
  <2>2. /\ HostGoto("readRest", host.attempt, <<>>, host.rx)
        /\ UNCHANGED <<devVars, out_ep, in_ep, kinds>>
    BY <1>10, <1>11, <2>1 DEF RecvHeader
  <2>3. /\ host'.pc = "readRest" /\ host'.rx = host.rx /\ Good' = Good /\ call' = call
        /\ UNCHANGED <<dev, executed, out_ep, in_ep>> /\ ToSend' = ToSend
    BY <2>2, Same DEF HostGoto, devVars, ToSend
  <2>4. QED
    BY <1>1, <2>3 DEF Answered, Reading, Quiet
<1>12. CASE RecvRest
  <2>1. host.pc = "readRest" /\ ~Short /\ host.rx # <<>>
    BY <1>12, Typed DEF RecvRest
  <2>2. Len(host.rx) > 0
    BY <1>2, <1>3, <2>1, EmptySeq
  <2>3. Wanted = Len(Good) /\ host.rx[1].good
    BY <1>10, <2>1, <2>2 DEF Wanted
  <2>4. Len(host.rx) = Len(Good) /\ Len(in_ep) = 0 /\ Len(ToSend) = 0
    BY <1>1, <1>3, <1>4, <2>1, <2>3 DEF Short
  <2>5. \A p \in 1 .. Wanted : host.rx[p] = [host.rx[1] EXCEPT !.pos = p]
    BY <1>1, <1>4, <1>10, <2>2, <2>3, <2>4 DEF Piece
  <2>6. /\ HostGoto("open", host.attempt, <<>>, Rest(host.rx, Wanted))
        /\ UNCHANGED <<dev, out_ep, in_ep>>
    BY <1>12, <2>3, <2>5 DEF RecvRest, devVars
  <2>7. Rest(host.rx, Wanted) = <<>>
    <3>1. Wanted >= Len(host.rx) /\ Wanted \in Nat
      BY <1>4, <2>3, <2>4
    <3>2. QED
      BY <1>2, <3>1, RestOf
  <2>8. in_ep = <<>> /\ ToSend = <<>>
    BY <1>2, <2>4, EmptySeq
  <2>9. dev.pc = "poll"
    BY <1>1, <2>8 DEF ToSend, SendsOK
  <2>10. QED
    BY <1>1, <2>6, <2>7, <2>8, <2>9 DEF HostGoto, Clean, LineClean
<1>13. CASE Tick
  <2>1. UNCHANGED <<kinds, out_ep, in_ep, dev, host, executed>>
    BY <1>13 DEF Tick
  <2>2. Good' = Good /\ call' = call /\ ToSend' = ToSend
    BY <2>1, Same DEF ToSend
  <2>3. QED
    BY <1>1, <2>1, <2>2 DEF Answered, Reading, Quiet
<1>14. Firmware => BulkSend \/ SendTimeout
  BY <1>1, FirmwareOf DEF Receiving
<1>15. Transact => UsbRead \/ ReadTimeout \/ RecvHeader \/ RecvRest
  BY <1>1, TransactOf DEF Reading
<1>16. QED
  BY <1>6, <1>7, <1>8, <1>9, <1>11, <1>12, <1>13, <1>14, <1>15

\* The lengths of a command that is coming, and what they leave open.
LEMMA ComingOf ==
  ASSUME IInv, Coming
  PROVE  /\ call \in 1 .. call
         /\ Len(dev.buf) \in Nat /\ Len(out_ep) \in Nat /\ Len(host.left) \in Nat
         /\ dev.buf \in Seq(CommandBytes(call)) /\ out_ep \in Seq(CommandBytes(call))
         /\ host.left \in Seq(CommandBytes(call))
         /\ Len(dev.buf) > 0 => dev.buf[1] = [call |-> call, pos |-> 1]
         /\ dev.pc \in {"header", "payload", "crc"} /\ out_ep = <<>> => Len(dev.buf) >= HEADER
         /\ Len(dev.buf) <= CommandSize(kinds[call])
         /\ host.left = <<>> /\ out_ep = <<>> =>
              dev.pc = "crc" /\ Received /\ Len(dev.buf) = CommandSize(kinds[call])
<1> DEFINE b == Len(dev.buf)
           o == Len(out_ep)
           l == Len(host.left)
           n == CommandSize(kinds[call])
           w == WORD * kinds[call].send
<1>1. /\ b \in Nat /\ o \in Nat /\ l \in Nat /\ call \in 1 .. call
      /\ dev.buf \in Seq(CommandBytes(call)) /\ out_ep \in Seq(CommandBytes(call))
      /\ host.left \in Seq(CommandBytes(call))
  BY Typed DEF Coming
<1>2. n \in Nat /\ w \in Nat /\ n = HEADER + w + CRC
  BY <1>1, WholeMessage
<1>3. \A p \in 1 .. n : Message(call)[p] = [call |-> call, pos |-> p]
  BY <1>1, WholeMessage
<1>4. b + o + l = n /\ Piece(dev.buf, 0, Message(call))
  BY DEF Coming
<1>5. (out_ep = <<>> => o = 0) /\ (host.left = <<>> => l = 0)
  BY EmptySeq
<1>6. /\ dev.pc # "poll" => b + o >= HEADER
      /\ dev.pc = "poll" => b = 0
      /\ dev.pc = "header" => b <= HEADER
      /\ dev.pc = "payload" => b <= HEADER + w
  <2>1. dev.pc # "poll" => b + o >= HEADER
    BY DEF Coming
  <2>2. dev.pc = "poll" => b = 0
    BY Typed, EmptySeq
  <2>3. dev.pc = "header" => b <= HEADER
    BY Typed
  <2>4. dev.pc = "payload" => b <= HEADER + w
    BY Typed DEF Coming
  <2>5. QED
    BY <2>1, <2>2, <2>3, <2>4
<1>7. dev.pc = "crc" => dev.want = n
  BY DEF Coming
<1>8. dev.pc \in {"poll", "header", "payload", "crc"}
  BY DEF Coming
<1>9. b <= n
  <2> HIDE DEF b, o, l, n
  <2>1. QED
    BY <1>1, <1>2, <1>4
<1>10. b > 0 => dev.buf[1] = [call |-> call, pos |-> 1]
  <2>1. b > 0 => dev.buf[1] = Message(call)[0 + 1]
    BY <1>1, <1>4 DEF Piece
  <2> HIDE DEF b, o, l, n, w
  <2>2. b > 0 => 1 \in 1 .. n
    BY <1>1, <1>2, <1>9
  <2>3. QED
    BY <1>3, <2>1, <2>2
<1>11. dev.pc # "poll" /\ out_ep = <<>> => b >= HEADER
  <2> HIDE DEF b, o, l, n, w
  <2>1. QED
    BY <1>1, <1>5, <1>6
<1>12. host.left = <<>> /\ out_ep = <<>> => dev.pc = "crc" /\ b = n
  <2> HIDE DEF b, o, l, n, w
  <2>1. QED
    BY <1>1, <1>2, <1>4, <1>5, <1>6, <1>8, Constant
<1>13. QED
  BY <1>1, <1>7, <1>9, <1>10, <1>11, <1>12 DEF Received, Receiving

\* bulk_recv() gives up in the middle of the command.
LEMMA ComingLost ==
  ASSUME IInv, Coming, RecvTimeout
  PROVE  Lost'
<1> DEFINE b == Len(dev.buf)
           l == Len(host.left)
           n == CommandSize(kinds[call])
<1>1. /\ UNCHANGED <<kinds, host, out_ep, in_ep>> /\ out_ep = <<>> /\ Receiving /\ ~Received
  BY DEF RecvTimeout, hostVars
<1>2. call \in 1 .. call /\ call' = call /\ Middle' = Middle /\ Sorry' = Sorry
  <2>1. call' = call /\ Sorry' = Sorry
    BY <1>1, Same
  <2>2. QED
    BY <2>1, ComingOf DEF Middle
<1>3. b \in Nat /\ b >= HEADER
  BY <1>1, ComingOf DEF Receiving
<1>4. dev.pc \in {"payload", "crc"}
  <2>1. dev.pc = "header" => b <= HEADER /\ dev.want = HEADER
    BY Typed
  <2>2. dev.pc = "header" => b # HEADER
    BY <1>1, <2>1 DEF Received
  <2>3. dev.pc # "header"
    <3> HIDE DEF b
    <3>1. QED
      BY <1>3, <2>1, <2>2, Constant
  <2>4. QED
    BY <1>1, <2>3 DEF Receiving
<1>5. host.pc = "write"
  <2>1. host.left # <<>>
    BY <1>1, ComingOf
  <2>2. QED
    BY <2>1, Typed
<1>6. dev'.pc = "send" /\ dev'.reply = Sorry
  <2>1. b > 0
    <3> HIDE DEF b
    <3>1. QED
      BY <1>3, Constant
  <2>2. dev.buf[1].call = call
    BY <2>1, ComingOf
  <2>3. SendResponse(dev.buf[1].call, 0, FALSE)
    BY <1>4 DEF RecvTimeout
  <2>4. QED
    BY <2>2, <2>3 DEF SendResponse, Sorry
<1>7. host.left \in Middle
  <2> DEFINE T == [call : {call}, pos : Nat \ {0, 1}]
  <2>1. l \in Nat /\ n \in Nat /\ \A p \in 1 .. n : Message(call)[p] = [call |-> call, pos |-> p]
    BY <1>2, ComingOf, WholeMessage
  <2>2. b + l = n
    <3>1. b + Len(out_ep) + l = n /\ Len(out_ep) = 0
      BY <1>1, EmptySeq DEF Coming
    <3> HIDE DEF b, l, n
    <3>2. QED
      BY <1>3, <2>1, <3>1
  <2>3. ASSUME NEW p \in 1 .. l
        PROVE  host.left[p] \in T
    <3>1. host.left[p] = Message(call)[b + 0 + p]
      <4>1. Piece(host.left, b + 0, Message(call))
        BY <1>1, EmptySeq DEF Coming
      <4>2. QED
        BY <4>1 DEF Piece
    <3> HIDE DEF b, l, n, T
    <3>2. b + 0 + p \in 1 .. n /\ b + 0 + p \in Nat \ {0, 1}
      BY <1>3, <2>1, <2>2, Constant
    <3>3. host.left[p] = [call |-> call, pos |-> b + 0 + p]
      BY <2>1, <3>1, <3>2
    <3>4. QED
      BY <3>2, <3>3 DEF T
  <2>4. host.left = [p \in 1 .. l |-> host.left[p]]
    BY ComingOf, LenProperties
  <2> HIDE DEF T, l
  <2>5. host.left \in [1 .. l -> T]
    BY <2>3, <2>4
  <2>6. host.left \in Seq(T)
    BY <2>1, <2>5, SeqDef
  <2>7. QED
    BY <2>6 DEF Middle, T
<1>8. <<>> \in Middle
  BY EmptySeq DEF Middle
<1>9. QED
  BY <1>1, <1>2, <1>5, <1>6, <1>7, <1>8 DEF Lost, InTime, Coming, Receiving, Quiet

\* bulk_recv() takes more of it.
LEMMA ComingTaken ==
  ASSUME IInv, Coming, BulkRecv
  PROVE  Coming'
<1> DEFINE b == Len(dev.buf)
           o == Len(out_ep)
           l == Len(host.left)
           k == Least(dev.want - b, o)
           got == dev.buf \o SubSeq(out_ep, 1, k)
           rest == Rest(out_ep, k)
           S == CommandBytes(call)
           m == Message(call)
           n == CommandSize(kinds[call])
<1>1. /\ Receiving /\ out_ep # <<>> /\ UNCHANGED <<kinds, host, host_time, in_ep>>
      /\ dev' = [dev EXCEPT !.buf = got] /\ out_ep' = rest
  BY DEF BulkRecv, hostVars
<1>2. /\ b \in Nat /\ o \in Nat /\ l \in Nat /\ dev.buf \in Seq(S) /\ out_ep \in Seq(S)
      /\ o > 0
  BY <1>1, ComingOf, Typed
<1>3. k \in Nat /\ k <= o
  <2>1. dev.want \in Nat /\ b <= dev.want
    BY <1>1, Typed DEF Receiving
  <2> DEFINE want == dev.want
  <2> HIDE DEF b, o, want
  <2>2. Least(want - b, o) \in Nat /\ Least(want - b, o) <= o
    BY <1>2, <2>1 DEF Least, want
  <2>3. QED
    BY <2>2 DEF want
<1>4. /\ Piece(dev.buf, 0, m) /\ Piece(out_ep, b, m) /\ Piece(host.left, b + o, m)
      /\ b + o + l = n /\ n \in Nat
  BY ComingOf, WholeMessage DEF Coming
<1> HIDE DEF k, S, m
<1>5. Len(got) = b + k /\ Len(rest) = o - k
  <2>1. Len(got) = b + k
    <3> DEFINE s == dev.buf
    <3>1. s \in Seq(S) /\ out_ep \in Seq(S) /\ k \in Nat /\ k <= Len(out_ep)
      BY <1>2, <1>3
    <3> HIDE DEF s
    <3>2. Len(s \o SubSeq(out_ep, 1, k)) = Len(s) + k
      BY <3>1, TakenOf
    <3>3. QED
      BY <3>2 DEF s
  <2>2. Len(rest) = o - k
    BY <1>2, <1>3, TakenOf
  <2>3. QED
    BY <2>1, <2>2
<1>6. Piece(got, 0, m) /\ Piece(rest, b + k, m)
  <2>1. Piece(out_ep, 0 + b, m)
    BY <1>2, <1>4
  <2>2. Piece(got, 0, m) /\ Piece(rest, 0 + b + k, m)
    BY <1>2, <1>3, <1>4, <2>1, TakenOf
  <2>3. 0 + b + k = b + k
    BY <1>2, <1>3
  <2>4. QED
    BY <2>2, <2>3
<1>7. /\ dev'.buf = got /\ dev'.pc = dev.pc /\ dev'.want = dev.want
  BY <1>1, Typed
<1> HIDE DEF got, rest, b, o, l, n
<1>8. (b + k) + (o - k) = b + o
  BY <1>2, <1>3
<1>9. (/\ Piece(dev.buf, 0, Message(call)) /\ Piece(out_ep, Len(dev.buf), Message(call))
       /\ Piece(host.left, Len(dev.buf) + Len(out_ep), Message(call)))'
  BY <1>1, <1>4, <1>5, <1>6, <1>7, <1>8, Same DEF m
<1>10. (Len(dev.buf) + Len(out_ep) + Len(host.left) = CommandSize(kinds[call]))'
  BY <1>1, <1>4, <1>5, <1>7, <1>8, Same DEF n, l
<1>11. (Len(dev.buf) + Len(out_ep) >= HEADER)'
  <2>1. b + o >= HEADER
    BY <1>1 DEF Coming, Receiving, b, o
  <2>2. QED
    BY <1>1, <1>5, <1>7, <1>8, <2>1
<1>12. host_time' = 0 \/ host_time' = host_time
  BY <1>1
<1>13. QED
  BY <1>1, <1>7, <1>9, <1>10, <1>11, Same DEF Coming

\* The header is in step, and says what the call asks.
LEMMA ComingHeader ==
  ASSUME IInv, Coming, Header, dev.pc = "header"
  PROVE  Coming'
<1> DEFINE b == Len(dev.buf)
           n == CommandSize(kinds[call])
<1>1. UNCHANGED <<kinds, host, host_time, out_ep, in_ep>> /\ Received
  BY DEF Header, hostVars
<1>2. b = HEADER /\ b > 0 /\ call \in 1 .. call /\ b <= n
  BY <1>1, Typed, Constant, ComingOf DEF Received
<1>3. dev.buf[1].call = call
  BY <1>2, ComingOf
<1>4. /\ n \in Nat /\ kinds[call].send \in Nat /\ (kinds[call].send = 0 => n = HEADER + CRC)
      /\ \A p \in 1 .. n : Message(call)[p] = [call |-> call, pos |-> p]
  BY <1>2, WholeMessage
<1>5. InStep
  <2>1. ASSUME NEW p \in 1 .. HEADER
        PROVE  dev.buf[p] = [call |-> dev.buf[1].call, pos |-> p]
    <3>1. dev.buf[p] = Message(call)[0 + p]
      BY <1>2 DEF Coming, Piece
    <3> HIDE DEF b, n
    <3>2. 0 + p = p /\ p \in 1 .. n
      BY <1>2, <1>4, Constant
    <3>3. QED
      BY <1>3, <1>4, <3>1, <3>2
  <2>2. QED
    BY <2>1 DEF InStep
<1>6. IF kinds[call].send > 0 THEN Goto("payload", HEADER + WORD * kinds[call].send)
      ELSE Goto("crc", HEADER + CRC)
  BY <1>3, <1>5 DEF Header
<1>7. /\ dev'.buf = dev.buf /\ dev'.pc \in {"payload", "crc"}
      /\ dev'.pc = "payload" => kinds[call].send > 0 /\ dev'.want = HEADER + WORD * kinds[call].send
      /\ dev'.pc = "crc" => dev'.want = n
  <2> HIDE DEF n
  <2>1. CASE kinds[call].send > 0
    <3>1. dev' = [dev EXCEPT !.pc = "payload", !.want = HEADER + WORD * kinds[call].send]
      BY <1>6, <2>1 DEF Goto
    <3>2. QED
      BY <2>1, <3>1, Typed
  <2>2. CASE ~(kinds[call].send > 0)
    <3>1. dev' = [dev EXCEPT !.pc = "crc", !.want = HEADER + CRC]
      BY <1>6, <2>2 DEF Goto
    <3>2. n = HEADER + CRC
      BY <1>4, <2>2
    <3>3. QED
      BY <3>1, <3>2, Typed
  <2>3. QED
    BY <2>1, <2>2
<1>8. Len(dev.buf) + Len(out_ep) >= HEADER
  BY DEF Coming
<1>9. QED
  BY <1>1, <1>7, <1>8, Same DEF Coming

\* The whole command is there: it is carried out.
LEMMA ComingChecked ==
  ASSUME IInv, Coming, Checked, dev.pc = "crc"
  PROVE  Working'
<1> DEFINE b == Len(dev.buf)
           o == Len(out_ep)
           l == Len(host.left)
           n == CommandSize(kinds[call])
<1>1. /\ UNCHANGED <<kinds, host, host_time, out_ep, in_ep>> /\ b = n
  BY DEF Checked, hostVars, Received, Coming
<1>2. /\ b \in Nat /\ o \in Nat /\ l \in Nat /\ call \in 1 .. call /\ b + o + l = n
      /\ dev.buf \in Seq(CommandBytes(call)) /\ out_ep \in Seq(CommandBytes(call))
      /\ host.left \in Seq(CommandBytes(call)) /\ n > 0
  <2>1. HEADER + CRC <= n /\ n \in Nat
    BY ComingOf, WholeMessage
  <2> HIDE DEF n
  <2>2. n > 0
    BY <2>1, Constant
  <2>3. QED
    BY <2>2, ComingOf DEF Coming, n
<1>3. out_ep = <<>> /\ host.left = <<>>
  <2> HIDE DEF b, o, l, n
  <2>1. o = 0 /\ l = 0
    BY <1>1, <1>2
  <2>2. QED
    BY <1>2, <2>1, EmptySeq DEF o, l
<1>4. dev.buf = Message(call)
  <2>1. /\ Message(call) \in Seq(CommandBytes(call)) /\ Len(Message(call)) = b
    BY <1>1, <1>2, WholeMessage
  <2>2. \A p \in 1 .. b : dev.buf[p] = Message(call)[p]
    BY <1>2 DEF Coming, Piece
  <2>3. QED
    BY <1>2, <2>1, <2>2, SeqEqual
<1>5. CrcFits /\ Sender = call
  <2>1. dev.buf[1].call = call
    BY <1>1, <1>2, ComingOf
  <2>2. Sender = call
    BY <1>2, <1>4, <2>1 DEF Sender
  <2>3. QED
    BY <1>2, <2>2 DEF CrcFits
<1>6. /\ dev' = [dev EXCEPT !.pc = "work", !.want = 0] /\ dev_time' \in 0 .. MaxWork
      /\ executed' = [executed EXCEPT ![call] = @ + 1]
  BY <1>5 DEF Checked
<1>7. dev'.pc = "work" /\ dev'.buf[1].call = call
  <2>1. dev'.pc = "work" /\ dev'.buf = dev.buf
    BY <1>6, Typed
  <2>2. dev.buf[1].call = call
    BY <1>1, <1>2, ComingOf
  <2>3. QED
    BY <2>1, <2>2
<1>8. executed'[call] > 0
  <2>1. call \in Calls /\ executed \in [Calls -> Nat]
    BY <1>2, Counts DEF IInv, OnceOK
  <2>2. executed'[call] = executed[call] + 1 /\ executed[call] \in Nat
    BY <1>6, <2>1
  <2>3. QED
    BY <2>2
<1>9. host.pc = "readHeader" /\ host_time = 0
  BY <1>3 DEF Coming
<1>10. (host_time + dev_time <= MaxWork)'
  <2> DEFINE d == dev_time'
  <2>1. d \in 0 .. MaxWork
    BY <1>6
  <2>2. host_time' = 0
    BY <1>1, <1>9
  <2> HIDE DEF d
  <2>3. 0 + d <= MaxWork
    BY <2>1, Constant
  <2>4. QED
    BY <2>2, <2>3 DEF d
<1>11. call' = call
  BY <1>1, Same
<1>12. QED
  BY <1>1, <1>3, <1>7, <1>8, <1>9, <1>10, <1>11 DEF Working, Coming

\* The host writes on.
LEMMA ComingWritten ==
  ASSUME IInv, Coming, UsbWrite
  PROVE  Coming'
<1> DEFINE b == Len(dev.buf)
           o == Len(out_ep)
           left == host.left
           l == Len(left)
           first == Packet(left)
           rest == Rest(left, BULK_EP_SIZE)
           S == CommandBytes(call)
           m == Message(call)
           n == CommandSize(kinds[call])
<1>1. /\ UNCHANGED <<kinds, dev, in_ep>> /\ out_ep = <<>> /\ out_ep' = first
      /\ host' = [pc |-> IF l <= BULK_EP_SIZE THEN "readHeader" ELSE "write",
                  attempt |-> host.attempt, left |-> rest, rx |-> host.rx]
      /\ host_time' = 0
  BY DEF UsbWrite, HostGoto, devVars
<1>2. /\ b \in Nat /\ o = 0 /\ l \in Nat /\ left \in Seq(S) /\ call \in 1 .. call
  BY <1>1, ComingOf, EmptySeq
<1>3. Piece(dev.buf, 0, m) /\ Piece(left, b + 0, m) /\ b + 0 + l = n
  BY <1>2 DEF Coming
<1>4. n \in Nat /\ HEADER + CRC <= n
  BY <1>2, WholeMessage
<1>5. /\ dev.pc # "poll" => b >= HEADER
      /\ dev.pc = "poll" => b = 0
  BY <1>1, ComingOf, Typed, EmptySeq DEF Coming
<1> HIDE DEF left, S, m
<1>6. /\ Len(first) + Len(rest) = l
      /\ Len(first) = Least(BULK_EP_SIZE, l)
      /\ l > BULK_EP_SIZE => rest # <<>>
      /\ Piece(first, b + 0, m) /\ Piece(rest, b + 0 + Len(first), m)
      /\ first \in Seq(S) /\ rest \in Seq(S)
  <2>1. /\ Len(first) + Len(rest) = l
        /\ Len(first) = Least(BULK_EP_SIZE, l)
        /\ l > BULK_EP_SIZE => rest # <<>>
        /\ first \in Seq(S) /\ rest \in Seq(S)
    BY <1>2, SplitOf
  <2>2. b + 0 \in Nat
    BY <1>2
  <2>3. Piece(first, b + 0, m) /\ Piece(rest, b + 0 + Len(first), m)
    BY <1>2, <1>3, <2>2, SplitOf
  <2>4. QED
    BY <2>1, <2>3
<1> DEFINE f == Len(first)
           r == Len(rest)
<1>7. f \in Nat /\ r \in Nat
  BY <1>6, LenProperties
<1> HIDE DEF b, o, l, n, first, rest, f, r
<1>8. /\ f + r = l /\ f = Least(BULK_EP_SIZE, l)
      /\ Piece(first, b + 0, m) /\ Piece(rest, b + 0 + f, m)
  BY <1>6 DEF f, r
<1>9. b + 0 = b /\ b + 0 + f = b + f /\ b + f + r = n
  BY SMTT(30), <1>2, <1>3, <1>4, <1>7, <1>8
<1>10. b + f >= HEADER
  <2>1. dev.pc = "poll" => l = n
    BY <1>2, <1>3, <1>4, <1>5
  <2>2. dev.pc = "poll" => f >= HEADER
    BY <1>2, <1>4, <1>8, <2>1, Constant, PaceAssumption DEF Least
  <2>3. QED
    BY <1>2, <1>5, <1>7, <2>2, Constant
<1>11. (/\ Piece(dev.buf, 0, Message(call)) /\ Piece(out_ep, Len(dev.buf), Message(call))
        /\ Piece(host.left, Len(dev.buf) + Len(out_ep), Message(call)))'
  BY <1>1, <1>3, <1>8, <1>9, Same DEF m, b, f
<1>12. (/\ Len(dev.buf) + Len(out_ep) + Len(host.left) = CommandSize(kinds[call])
        /\ Len(dev.buf) + Len(out_ep) >= HEADER)'
  BY <1>1, <1>9, <1>10, Same DEF n, b, f, r
<1>13. host'.pc = "write" => host'.left # <<>>
  BY <1>1, <1>2, <1>6, Constant
<1>14. QED
  BY <1>1, <1>11, <1>12, <1>13, Same DEF Coming

LEMMA ComingStep ==
  ASSUME IInv, Coming, Firmware \/ Transact \/ Tick
  PROVE  Coming' \/ Working' \/ Lost'
<1>1. /\ host.pc \in {"write", "readHeader"} /\ dev.pc \in {"poll", "header", "payload", "crc"}
      /\ in_ep = <<>> /\ host.rx = <<>>
      /\ host.pc = "readHeader" \/ out_ep # <<>> => host_time = 0
      /\ host.pc = "readHeader" => host.left = <<>>
  BY Typed DEF Coming
<1>2. CASE Poll
  <2>1. /\ UNCHANGED <<kinds, host, host_time, out_ep, in_ep>> /\ out_ep # <<>>
        /\ dev'.pc = "header" /\ dev'.buf = dev.buf
    BY <1>2, Typed DEF Poll, Goto, hostVars
  <2>2. QED
    BY <2>1, Same DEF Coming
<1>3. CASE Payload
  <2>1. /\ UNCHANGED <<kinds, host, host_time, out_ep, in_ep>> /\ dev.pc = "payload"
        /\ dev'.pc = "crc" /\ dev'.buf = dev.buf /\ dev'.want = dev.want + CRC
    BY <1>3, Typed DEF Payload, Goto, hostVars
  <2>2. dev'.want = CommandSize(kinds[call])
    BY <2>1 DEF Coming, CommandSize
  <2>3. QED
    BY <2>1, <2>2, Same DEF Coming
<1>4. CASE WriteTimeout
  <2>1. host_time = 0 /\ host_time >= WRITE_TIMEOUT
    BY <1>1, <1>4 DEF WriteTimeout
  <2>2. DEV_TIMEOUT * (HEADER + BULK_EP_SIZE) \in Nat /\ WRITE_TIMEOUT \in Nat
    BY Constant, TimeAssumption
  <2>3. WRITE_TIMEOUT = 0
    BY <2>1, <2>2
  <2>4. DEV_TIMEOUT * (HEADER + BULK_EP_SIZE) < 0
    BY <2>3, PaceAssumption, Constant
  <2>5. QED
    BY <2>2, <2>4
<1>5. CASE host.pc = "readHeader" /\ (UsbRead \/ ReadTimeout \/ RecvHeader)
  <2>1. Short
    BY <1>1, <1>5, EmptySeq, Constant DEF Short, Reading, Wanted
  <2>2. ReadTimeout
    BY <1>1, <1>5, <2>1 DEF UsbRead, RecvHeader
  <2>3. 0 >= READ_TIMEOUT
    BY <1>1, <1>5, <2>2 DEF ReadTimeout
  <2>4. QED
    BY <2>3, PaceAssumption, Constant
<1>6. CASE Tick
  <2>1. UNCHANGED <<kinds, out_ep, in_ep, dev, host>>
    BY <1>6 DEF Tick
  <2>2. out_ep = <<>> /\ ~Received
    BY <1>1, <1>6 DEF Tick, Waits, Received, Receiving
  <2>3. host.pc # "readHeader"
    BY <1>1, <2>2, ComingOf
  <2>4. QED
    BY <2>1, <2>2, <2>3, Same DEF Coming
<1>7. Firmware => \/ Poll \/ BulkRecv \/ RecvTimeout \/ Payload
                  \/ dev.pc = "header" /\ Header
                  \/ dev.pc = "crc" /\ Checked
  BY <1>1, FirmwareOf
<1>8. Transact => \/ UsbWrite \/ WriteTimeout
                  \/ host.pc = "readHeader" /\ (UsbRead \/ ReadTimeout \/ RecvHeader)
  BY <1>1, TransactOf
<1>9. QED
  BY <1>2, <1>3, <1>4, <1>5, <1>6, <1>7, <1>8, ComingTaken, ComingLost, ComingHeader,
     ComingChecked, ComingWritten

\* Products grow with their factors.
LEMMA Scale ==
  \A k, a, b \in Nat : /\ k * a \in Nat /\ (a <= b => k * a <= k * b)
                       /\ k * (a + b) = k * a + k * b
                       /\ a <= b => k * (b - a) + k * a = k * b
                       /\ k * (a + 1) = k * a + k
<1> SUFFICES ASSUME NEW k \in Nat, NEW a \in Nat, NEW b \in Nat
             PROVE  /\ k * a \in Nat /\ (a <= b => k * a <= k * b)
                    /\ k * (a + b) = k * a + k * b
                    /\ a <= b => k * (b - a) + k * a = k * b
                    /\ k * (a + 1) = k * a + k
  OBVIOUS
<1>1. \A c \in Nat : k * c \in Nat
  OBVIOUS
<1>2. \A c \in Nat : k * (a + c) = k * a + k * c
  OBVIOUS
<1>3. a <= b => /\ k * (b - a) \in Nat
                /\ k * b = k * a + k * (b - a)
  <2> SUFFICES ASSUME a <= b
               PROVE  k * (b - a) \in Nat /\ k * b = k * a + k * (b - a)
    OBVIOUS
  <2>1. b - a \in Nat /\ a + (b - a) = b
    OBVIOUS
  <2> DEFINE c == b - a
  <2>2. c \in Nat /\ a + c = b
    BY <2>1
  <2> HIDE DEF c
  <2>3. k * c \in Nat /\ k * (a + c) = k * a + k * c
    BY <1>1, <1>2, <2>2
  <2>4. k * b = k * a + k * c
    BY <2>2, <2>3
  <2>5. QED
    BY <2>3, <2>4 DEF c
<1>4. k * (a + 1) = k * a + k
  OBVIOUS
<1>5. a <= b => k * a <= k * b
  BY <1>1, <1>3
<1>6. a <= b => k * (b - a) + k * a = k * b
  BY <1>1, <1>3
<1>7. QED
  BY <1>1, <1>2, <1>4, <1>5, <1>6

LEMMA SorryReply ==
  ASSUME IInv, call \in 1 .. call
  PROVE  /\ Sorry \in Seq(AnswerBytes(call)) /\ Sorry # <<>>
         /\ Len(Sorry) = RHEADER + CRC /\ Len(Sorry) <= BULK_EP_SIZE /\ Packet(Sorry) = Sorry
         /\ \A p \in 1 .. Len(Sorry) :
              Sorry[p] = [call |-> call, pos |-> p, size |-> Len(Sorry), good |-> FALSE]
<1>1. call \in Nat
  BY Typed
<1>2. /\ Sorry \in Seq(AnswerBytes(call)) /\ Len(Sorry) = RHEADER + CRC
      /\ \A p \in 1 .. Len(Sorry) :
           Sorry[p] = [call |-> call, pos |-> p, size |-> Len(Sorry), good |-> FALSE]
  BY <1>1, WholeReply DEF Sorry
<1>3. Sorry # <<>>
  BY <1>2, EmptySeq, Constant
<1>4. Len(Sorry) <= BULK_EP_SIZE
  BY <1>2, PaceAssumption
<1>5. Packet(Sorry) = Sorry
  BY <1>2, <1>4, SplitOf
<1>6. QED
  BY <1>2, <1>3, <1>4, <1>5

\* What the firmware owes at most.
LEMMA DebtOf ==
  IInv /\ dev.pc # "work" =>
    /\ Held \in Nat /\ Debt \in Nat /\ NextWait \in Nat /\ NextWait <= DEV_TIMEOUT
    /\ Debt <= DEV_TIMEOUT * (HEADER + Len(out_ep))
<1> SUFFICES ASSUME IInv, dev.pc # "work"
             PROVE  /\ Held \in Nat /\ Debt \in Nat /\ NextWait \in Nat
                    /\ NextWait <= DEV_TIMEOUT
                    /\ Debt <= DEV_TIMEOUT * (HEADER + Len(out_ep))
  OBVIOUS
<1> DEFINE e == Len(out_ep)
           b == Len(dev.buf)
           t == dev_time
           owed == HEADER * (DEV_TIMEOUT - dev_time)
<1>1. /\ e \in Nat /\ b \in Nat /\ t \in 0 .. DEV_TIMEOUT /\ DEV_TIMEOUT \in Nat
      /\ HEADER \in Nat /\ (dev.pc = "header" => b <= HEADER)
  BY Typed, Constant
<1>2. owed \in Nat /\ owed <= DEV_TIMEOUT * HEADER
  <2> DEFINE d == DEV_TIMEOUT - t
  <2>1. d \in Nat /\ d <= DEV_TIMEOUT
    <3> HIDE DEF t
    <3>1. QED
      BY <1>1
  <2> HIDE DEF d
  <2>2. HEADER * d \in Nat /\ HEADER * d <= HEADER * DEV_TIMEOUT
    BY <1>1, <2>1, Scale
  <2>3. HEADER * DEV_TIMEOUT = DEV_TIMEOUT * HEADER
    BY <1>1
  <2>4. QED
    BY <2>2, <2>3 DEF d
<1>3. /\ Held = e \/ Held = e + b \/ Held = e + HEADER
      /\ dev.pc = "header" => Held = e + b
      /\ dev.pc \in {"payload", "crc"} => Held = e + HEADER
      /\ dev.pc \notin {"header", "payload", "crc"} => Held = e
  <2>1. dev.pc = "header" => Held = e + b
    BY DEF Held
  <2>2. dev.pc \in {"payload", "crc"} => Held = e + HEADER
    BY DEF Held
  <2>3. dev.pc \notin {"header", "payload", "crc"} => Held = e + 0
    BY DEF Held
  <2> HIDE DEF e, b
  <2>4. e + 0 = e
    BY <1>1
  <2>5. QED
    BY <2>1, <2>2, <2>3, <2>4
<1>4. Debt = DEV_TIMEOUT * Held + IF dev.pc = "send" THEN owed ELSE 0
  BY DEF Debt
<1>5. NextWait = DEV_TIMEOUT - t \/ NextWait = DEV_TIMEOUT - 0
  BY DEF NextWait
<1> DEFINE h == Held
<1> HIDE DEF e, b, t, owed, h
<1>6. NextWait \in Nat /\ NextWait <= DEV_TIMEOUT
  BY <1>1, <1>5
<1>7. h \in Nat /\ h <= HEADER + e /\ (dev.pc = "send" => h = e)
  BY <1>1, <1>3 DEF h
<1>8. /\ DEV_TIMEOUT * h \in Nat /\ DEV_TIMEOUT * h <= DEV_TIMEOUT * (HEADER + e)
      /\ DEV_TIMEOUT * (HEADER + e) = DEV_TIMEOUT * HEADER + DEV_TIMEOUT * e
      /\ DEV_TIMEOUT * HEADER \in Nat /\ DEV_TIMEOUT * e \in Nat
  BY <1>1, <1>7, Scale
<1>9. CASE dev.pc = "send"
  <2>1. Debt = DEV_TIMEOUT * e + owed
    BY <1>4, <1>7, <1>9 DEF h
  <2>2. QED
    BY <1>2, <1>6, <1>7, <1>8, <2>1 DEF h, e
<1>10. CASE dev.pc # "send"
  <2>1. Debt = DEV_TIMEOUT * h + 0
    BY <1>4, <1>10 DEF h
  <2>2. QED
    BY <1>6, <1>7, <1>8, <2>1 DEF h, e
<1>11. QED
  BY <1>9, <1>10

\* What bulk_recv() takes and what it leaves.
LEMMA TakenLengths ==
  ASSUME IInv, BulkRecv
  PROVE  \E k \in Nat : /\ k <= Len(out_ep) /\ Len(out_ep') = Len(out_ep) - k
                        /\ Len(dev'.buf) = Len(dev.buf) + k /\ dev'.pc = dev.pc
<1> DEFINE b == Len(dev.buf)
           o == Len(out_ep)
           want == dev.want
           k == Least(want - b, o)
           s == dev.buf
           S == CommandBytes(call)
<1>1. s \in Seq(S) /\ out_ep \in Seq(S) /\ b \in Nat /\ o \in Nat /\ want \in Nat /\ b <= want
  BY Typed DEF BulkRecv, Receiving
<1>2. k \in Nat /\ k <= o
  <2> HIDE DEF b, o, want
  <2>1. QED
    BY <1>1 DEF Least
<1>3. dev' = [dev EXCEPT !.buf = s \o SubSeq(out_ep, 1, k)] /\ out_ep' = Rest(out_ep, k)
  BY DEF BulkRecv
<1> HIDE DEF k
<1>4. dev'.buf = s \o SubSeq(out_ep, 1, k) /\ dev'.pc = dev.pc
  BY <1>3, Typed
<1> HIDE DEF s, S
<1>5. Len(s \o SubSeq(out_ep, 1, k)) = Len(s) + k
  BY <1>1, <1>2, TakenOf
<1>6. Len(Rest(out_ep, k)) = o - k
  BY <1>1, <1>2, TakenOf
<1>7. QED
  BY <1>2, <1>3, <1>4, <1>5, <1>6 DEF s

\* The firmware never owes more than before; and it waits no longer, but where it
\* has stopped reading.
LEMMA PaidStep ==
  ASSUME IInv, Firmware, dev.pc # "work", dev'.pc # "work",
         dev.pc = "send" => dev'.pc # "send"
  PROVE  Debt' <= Debt /\ (Quiet' \/ NextWait' <= NextWait)
<1> DEFINE e == Len(out_ep)
           b == Len(dev.buf)
           e2 == Len(out_ep')
           b2 == Len(dev'.buf)
           h == Held
           h2 == Held'
           owed == IF dev.pc = "send" THEN HEADER * (DEV_TIMEOUT - dev_time) ELSE 0
           owed2 == IF dev'.pc = "send" THEN HEADER * (DEV_TIMEOUT - dev_time') ELSE 0
<1>1. /\ e \in Nat /\ b \in Nat /\ HEADER \in Nat /\ DEV_TIMEOUT \in Nat
      /\ (dev.pc = "poll" => dev.buf = <<>>)
  BY Typed, Constant
<1>2. /\ Debt = DEV_TIMEOUT * h + owed /\ Debt' = DEV_TIMEOUT * h2 + owed2
      /\ h \in Nat /\ owed \in Nat
  <2>1. dev_time \in 0 .. DEV_TIMEOUT
    BY Typed
  <2>2. DEV_TIMEOUT - dev_time \in Nat
    BY <2>1, Constant
  <2>3. owed \in Nat
    BY <2>2, Scale, Constant
  <2>4. h \in Nat
    BY DebtOf
  <2>5. QED
    BY <2>3, <2>4 DEF Debt
<1>3. /\ dev.pc = "header" => h = e + b
      /\ dev.pc \in {"payload", "crc"} => h = e + HEADER
      /\ dev.pc \notin {"header", "payload", "crc"} => h = e + 0
  BY DEF Held
<1>4. /\ dev'.pc = "header" => h2 = e2 + b2
      /\ dev'.pc \in {"payload", "crc"} => h2 = e2 + HEADER
      /\ dev'.pc \notin {"header", "payload", "crc"} => h2 = e2 + 0
  BY DEF Held
<1>5. dev'.pc # "send" => owed2 = 0
  OBVIOUS
<1>6. dev'.pc = "send" /\ dev_time' = 0 => owed2 = HEADER * DEV_TIMEOUT
  BY Constant
<1>7. dev_time' = 0 => NextWait' = DEV_TIMEOUT
  BY Constant DEF NextWait
<1>8. ~(Receiving /\ ~Received /\ out_ep = <<>>) => NextWait = DEV_TIMEOUT
  BY Constant DEF NextWait
<1> HIDE DEF e, b, e2, b2, h, h2, owed, owed2
<1>9. ASSUME dev'.pc # "send", h2 \in Nat, h2 <= h
      PROVE  Debt' <= Debt
  <2>1. DEV_TIMEOUT * h2 <= DEV_TIMEOUT * h /\ DEV_TIMEOUT * h2 \in Nat /\ DEV_TIMEOUT * h \in Nat
    BY <1>1, <1>2, <1>9, Scale
  <2>2. DEV_TIMEOUT * h2 + 0 <= DEV_TIMEOUT * h + owed
    BY <1>2, <2>1
  <2>3. QED
    BY <1>2, <1>5, <1>9, <2>2
<1>10. ASSUME dev'.pc = "send", dev_time' = 0, e2 = e, h = e + HEADER
       PROVE  Debt' <= Debt
  <2>1. h2 = e
    BY <1>1, <1>4, <1>10
  <2>2. /\ DEV_TIMEOUT * (e + HEADER) = DEV_TIMEOUT * e + DEV_TIMEOUT * HEADER
        /\ DEV_TIMEOUT * HEADER = HEADER * DEV_TIMEOUT
        /\ DEV_TIMEOUT * e \in Nat /\ DEV_TIMEOUT * HEADER \in Nat
    BY <1>1, Scale
  <2>3. DEV_TIMEOUT * e + HEADER * DEV_TIMEOUT <= DEV_TIMEOUT * (e + HEADER) + owed
    BY <1>2, <2>2
  <2>4. QED
    BY <1>2, <1>6, <1>10, <2>1, <2>3
<1>11. ASSUME Return, e2 = e
       PROVE  Debt' <= Debt /\ dev_time' = 0
  <2>1. dev'.pc = "poll" /\ dev_time' = 0
    BY <1>11 DEF Return
  <2>2. h2 = e
    BY <1>1, <1>4, <1>11, <2>1
  <2>3. dev.pc \in {"poll", "header", "payload", "crc", "work", "send"}
    BY Typed
  <2>4. e <= h
    BY <1>1, <1>3, <2>3
  <2>5. QED
    BY <1>1, <1>9, <2>1, <2>2, <2>4
<1>12. CASE Poll
  <2>1. e2 = e /\ dev'.pc = "header" /\ dev'.buf = dev.buf /\ dev_time' = 0 /\ dev.pc = "poll"
    BY <1>12, Typed DEF Poll, Goto, e, e2
  <2>2. b2 = 0
    BY <1>1, <2>1, EmptySeq DEF b2
  <2>3. h2 = e /\ h = e
    BY <1>1, <1>3, <1>4, <2>1, <2>2
  <2>4. NextWait = DEV_TIMEOUT
    BY <1>8, <2>1 DEF Receiving
  <2>5. QED
    BY <1>1, <1>7, <1>9, <2>1, <2>3, <2>4
<1>13. CASE BulkRecv
  <2>1. PICK k \in Nat : k <= e /\ e2 = e - k /\ b2 = b + k /\ dev'.pc = dev.pc
    BY <1>13, TakenLengths DEF e, b, e2, b2
  <2>2. dev.pc \in {"header", "payload", "crc"} /\ out_ep # <<>> /\ dev_time' = 0
    BY <1>13 DEF BulkRecv, Receiving
  <2>3. h2 \in Nat /\ h2 <= h
    BY <1>1, <1>3, <1>4, <2>1, <2>2
  <2>4. NextWait = DEV_TIMEOUT
    BY <1>8, <2>2
  <2>5. QED
    BY <1>1, <1>7, <1>9, <2>1, <2>2, <2>3, <2>4
<1>14. CASE RecvTimeout
  <2>1. e2 = e /\ out_ep' = <<>> /\ Receiving
    BY <1>14 DEF RecvTimeout, e, e2
  <2>2. CASE dev.pc = "header"
    <3>1. Return
      BY <1>14, <2>2 DEF RecvTimeout
    <3>2. Quiet'
      BY <2>1, <3>1 DEF Return, Quiet
    <3>3. QED
      BY <1>11, <2>1, <3>1, <3>2
  <2>3. CASE dev.pc # "header"
    <3>1. dev'.pc = "send" /\ dev_time' = 0
      BY <1>14, <2>3 DEF RecvTimeout, SendResponse
    <3>2. h = e + HEADER
      BY <1>3, <2>1, <2>3 DEF Receiving
    <3>3. Quiet'
      BY <2>1, <3>1 DEF Quiet
    <3>4. QED
      BY <1>10, <2>1, <3>1, <3>2, <3>3
  <2>4. QED
    BY <2>2, <2>3
<1>15. CASE dev.pc = "header" /\ Header
  <2>1. e2 = e /\ Received /\ b = HEADER /\ h = e + HEADER
    BY <1>3, <1>15, Typed DEF Header, Received, e, e2, b
  <2>2. NextWait = DEV_TIMEOUT
    BY <1>8, <2>1
  <2>3. ASSUME NEW pc \in {"payload", "crc"}, NEW want, Goto(pc, want)
        PROVE  Debt' <= Debt /\ dev_time' = 0
    <3>1. dev'.pc = pc /\ dev_time' = 0
      BY <2>3, Typed DEF Goto
    <3>2. h2 = e + HEADER
      BY <1>4, <2>1, <3>1
    <3>3. QED
      BY <1>1, <1>9, <2>1, <3>1, <3>2
  <2>4. \/ \E k \in Kinds \cup {kinds[dev.buf[1].call]} :
             Goto("payload", HEADER + WORD * k.send) \/ Goto("crc", HEADER + CRC)
        \/ SendResponse(dev.buf[1].call, 0, FALSE)
        \/ Return
    BY <1>15 DEF Header
  <2>5. CASE SendResponse(dev.buf[1].call, 0, FALSE)
    <3>1. dev'.pc = "send" /\ dev_time' = 0
      BY <2>5 DEF SendResponse
    <3>2. QED
      BY <1>1, <1>7, <1>10, <2>1, <2>2, <3>1
  <2>6. Debt' <= Debt /\ dev_time' = 0
    BY <1>11, <2>1, <2>3, <2>4, <2>5 DEF SendResponse
  <2>7. QED
    BY <1>1, <1>7, <2>2, <2>6
<1>16. CASE Payload
  <2>1. /\ e2 = e /\ Received /\ dev.pc = "payload" /\ dev'.pc = "crc" /\ dev_time' = 0
    BY <1>16, Typed DEF Payload, Goto, e, e2
  <2>2. h = e + HEADER /\ h2 = e + HEADER
    BY <1>3, <1>4, <2>1
  <2>3. QED
    BY <1>1, <1>7, <1>8, <1>9, <2>1, <2>2
<1>17. CASE dev.pc = "crc" /\ Checked
  <2>1. e2 = e /\ Received /\ h = e + HEADER
    BY <1>3, <1>17 DEF Checked, e, e2
  <2>2. dev'.pc = "send" /\ dev_time' = 0
    <3>1. dev' = [dev EXCEPT !.pc = "work", !.want = 0] => dev'.pc = "work"
      BY Typed
    <3>2. SendResponse(dev.buf[1].call, 0, FALSE)
      BY <1>17, <3>1 DEF Checked
    <3>3. QED
      BY <3>2 DEF SendResponse
  <2>3. QED
    BY <1>1, <1>7, <1>8, <1>10, <2>1, <2>2
<1>18. CASE dev.pc = "send" /\ (BulkSend \/ SendTimeout)
  <2>1. e2 = e
    BY <1>18 DEF BulkSend, SendTimeout, e, e2
  <2>2. Return
    <3>1. dev' = [dev EXCEPT !.reply = Rest(@, BULK_EP_SIZE)] => dev'.pc = "send"
      BY <1>18, Typed
    <3>2. QED
      BY <1>18, <3>1 DEF BulkSend, SendTimeout
  <2>3. NextWait = DEV_TIMEOUT
    BY <1>8, <1>18 DEF Receiving
  <2>4. QED
    BY <1>1, <1>7, <1>11, <2>1, <2>2, <2>3
<1>19. QED
  BY <1>12, <1>13, <1>14, <1>15, <1>16, <1>17, <1>18, FirmwareOf


\* Bytes from the middle of the command are no command.
LEMMA MiddleOf ==
  ASSUME IInv, dev.buf \in Middle, dev.buf # <<>>
  PROVE  dev.buf[1].call = call /\ dev.buf[1].pos # 1 /\ ~CrcFits
<1>1. Len(dev.buf) \in Nat \ {0}
  BY EmptySeq, LenProperties DEF Middle
<1>2. dev.buf[1] \in [call : {call}, pos : Nat \ {0, 1}]
  <2> DEFINE T == [call : {call}, pos : Nat \ {0, 1}]
             s == dev.buf
  <2>1. s \in Seq(T) /\ Len(s) \in Nat \ {0}
    BY <1>1 DEF Middle
  <2> HIDE DEF T, s
  <2>2. s[1] \in T
    BY <2>1, ElementOfSeq
  <2>3. QED
    BY <2>2 DEF T, s
<1>3. dev.buf[1].call = call /\ dev.buf[1].pos # 1
  BY <1>2
<1>4. \A c \in 1 .. call : dev.buf # Message(c)
  <2>1. kinds \in Seq(Kinds)
    BY DEF IInv, HostOK
  <2>2. \A c \in 1 .. call : Message(c)[1] = [call |-> c, pos |-> 1]
    BY <2>1, MessageOf
  <2>3. ASSUME NEW c \in 1 .. call
        PROVE  Message(c)[1].pos = 1
    <3>1. Message(c)[1] = [call |-> c, pos |-> 1]
      BY <2>2
    <3>2. QED
      BY <3>1
  <2>4. QED
    BY <1>3, <2>3
<1>5. QED
  BY <1>3, <1>4 DEF CrcFits, Sender

\* The firmware reads on out of step, and answers that it is sorry.
LEMMA LostRead ==
  ASSUME IInv, Lost, Firmware
  PROVE  /\ dev'.pc # "work" /\ (dev.pc = "send" => dev'.pc # "send")
         /\ out_ep' \in Middle /\ (Receiving' => dev'.buf \in Middle)
         /\ in_ep' \in {<<>>, Sorry} /\ (dev'.pc = "send" => dev'.reply = Sorry)
         /\ host.rx = <<>> /\ in_ep' = <<>> => dev'.pc = "send"
         /\ out_ep = <<>> => out_ep' = <<>>
         /\ Quiet => Quiet'
<1>1. /\ dev.pc # "work" /\ out_ep \in Middle /\ (Receiving => dev.buf \in Middle)
      /\ in_ep \in {<<>>, Sorry} /\ (dev.pc = "send" => dev.reply = Sorry)
      /\ host.rx = <<>> /\ in_ep = <<>> => dev.pc = "send"
  BY DEF Lost
<1>2. call \in 1 .. call
  BY Typed DEF Lost
<1> DEFINE Goal ==
      /\ dev'.pc # "work" /\ (dev.pc = "send" => dev'.pc # "send")
      /\ out_ep' \in Middle /\ (Receiving' => dev'.buf \in Middle)
      /\ in_ep' \in {<<>>, Sorry} /\ (dev'.pc = "send" => dev'.reply = Sorry)
      /\ host.rx = <<>> /\ in_ep' = <<>> => dev'.pc = "send"
      /\ out_ep = <<>> => out_ep' = <<>>
      /\ Quiet => Quiet'
<1>3. ASSUME NEW c, SendResponse(c, 0, FALSE), c = call, Receiving, UNCHANGED <<out_ep, in_ep>>
      PROVE  Goal
  <2>1. dev'.pc = "send" /\ dev'.reply = Sorry
    BY <1>3 DEF SendResponse, Sorry
  <2>2. QED
    BY <1>1, <1>3, <2>1 DEF Receiving, Quiet
<1>4. ASSUME Return, Receiving, UNCHANGED <<out_ep, in_ep>>
      PROVE  Goal
  <2>1. dev'.pc = "poll"
    BY <1>4 DEF Return
  <2>2. QED
    BY <1>1, <1>4, <2>1 DEF Receiving, Quiet
<1>5. ASSUME NEW pc \in {"header", "payload", "crc"}, NEW want, Goto(pc, want), dev.pc # "send",
             dev.buf \in Middle, dev.pc = "poll" => out_ep # <<>>, UNCHANGED <<out_ep, in_ep>>
      PROVE  Goal
  <2>1. dev'.pc = pc /\ dev'.buf = dev.buf
    BY <1>5, Typed DEF Goto
  <2>2. QED
    BY <1>1, <1>5, <2>1 DEF Receiving, Quiet
<1>6. CASE dev.pc = "poll" /\ out_ep # <<>> /\ Poll
  <2>1. dev.buf \in Middle
    BY <1>6, Typed, EmptySeq DEF Middle
  <2>2. QED
    BY <1>5, <1>6, <2>1 DEF Poll
<1>7. CASE BulkRecv
  <2> DEFINE T == [call : {call}, pos : Nat \ {0, 1}]
             o == Len(out_ep)
             b == Len(dev.buf)
             want == dev.want
             k == Least(want - b, o)
  <2>1. /\ Receiving /\ UNCHANGED in_ep /\ out_ep # <<>>
        /\ dev' = [dev EXCEPT !.buf = @ \o SubSeq(out_ep, 1, k)] /\ out_ep' = Rest(out_ep, k)
    BY <1>7 DEF BulkRecv
  <2>2. o \in Nat /\ b \in Nat /\ want \in Nat /\ b <= want
    BY <2>1, Typed DEF Receiving
  <2>3. k \in Nat /\ k <= o
    <3> HIDE DEF o, b, want
    <3>1. QED
      BY <2>2 DEF Least
  <2>4. dev'.pc = dev.pc /\ dev'.buf = dev.buf \o SubSeq(out_ep, 1, k)
    BY <2>1, Typed
  <2>5. dev.buf \in Seq(T) /\ out_ep \in Seq(T)
    BY <1>1, <2>1 DEF Middle
  <2> HIDE DEF T, k
  <2>6. dev.buf \o SubSeq(out_ep, 1, k) \in Seq(T) /\ Rest(out_ep, k) \in Seq(T)
    BY <2>3, <2>5, TakenOf
  <2>7. dev'.buf \in Middle /\ out_ep' \in Middle
    BY <2>1, <2>4, <2>6 DEF T, Middle
  <2>8. QED
    BY <1>1, <2>1, <2>4, <2>7 DEF Receiving, Quiet
<1>8. CASE RecvTimeout
  <2>1. UNCHANGED <<out_ep, in_ep>> /\ Receiving
    BY <1>8 DEF RecvTimeout
  <2>2. CASE dev.pc = "header"
    BY <1>4, <1>8, <2>1, <2>2 DEF RecvTimeout
  <2>3. CASE dev.pc # "header"
    <3>1. dev.buf # <<>>
      BY <2>1, <2>3, Typed DEF Receiving
    <3>2. dev.buf[1].call = call
      BY <1>1, <2>1, <3>1, MiddleOf
    <3>3. SendResponse(dev.buf[1].call, 0, FALSE)
      BY <1>8, <2>3 DEF RecvTimeout
    <3>4. QED
      BY <1>3, <2>1, <3>2, <3>3
  <2>4. QED
    BY <2>2, <2>3
<1>9. CASE dev.pc = "header" /\ Header
  <2>1. UNCHANGED <<out_ep, in_ep>> /\ Receiving /\ dev.buf \in Middle
    BY <1>1, <1>9 DEF Header, Received
  <2>2. dev.buf # <<>>
    BY <1>9, Typed, EmptySeq, Constant DEF Header, Received
  <2>3. dev.buf[1].call = call
    BY <2>1, <2>2, MiddleOf
  <2>4. \/ \E k \in Kinds \cup {kinds[dev.buf[1].call]} :
             Goto("payload", HEADER + WORD * k.send) \/ Goto("crc", HEADER + CRC)
        \/ SendResponse(dev.buf[1].call, 0, FALSE)
        \/ Return
    BY <1>9 DEF Header
  <2>5. \A want : Goto("payload", want) \/ Goto("crc", want) => Goal
    BY <1>5, <1>9, <2>1
  <2>6. SendResponse(dev.buf[1].call, 0, FALSE) \/ Return => Goal
    BY <1>3, <1>4, <2>1, <2>3
  <2>7. QED
    BY <2>4, <2>5, <2>6
<1>10. CASE Payload
  <2>1. dev.pc = "payload" /\ dev.buf \in Middle /\ UNCHANGED <<out_ep, in_ep>>
    BY <1>1, <1>10 DEF Payload, Received
  <2>2. QED
    BY <1>5, <1>10, <2>1 DEF Payload
<1>11. CASE dev.pc = "crc" /\ Checked
  <2>1. UNCHANGED <<out_ep, in_ep>> /\ Receiving /\ dev.buf \in Middle
    BY <1>1, <1>11 DEF Checked, Received
  <2>2. dev.buf # <<>>
    BY <1>11, Typed
  <2>3. dev.buf[1].call = call /\ ~CrcFits
    BY <2>1, <2>2, MiddleOf
  <2>4. SendResponse(dev.buf[1].call, 0, FALSE)
    BY <1>11, <2>3 DEF Checked
  <2>5. QED
    BY <1>3, <2>1, <2>3, <2>4
<1>12. CASE BulkSend
  <2>1. dev.reply = Sorry /\ dev.pc = "send" /\ out_ep' = out_ep /\ in_ep' = Packet(Sorry)
    BY <1>1, <1>12 DEF BulkSend
  <2>2. Len(Sorry) <= BULK_EP_SIZE /\ Packet(Sorry) = Sorry /\ Sorry # <<>>
    BY <1>2, SorryReply
  <2>3. Return
    BY <1>12, <2>1, <2>2 DEF BulkSend
  <2>4. dev'.pc = "poll"
    BY <2>3 DEF Return
  <2>5. QED
    BY <1>1, <2>1, <2>2, <2>4 DEF Receiving, Quiet
<1>13. CASE SendTimeout
  <2>1. dev.pc = "send" /\ in_ep # <<>> /\ UNCHANGED <<out_ep, in_ep>> /\ dev'.pc = "poll"
    BY <1>13 DEF SendTimeout, Return
  <2>2. QED
    BY <1>1, <2>1 DEF Receiving, Quiet
<1>14. Goal
  BY <1>1, <1>6, <1>7, <1>8, <1>9, <1>10, <1>11, <1>12, <1>13, FirmwareOf
<1>15. QED
  BY <1>14

LEMMA LostFirmware ==
  ASSUME IInv, Lost, Firmware
  PROVE  Lost'
<1>1. UNCHANGED <<kinds, host, host_time>>
  BY DEF Firmware, Poll, BulkRecv, RecvTimeout, Header, Payload, Checked, Answer,
         BulkSend, SendTimeout, hostVars
<1>2. call' = call /\ Sorry' = Sorry /\ Middle' = Middle
  BY <1>1, Same DEF Middle
<1>3. /\ dev'.pc # "work" /\ (dev.pc = "send" => dev'.pc # "send")
      /\ out_ep' \in Middle /\ (Receiving' => dev'.buf \in Middle)
      /\ in_ep' \in {<<>>, Sorry} /\ (dev'.pc = "send" => dev'.reply = Sorry)
      /\ host.rx = <<>> /\ in_ep' = <<>> => dev'.pc = "send"
      /\ out_ep = <<>> => out_ep' = <<>>
      /\ Quiet => Quiet'
  BY LostRead
<1>4. Debt' <= Debt /\ (Quiet' \/ NextWait' <= NextWait)
  BY <1>3, PaidStep DEF Lost
<1>5. /\ Debt \in Nat /\ NextWait \in Nat /\ host_time \in Nat /\ IInv'
  BY Typed, DebtOf, FirmwareStep DEF Lost
<1>6. Debt' \in Nat /\ NextWait' \in Nat
  <2>1. (IInv /\ dev.pc # "work" =>
          /\ Held \in Nat /\ Debt \in Nat /\ NextWait \in Nat /\ NextWait <= DEV_TIMEOUT
          /\ Debt <= DEV_TIMEOUT * (HEADER + Len(out_ep)))'
    BY DebtOf, PTL
  <2>2. QED
    BY <1>3, <1>5, <2>1
<1>7. InTime'
  <2> DEFINE d == Debt
             d2 == Debt'
             n == NextWait
             n2 == NextWait'
             t == HEADER * host_time
             x == DEV_TIMEOUT * (HEADER + BULK_EP_SIZE)
             y == DEV_TIMEOUT * (HEADER + HEADER + BULK_EP_SIZE)
  <2>1. /\ t \in Nat /\ x \in Nat /\ y \in Nat /\ HEADER * n \in Nat /\ HEADER * n2 \in Nat
        /\ n2 <= n => HEADER * n2 <= HEADER * n
    <3>1. HEADER \in Nat /\ DEV_TIMEOUT \in Nat /\ BULK_EP_SIZE \in Nat
      BY Constant
    <3>2. x \in Nat /\ y \in Nat
      BY <3>1
    <3>3. t \in Nat
      BY <1>5, <3>1
    <3>4. n \in Nat /\ n2 \in Nat
      BY <1>5, <1>6
    <3> HIDE DEF n, n2
    <3>5. HEADER * n \in Nat /\ HEADER * n2 \in Nat /\ (n2 <= n => HEADER * n2 <= HEADER * n)
      BY <3>1, <3>4, Scale
    <3>6. QED
      BY <3>2, <3>3, <3>5
  <2>2. /\ host.pc = "write" /\ out_ep # <<>> => t + d <= x
        /\ host.pc = "readHeader" /\ host.rx = <<>> /\ ~Quiet => t + d + HEADER * n <= y
    BY DEF Lost, InTime
  <2>3. d2 \in Nat /\ d \in Nat /\ d2 <= d /\ n2 \in Nat /\ n \in Nat /\ (Quiet' \/ n2 <= n)
    BY <1>4, <1>5, <1>6
  <2>4. t' = t /\ x' = x /\ y' = y
    BY <1>1
  <2> DEFINE p == HEADER * n
             p2 == HEADER * n2
  <2>5. /\ host'.pc = "write" /\ out_ep' # <<>> => t + d2 <= x
        /\ host'.pc = "readHeader" /\ host'.rx = <<>> /\ ~Quiet' => t + d2 + p2 <= y
    <3> HIDE DEF d, d2, t, x, y, p, p2
    <3>1. t + d <= x => t + d2 <= x
      BY <2>1, <2>3
    <3>2. p \in Nat /\ p2 \in Nat /\ (n2 <= n => p2 <= p)
      BY <2>1 DEF p, p2
    <3>3. p2 <= p /\ t + d + p <= y => t + d2 + p2 <= y
      BY <2>1, <2>3, <3>2
    <3>4. /\ host.pc = "write" /\ out_ep # <<>> => t + d <= x
          /\ host.pc = "readHeader" /\ host.rx = <<>> /\ ~Quiet => t + d + p <= y
      BY <2>2 DEF p
    <3> HIDE DEF n, n2
    <3>5. QED
      BY <1>1, <1>3, <2>3, <3>1, <3>2, <3>3, <3>4
  <2>6. QED
    BY <1>1, <2>5 DEF InTime
<1>8. QED
  BY <1>1, <1>2, <1>3, <1>7 DEF Lost

\* The host's next packet, and the end of its wait.
LEMMA LostWritten ==
  ASSUME IInv, IInv', Lost, UsbWrite
  PROVE  Lost'
<1> DEFINE T == [call : {call}, pos : Nat \ {0, 1}]
           left == host.left
<1>1. /\ UNCHANGED <<kinds, dev, dev_time, in_ep>> /\ host.pc = "write" /\ out_ep' = Packet(left)
      /\ host'.pc \in {"write", "readHeader"} /\ host'.left = Rest(left, BULK_EP_SIZE)
      /\ host'.rx = host.rx /\ host_time' = 0
  BY DEF UsbWrite, HostGoto, devVars
<1>2. left \in Seq(T)
  BY DEF Lost, Middle
<1>3. call' = call /\ Sorry' = Sorry /\ Middle' = Middle
  BY <1>1, Same DEF Middle
<1> HIDE DEF T, left
<1>4. out_ep' \in Seq(T) /\ host'.left \in Seq(T)
  BY <1>1, <1>2, SplitOf
<1>5. out_ep' \in Middle' /\ host'.left \in Middle'
  BY <1>3, <1>4 DEF Middle, T
<1>6. InTime'
  <2> DEFINE d == Debt'
             n == NextWait'
             o == Len(out_ep')
             x == DEV_TIMEOUT * (HEADER + BULK_EP_SIZE)
             y == DEV_TIMEOUT * (HEADER + HEADER + BULK_EP_SIZE)
  <2>1. (IInv /\ dev.pc # "work" =>
          /\ Held \in Nat /\ Debt \in Nat /\ NextWait \in Nat /\ NextWait <= DEV_TIMEOUT
          /\ Debt <= DEV_TIMEOUT * (HEADER + Len(out_ep)))'
    BY DebtOf, PTL
  <2>2. dev'.pc # "work"
    BY <1>1 DEF Lost
  <2>3. d \in Nat /\ n \in Nat /\ n <= DEV_TIMEOUT /\ d <= DEV_TIMEOUT * (HEADER + o)
    BY <2>1, <2>2
  <2>4. o \in Nat /\ o <= BULK_EP_SIZE
    BY <1>4, LenProperties DEF IInv, LineOK
  <2>5. HEADER \in Nat /\ DEV_TIMEOUT \in Nat /\ BULK_EP_SIZE \in Nat
    BY Constant
  <2> HIDE DEF d, n, o
  <2>6. HEADER + o \in Nat /\ HEADER + BULK_EP_SIZE \in Nat /\ HEADER + o <= HEADER + BULK_EP_SIZE
    BY <2>4, <2>5
  <2>7. d <= x /\ x \in Nat
    <3>1. DEV_TIMEOUT * (HEADER + o) <= x /\ x \in Nat /\ DEV_TIMEOUT * (HEADER + o) \in Nat
      BY <2>5, <2>6, Scale
    <3> HIDE DEF x
    <3>2. QED
      BY <2>3, <3>1
  <2>8. HEADER * n <= DEV_TIMEOUT * HEADER /\ HEADER * n \in Nat /\ DEV_TIMEOUT * HEADER \in Nat
    <3>1. HEADER * n <= HEADER * DEV_TIMEOUT /\ HEADER * n \in Nat /\ HEADER * DEV_TIMEOUT \in Nat
      BY <2>3, <2>5, Scale
    <3>2. HEADER * DEV_TIMEOUT = DEV_TIMEOUT * HEADER
      BY <2>5
    <3>3. QED
      BY <3>1, <3>2
  <2>9. y = x + DEV_TIMEOUT * HEADER
    <3>1. HEADER + HEADER + BULK_EP_SIZE = (HEADER + BULK_EP_SIZE) + HEADER
      BY <2>5
    <3>2. DEV_TIMEOUT * ((HEADER + BULK_EP_SIZE) + HEADER) = x + DEV_TIMEOUT * HEADER
      BY <2>5, <2>6, Scale
    <3>3. QED
      BY <3>1, <3>2
  <2>10. HEADER * 0 = 0
    BY <2>5
  <2> DEFINE p == HEADER * n
             q == DEV_TIMEOUT * HEADER
             z == HEADER * 0
  <2>11. z + d <= x /\ z + d + p <= y
    <3> HIDE DEF x, y, p, q, z
    <3>1. p <= q /\ p \in Nat /\ q \in Nat /\ y = x + q /\ z = 0
      BY <2>8, <2>9, <2>10 DEF p, q, z
    <3>2. QED
      BY <2>3, <2>7, <3>1
  <2>12. HEADER * host_time' = z
    BY <1>1
  <2>13. QED
    BY <2>11, <2>12 DEF InTime, d, n
<1>7. QED
  BY <1>1, <1>3, <1>5, <1>6 DEF Lost, Receiving

\* The firmware is back before the host gives up.
LEMMA LostInTime ==
  ASSUME IInv, Lost
  PROVE  /\ host.pc = "write" /\ out_ep # <<>> => host_time < WRITE_TIMEOUT
         /\ host.pc = "readHeader" /\ host.rx = <<>> /\ ~Quiet => host_time < READ_TIMEOUT
<1> DEFINE d == Debt
           p == HEADER * NextWait
           t == HEADER * host_time
           x == DEV_TIMEOUT * (HEADER + BULK_EP_SIZE)
           y == DEV_TIMEOUT * (HEADER + HEADER + BULK_EP_SIZE)
           w == HEADER * WRITE_TIMEOUT
           r == HEADER * READ_TIMEOUT
<1>1. /\ HEADER \in Nat /\ DEV_TIMEOUT \in Nat /\ BULK_EP_SIZE \in Nat /\ host_time \in Nat
      /\ WRITE_TIMEOUT \in Nat /\ READ_TIMEOUT \in Nat
  BY Typed, Constant, TimeAssumption
<1>2. d \in Nat /\ NextWait \in Nat
  BY DebtOf DEF Lost
<1>3. x \in Nat /\ y \in Nat /\ x < w /\ y < r
  BY <1>1, PaceAssumption
<1>4. p \in Nat /\ t \in Nat /\ w \in Nat /\ r \in Nat
  <2> DEFINE n == NextWait
  <2>1. n \in Nat
    BY <1>2
  <2> HIDE DEF n
  <2>2. HEADER * n \in Nat
    BY <1>1, <2>1, Scale
  <2>3. t \in Nat /\ w \in Nat /\ r \in Nat
    BY <1>1, Scale
  <2>4. QED
    BY <2>2, <2>3 DEF n
<1>5. /\ WRITE_TIMEOUT <= host_time => w <= t
      /\ READ_TIMEOUT <= host_time => r <= t
  BY <1>1, Scale
<1>6. /\ host.pc = "write" /\ out_ep # <<>> => t + d <= x
      /\ host.pc = "readHeader" /\ host.rx = <<>> /\ ~Quiet => t + d + p <= y
  BY DEF Lost, InTime
<1> HIDE DEF d, p, t, x, y, w, r
<1>7. t + d <= x => ~(w <= t)
  BY <1>2, <1>3, <1>4
<1>8. t + d + p <= y => ~(r <= t)
  BY <1>2, <1>3, <1>4
<1>9. QED
  BY <1>1, <1>5, <1>6, <1>7, <1>8

\* The bytes of an answer differ in their place only.
LEMMA OtherByte ==
  ASSUME NEW c, NEW p, NEW n, NEW good \in BOOLEAN, NEW first,
         first = [call |-> c, pos |-> 1, size |-> n, good |-> good]
  PROVE  [first EXCEPT !.pos = p] = [call |-> c, pos |-> p, size |-> n, good |-> good]
OBVIOUS

LEMMA LostTransact ==
  ASSUME IInv, IInv', Lost, Transact
  PROVE  Lost' \/ Flushing' \/ host'.pc = "closed"
<1>1. /\ host.pc \in {"write", "readHeader", "readRest"} /\ host.rx \in {<<>>, Sorry}
      /\ in_ep \in {<<>>, Sorry} /\ (host.pc = "readRest" => host.rx = Sorry)
      /\ call \in 1 .. call
  BY Typed DEF Lost
<1>2. /\ Sorry # <<>> /\ Len(Sorry) = RHEADER + CRC /\ Sorry \in Seq(AnswerBytes(call))
      /\ \A p \in 1 .. Len(Sorry) :
           Sorry[p] = [call |-> call, pos |-> p, size |-> Len(Sorry), good |-> FALSE]
  BY <1>1, SorryReply
<1>3. 1 \in 1 .. Len(Sorry) /\ RHEADER <= Len(Sorry) /\ RHEADER \in Nat \ {0}
  BY <1>2, Constant
<1>4. /\ Sorry[1].pos = 1 /\ Sorry[1].size = Len(Sorry) /\ ~Sorry[1].good
      /\ \A p \in 1 .. Len(Sorry) : Sorry[p] = [Sorry[1] EXCEPT !.pos = p]
  <2> DEFINE one == Sorry[1]
  <2>1. one = [call |-> call, pos |-> 1, size |-> Len(Sorry), good |-> FALSE]
    BY <1>2, <1>3
  <2> HIDE DEF one
  <2>2. one.pos = 1 /\ one.size = Len(Sorry) /\ ~one.good
    BY <2>1
  <2>3. ASSUME NEW p \in 1 .. Len(Sorry)
        PROVE  Sorry[p] = [one EXCEPT !.pos = p]
    <3>1. Sorry[p] = [call |-> call, pos |-> p, size |-> Len(Sorry), good |-> FALSE]
      BY <1>2
    <3>2. PICK g \in BOOLEAN : g = FALSE
      OBVIOUS
    <3>3. one = [call |-> call, pos |-> 1, size |-> Len(Sorry), good |-> g]
      BY <2>1, <3>2
    <3>4. [one EXCEPT !.pos = p] =
            [call |-> call, pos |-> p, size |-> Len(Sorry), good |-> g]
      BY <3>2, <3>3, OtherByte
    <3>5. QED
      BY <3>1, <3>2, <3>4
  <2>4. QED
    BY <1>2, <2>2, <2>3 DEF one
<1>5. Short => host.pc = "readHeader" /\ host.rx = <<>>
  BY <1>1, <1>2, <1>3, Constant DEF Short, Reading, Wanted
<1>6. <<>> \in Middle
  BY EmptySeq DEF Middle
<1>7. kinds' = kinds => Sorry' = Sorry /\ call' = call /\ Middle' = Middle
  BY Same DEF Middle
<1>8. CASE WriteTimeout
  <2>1. host_time >= WRITE_TIMEOUT /\ host_time < WRITE_TIMEOUT
    BY <1>8, LostInTime DEF WriteTimeout
  <2>2. QED
    BY SMTT(30), <2>1, Typed, TimeAssumption
<1>9. CASE UsbRead
  <2>1. /\ host.pc = "readHeader" /\ host.rx = <<>> /\ in_ep = Sorry
        /\ host' = [host EXCEPT !.rx = @ \o in_ep] /\ in_ep' = <<>>
        /\ UNCHANGED <<dev, out_ep, kinds>>
    BY <1>1, <1>5, <1>9 DEF UsbRead, devVars
  <2>2. <<>> \o Sorry = Sorry
    BY <1>2, ConcatEmptySeq
  <2>3. host'.pc = "readHeader" /\ host'.left = host.left /\ host'.rx = Sorry
    BY <2>1, <2>2, Typed
  <2>4. QED
    BY <1>2, <1>7, <2>1, <2>3 DEF Lost, InTime, Receiving
<1>10. CASE ReadTimeout
  <2>1. host.pc = "readHeader" /\ host.rx = <<>> /\ host_time >= READ_TIMEOUT
    BY <1>5, <1>10 DEF ReadTimeout
  <2>2. Quiet
    <3>1. ~Quiet => host_time < READ_TIMEOUT
      BY <2>1, LostInTime
    <3>2. QED
      BY <2>1, <3>1, Typed, Constant
  <2>3. QED
    BY <1>10, <2>2 DEF ReadTimeout, Except, HostGoto, devVars, Flushing, Quiet
<1>11. CASE RecvHeader
  <2>1. host.rx = Sorry /\ host.pc = "readHeader"
    BY <1>1, <1>3, <1>11, Constant, EmptySeq DEF RecvHeader, Short, Reading, Wanted
  <2>2. /\ HostGoto("readRest", host.attempt, <<>>, host.rx)
        /\ UNCHANGED <<dev, out_ep, in_ep, kinds>>
    BY <1>4, <1>11, <2>1 DEF RecvHeader, devVars
  <2>3. host'.pc = "readRest" /\ host'.left = <<>> /\ host'.rx = Sorry
    BY <2>1, <2>2 DEF HostGoto
  <2>4. QED
    BY <1>2, <1>6, <1>7, <2>2, <2>3 DEF Lost, InTime, Receiving
<1>12. CASE RecvRest
  <2>1. host.rx = Sorry /\ Wanted = Len(Sorry)
    BY <1>1, <1>4, <1>12 DEF RecvRest, Wanted
  <2>2. Close
    BY <1>4, <1>12, <2>1 DEF RecvRest
  <2>3. QED
    BY <2>2 DEF Close, HostGoto
<1>13. UsbWrite \/ WriteTimeout \/ UsbRead \/ ReadTimeout \/ RecvHeader \/ RecvRest
  BY <1>1, TransactOf
<1>14. QED
  BY <1>8, <1>9, <1>10, <1>11, <1>12, <1>13, LostWritten

\* Every tick of the host's is one the firmware owed it.
LEMMA LostTick ==
  ASSUME IInv, Lost, Tick
  PROVE  Lost'
<1> DEFINE h == host_time'
           d2 == dev_time'
           c == DEV_TIMEOUT * Held
           x == DEV_TIMEOUT * (HEADER + BULK_EP_SIZE)
           y == DEV_TIMEOUT * (HEADER + HEADER + BULK_EP_SIZE)
<1>1. UNCHANGED <<kinds, out_ep, in_ep, dev, host>>
  BY DEF Tick
<1>2. call' = call /\ Sorry' = Sorry /\ Middle' = Middle /\ Held' = Held
  BY <1>1, Same DEF Middle, Held
<1>3. /\ HEADER \in Nat /\ DEV_TIMEOUT \in Nat /\ host_time \in Nat
      /\ dev_time \in 0 .. DEV_TIMEOUT /\ Held \in Nat /\ READ_TIMEOUT \in Nat
      /\ BULK_EP_SIZE \in Nat
  BY Typed, DebtOf, Constant DEF Lost
<1>4. /\ Debt = c + (IF dev.pc = "send" THEN HEADER * (DEV_TIMEOUT - dev_time) ELSE 0)
      /\ Debt' = c + (IF dev.pc = "send" THEN HEADER * (DEV_TIMEOUT - d2) ELSE 0)
  BY <1>1, <1>2 DEF Debt
<1>5. c \in Nat /\ x \in Nat /\ y \in Nat
  <2> DEFINE m == Held
  <2>1. m \in Nat
    BY <1>3
  <2> HIDE DEF m
  <2>2. DEV_TIMEOUT * m \in Nat
    BY <1>3, <2>1
  <2>3. QED
    BY <1>3, <2>2 DEF m
<1>6. host.pc \in {"write", "readHeader"} => h = Least(host_time + 1, READ_TIMEOUT)
  BY DEF Tick
<1>7. dev.pc = "poll" \/ (Waits /\ dev_time < DEV_TIMEOUT /\ d2 = dev_time + 1)
  BY DEF Tick, Lost
<1>8. dev.pc = "poll" => out_ep = <<>>
  BY DEF Tick, Waits, Receiving, Lost
<1> HIDE DEF h, d2, c, x, y
<1>9. host.pc \in {"write", "readHeader"} => h \in Nat /\ HEADER * h \in Nat
                                             /\ HEADER * h <= HEADER * host_time + HEADER
  <2> SUFFICES ASSUME host.pc \in {"write", "readHeader"}
               PROVE  h \in Nat /\ HEADER * h \in Nat /\ HEADER * h <= HEADER * host_time + HEADER
    OBVIOUS
  <2>1. h \in Nat /\ h <= host_time + 1 /\ host_time + 1 \in Nat
    BY <1>3, <1>6 DEF Least
  <2>2. HEADER * h \in Nat /\ HEADER * h <= HEADER * (host_time + 1)
    BY <1>3, <2>1, Scale
  <2>3. HEADER * (host_time + 1) = HEADER * host_time + HEADER
    BY <1>3, Scale
  <2>4. QED
    BY <2>1, <2>2, <2>3
<1>10. ASSUME Waits, dev_time < DEV_TIMEOUT, d2 = dev_time + 1
       PROVE  /\ DEV_TIMEOUT - d2 \in Nat /\ HEADER * (DEV_TIMEOUT - d2) \in Nat
              /\ HEADER * (DEV_TIMEOUT - dev_time) = HEADER * (DEV_TIMEOUT - d2) + HEADER
  <2> DEFINE a == DEV_TIMEOUT - d2
  <2>1. a \in Nat /\ DEV_TIMEOUT - dev_time = a + 1
    BY <1>3, <1>10
  <2> HIDE DEF a
  <2>2. HEADER * (a + 1) = HEADER * a + HEADER /\ HEADER * a \in Nat
    BY <1>3, <2>1, Scale
  <2>3. QED
    BY <2>1, <2>2 DEF a
<1>11. ASSUME host.pc = "write", out_ep # <<>>
       PROVE  HEADER * h + Debt' <= x
  <2>1. dev.pc = "send" /\ Waits /\ dev_time < DEV_TIMEOUT /\ d2 = dev_time + 1
    BY <1>7, <1>8, <1>11 DEF Waits
  <2> DEFINE p == HEADER * (DEV_TIMEOUT - d2)
             q == HEADER * (DEV_TIMEOUT - dev_time)
             t == HEADER * host_time
             u == HEADER * h
  <2>2. /\ p \in Nat /\ q = p + HEADER /\ Debt = c + q /\ Debt' = c + p
        /\ t \in Nat /\ u \in Nat /\ u <= t + HEADER
    BY <1>3, <1>4, <1>9, <1>10, <1>11, <2>1
  <2>3. t + Debt <= x
    BY <1>11 DEF Lost, InTime, x
  <2> HIDE DEF p, q, t, u
  <2>4. t + (c + q) <= x
    BY <2>2, <2>3
  <2>5. u + (c + p) <= x
    BY <1>3, <1>5, <2>2, <2>4
  <2>6. QED
    BY <2>2, <2>5 DEF u
<1>12. ASSUME host.pc = "readHeader", host.rx = <<>>, ~Quiet
       PROVE  HEADER * h + Debt' + HEADER * NextWait' <= y
  <2>1. dev.pc # "poll" /\ Waits /\ dev_time < DEV_TIMEOUT /\ d2 = dev_time + 1
    BY <1>7, <1>8, <1>12 DEF Quiet
  <2> DEFINE p == HEADER * (DEV_TIMEOUT - d2)
             q == HEADER * (DEV_TIMEOUT - dev_time)
             t == HEADER * host_time
             u == HEADER * h
             v == HEADER * DEV_TIMEOUT
  <2>2. /\ p \in Nat /\ q = p + HEADER
        /\ t \in Nat /\ u \in Nat /\ u <= t + HEADER
    BY <1>3, <1>9, <1>10, <1>12, <2>1
  <2>3. t + Debt + HEADER * NextWait <= y
    BY <1>12 DEF Lost, InTime, y
  <2>4. v \in Nat /\ DEV_TIMEOUT - 0 = DEV_TIMEOUT
    BY <1>3
  <2>5. CASE dev.pc = "send"
    <3>1. NextWait = DEV_TIMEOUT - 0 /\ NextWait' = DEV_TIMEOUT - 0
      BY <1>1, <2>5 DEF NextWait, Receiving
    <3>2. Debt = c + q /\ Debt' = c + p /\ HEADER * NextWait = v /\ HEADER * NextWait' = v
      BY <1>4, <2>4, <2>5, <3>1
    <3> HIDE DEF p, q, t, u, v
    <3>3. t + (c + q) + v <= y
      BY <2>3, <3>2 DEF t
    <3>4. u + (c + p) + v <= y
      BY <1>3, <1>5, <2>2, <2>4, <3>3
    <3>5. QED
      BY <3>2, <3>4 DEF u
  <2>6. CASE dev.pc # "send"
    <3>1. Receiving /\ ~Received /\ out_ep = <<>>
      BY <2>1, <2>6 DEF Waits
    <3>2. NextWait = DEV_TIMEOUT - dev_time /\ NextWait' = DEV_TIMEOUT - d2
      BY <1>1, <3>1 DEF NextWait, Receiving, Received, d2
    <3>3. Debt = c + 0 /\ Debt' = c + 0 /\ HEADER * NextWait = q /\ HEADER * NextWait' = p
      BY <1>4, <2>6, <3>2
    <3> HIDE DEF p, q, t, u, v
    <3>4. t + (c + 0) + q <= y
      BY <2>3, <3>3 DEF t
    <3>5. u + (c + 0) + p <= y
      BY <1>3, <1>5, <2>2, <3>4
    <3>6. QED
      BY <3>3, <3>5 DEF u
  <2>7. QED
    BY <2>5, <2>6
<1>13. InTime'
  <2>1. x' = x /\ y' = y
    BY DEF x, y
  <2>2. Quiet' = Quiet
    BY <1>1 DEF Quiet
  <2>3. QED
    BY <1>1, <1>11, <1>12, <2>2 DEF InTime, h, x, y
<1>14. QED
  BY <1>1, <1>2, <1>13 DEF Lost, Receiving

\* A session that no failed transfer disturbs goes from phase to phase.
LEMMA CalmStep == IInv /\ CalmOK /\ [Next]_vars => CalmOK'
<1> SUFFICES ASSUME IInv, CalmOK, [Next]_vars PROVE CalmOK'
  OBVIOUS
<1>1. IInv' /\ SendsOK /\ (disturbed \/ Undisturbed)
  BY StepOK DEF CalmOK
<1>2. CASE UNCHANGED vars
  <2>1. UNCHANGED <<kinds, out_ep, in_ep, dev, dev_time, host, host_time, disturbed, executed>>
    BY <1>2 DEF vars
  <2>2. call' = call /\ Message(call)' = Message(call) /\ Good' = Good /\ Sorry' = Sorry
    BY <2>1, Same
  <2>3. /\ Flushing' = Flushing /\ Clean' = Clean /\ Working' = Working /\ SendsOK' = SendsOK
    BY <2>1, <2>2 DEF Flushing, Quiet, Clean, LineClean, Working, SendsOK
  <2>4. Coming' = Coming
    BY <2>1, <2>2 DEF Coming, Piece
  <2>5. Answered' = Answered
    BY <2>1, <2>2 DEF Answered, Reading, Quiet, ToSend, Piece
  <2>6. Lost' = Lost
    BY <2>1, <2>2
       DEF Lost, InTime, Middle, Receiving, Received, Quiet, Debt, Held, NextWait
  <2>7. QED
    BY <1>1, <2>1, <2>3, <2>4, <2>5, <2>6 DEF CalmOK, Undisturbed
<1>3. CASE Firmware \/ Transact \/ Tick
  <2>1. disturbed' = disturbed /\ (Firmware \/ UNCHANGED dev)
    <3>1. CASE Firmware
      BY <3>1 DEF Firmware, Poll, BulkRecv, RecvTimeout, Header, Payload, Checked, Answer,
                  BulkSend, SendTimeout, hostVars, log
    <3>2. CASE Transact
      BY <3>2 DEF Transact, FlushRead, FlushEnd, Retry, UsbWrite, UsbRead, WriteTimeout,
                  ReadTimeout, RecvHeader, RecvRest, Except, devVars, log
    <3>3. CASE Tick
      BY <3>3 DEF Tick, log
    <3>4. QED
      BY <1>3, <3>1, <3>2, <3>3
  <2>2. SendsOK'
    BY <1>1, <2>1, SendsStep
  <2>3. CASE host.pc = "closed"
    <3>1. ~Transact
      BY <2>3, TransactOf
    <3>2. UNCHANGED host
      BY <1>3, <3>1 DEF Tick, Firmware, Poll, BulkRecv, RecvTimeout, Header, Payload, Checked,
                        Answer, BulkSend, SendTimeout, hostVars
    <3>3. QED
      BY <2>2, <2>3, <3>2 DEF CalmOK, Undisturbed
  <2>4. CASE Flushing
    BY <1>1, <1>3, <2>2, <2>4, FlushingStep DEF CalmOK, Undisturbed
  <2>5. CASE Clean
    BY <1>1, <1>3, <2>2, <2>5, CleanStep DEF CalmOK, Undisturbed
  <2>6. CASE Coming
    BY <1>3, <2>2, <2>6, ComingStep DEF CalmOK, Undisturbed
  <2>7. CASE Working
    BY <1>3, <2>2, <2>7, WorkingStep DEF CalmOK, Undisturbed
  <2>8. CASE Answered
    BY <1>1, <1>3, <2>2, <2>8, AnsweredStep DEF CalmOK, Undisturbed
  <2>9. CASE Lost
    BY <1>1, <1>3, <2>2, <2>9, LostFirmware, LostTransact, LostTick DEF CalmOK, Undisturbed
  <2>10. QED
    BY <1>1, <2>1, <2>2, <2>3, <2>4, <2>5, <2>6, <2>7, <2>8, <2>9 DEF CalmOK, Undisturbed
<1>4. CASE User
  <2>1. UNCHANGED dev \/ Return
    BY <1>4 DEF User, Open, Call, UsbError, Exit, Unplug, Except, devVars
  <2>2. SendsOK'
    BY <1>1, <2>1, SendsStep
  <2>3. CASE Open
    <3>1. host'.pc = "flush" /\ host_time' = 0 /\ UNCHANGED dev /\ disturbed' = ~Settled
      BY <2>3 DEF Open, HostGoto, devVars
    <3>2. out_ep' \in {out_ep, <<>>}
      BY <2>3 DEF Open
    <3>3. QED
      BY <2>2, <3>1, <3>2 DEF Settled, CalmOK, Undisturbed, Flushing, Quiet
  <2>4. CASE Call
    <3>1. /\ host.pc = "open" /\ HostGoto("write", 1, Message(call)', host.rx)
          /\ UNCHANGED <<dev, out_ep, in_ep, disturbed>>
      BY <2>4 DEF Call, devVars, log
    <3>2. disturbed \/ LineClean
      BY <1>1, <3>1
         DEF Undisturbed, Flushing, Clean, Coming, Working, Answered, Reading, Lost
    <3>3. LineClean => Coming'
      BY <1>1, <3>1, SetsOut DEF LineClean
    <3>4. QED
      BY <2>2, <3>1, <3>2, <3>3 DEF CalmOK, Undisturbed
  <2>5. CASE UsbError
    BY <2>2, <2>5 DEF UsbError, CalmOK
  <2>6. CASE Exit \/ Unplug
    <3>1. Close
      BY <2>6 DEF Exit, Unplug
    <3>2. host'.pc = "closed"
      BY <3>1 DEF Close, HostGoto
    <3>3. QED
      BY <2>2, <3>2 DEF CalmOK, Undisturbed
  <2>7. QED
    BY <1>4, <2>3, <2>4, <2>5, <2>6 DEF User
<1>5. QED
  BY <1>2, <1>3, <1>4 DEF Next

LEMMA CalmInit == Init => CalmOK
BY DEF Init, CalmOK, SendsOK, Undisturbed

\* In a session that no failed transfer disturbed every attempt, first or not, finds the
\* firmware in its loop and nothing on the line: whatever it is that it must wait for,
\* it has given up before the host does (meggy_flash.py:189, protocol.c:60).
THEOREM AttemptsStartClean == Spec => []AttemptStartsClean
<1>1. IInv /\ CalmOK => AttemptStartsClean
  <2> SUFFICES ASSUME IInv, Undisturbed,
                      host.pc = "open" \/ (host.pc = "write" /\ host.left = Message(call))
               PROVE  LineClean
    BY DEF CalmOK, AttemptStartsClean
  <2>1. CASE Clean
    BY <2>1 DEF Clean
  <2>2. CASE Coming
    <3> DEFINE b == Len(dev.buf)
               o == Len(out_ep)
               n == CommandSize(kinds[call])
    <3>1. /\ b \in Nat /\ o \in Nat /\ n \in Nat /\ host.left = Message(call)
          /\ Len(host.left) = n /\ in_ep = <<>> /\ host.rx = <<>>
      <4>1. host.left = Message(call) /\ host.pc = "write" /\ in_ep = <<>> /\ host.rx = <<>>
        BY <2>2 DEF Coming
      <4>2. call \in 1 .. call
        BY <2>2, ComingOf
      <4>3. n \in Nat /\ Len(Message(call)) = n
        BY <4>2, WholeMessage
      <4>4. QED
        BY <2>2, <4>1, <4>3, ComingOf
    <3>2. b + o + Len(host.left) = n
      BY <2>2 DEF Coming
    <3>3. dev.pc # "poll" \/ out_ep # <<>> => b + o >= HEADER
      BY <2>2 DEF Coming
    <3> HIDE DEF b, o, n
    <3>4. b = 0 /\ o = 0
      BY <3>1, <3>2
    <3>5. dev.pc = "poll" /\ out_ep = <<>>
      BY <3>3, <3>4, Constant
    <3>6. QED
      BY <3>1, <3>5 DEF LineClean
  <2>3. CASE Lost
    <3> DEFINE T == [call : {call}, pos : Nat \ {0, 1}]
               s == Message(call)
    <3>1. host.left = s /\ s \in Seq(T) /\ call \in 1 .. call
      BY <2>3, Typed DEF Lost, Middle
    <3>2. s # <<>> /\ s[1] = [call |-> call, pos |-> 1]
      BY <3>1, MessageOf DEF IInv, HostOK
    <3> HIDE DEF s
    <3>3. Len(s) \in Nat \ {0}
      <4> HIDE DEF T
      <4>1. QED
        BY <3>1, <3>2, EmptySeq, LenProperties
    <3>4. s[1] \in T
      <4> HIDE DEF T
      <4>1. QED
        BY <3>1, <3>3, ElementOfSeq
    <3>5. QED
      BY <3>2, <3>4
  <2>4. QED
    BY <2>1, <2>2, <2>3 DEF Undisturbed, Flushing, Working, Answered, Reading
<1>2. QED
  BY <1>1, InitOK, StepOK, CalmInit, CalmStep, PTL DEF Spec

\* Answers carry no number (meggy_flash.py:267), and yet the one _recv_response() takes
\* apart is this call's own, in a session that no failed transfer disturbed.
THEOREM AnswersAreOwn == Spec => []AnswerIsOwn
<1>1. IInv /\ CalmOK => AnswerIsOwn
  <2> SUFFICES ASSUME IInv, Undisturbed, host.pc = "readRest"
               PROVE  host.rx[1].call = call
    BY DEF CalmOK, AnswerIsOwn
  <2>1. host.rx # <<>> /\ call \in 1 .. call /\ host.rx \in Seq(AnswerBytes(call))
    BY Typed
  <2>2. Len(host.rx) \in Nat \ {0}
    BY <2>1, EmptySeq, LenProperties
  <2>3. CASE Answered
    <3>1. host.rx[1] = Good[0 + 1]
      BY <2>2, <2>3 DEF Answered, Piece
    <3>2. 1 \in 1 .. Len(Good)
      BY <2>1, GoodReply, Constant
    <3>3. Good[1] = [call |-> call, pos |-> 1, size |-> Len(Good), good |-> TRUE]
      BY <2>1, <3>2, GoodReply
    <3>4. QED
      BY <3>1, <3>3
  <2>4. CASE Lost
    <3>1. host.rx = Sorry
      BY <2>4 DEF Lost
    <3>2. 1 \in 1 .. Len(Sorry)
      BY <2>1, SorryReply, Constant
    <3>3. Sorry[1] = [call |-> call, pos |-> 1, size |-> Len(Sorry), good |-> FALSE]
      BY <2>1, <3>2, SorryReply
    <3>4. QED
      BY <3>1, <3>3
  <2>5. QED
    BY <2>3, <2>4 DEF Undisturbed, Flushing, Clean, Coming, Working
<1>2. QED
  BY <1>1, InitOK, StepOK, CalmInit, CalmStep, PTL DEF Spec

-----------------------------------------------------------------------------
(* The promise.  A call that has ended is over: nothing on its way can be  *)
(* carried out for it, unless it was abandoned.                            *)

NoMore == \A c \in 1 .. call : OnTheWay(c)' <= OnTheWay(c)
OverOK ==
  \A c \in 1 .. call : OnTheWay(c) > 0 => (c = call /\ InCall) \/ c \in abandoned

LEMMA FirmwareNoMore ==
  ASSUME IInv, Firmware
  PROVE  NoMore
<1>1. CASE BulkRecv
  BY <1>1, BulkRecvStep DEF NoMore
<1>2. CASE Header
  BY <1>2, HeaderStep DEF NoMore
<1>3. CASE Poll
  <2>1. UNCHANGED <<out_ep, host>> /\ dev'.buf = <<>>
    BY <1>3, Typed DEF Poll, Goto, hostVars
  <2>2. \A s, c : Starts(s, c) \in Nat
    BY DEF Starts
  <2>3. \A c : Starts(dev'.buf, c) = 0
    BY <2>1 DEF Starts
  <2>4. QED
    BY <2>1, <2>2, <2>3 DEF OnTheWay, NoMore
<1>4. CASE Payload
  <2>1. UNCHANGED <<out_ep, host>> /\ dev'.buf = dev.buf /\ Receiving
    BY <1>4, Typed DEF Payload, Received, Goto, hostVars
  <2>2. QED
    BY <2>1, LessOnTheWay DEF NoMore
<1>5. CASE RecvTimeout \/ Checked \/ Answer \/ BulkSend \/ SendTimeout
  <2>1. UNCHANGED <<out_ep, host>>
    BY <1>5 DEF RecvTimeout, Checked, Answer, BulkSend, SendTimeout, hostVars
  <2>2. dev'.pc \in {"poll", "work", "send"}
    <3>1. \A c, words, good : SendResponse(c, words, good) => dev'.pc = "send"
      BY DEF SendResponse
    <3>2. Return => dev'.pc = "poll"
      BY DEF Return
    <3>3. dev' = [dev EXCEPT !.pc = "work", !.want = 0] => dev'.pc = "work"
      BY Typed
    <3>4. dev.pc = "send" /\ dev' = [dev EXCEPT !.reply = Rest(@, BULK_EP_SIZE)]
            => dev'.pc = "send"
      BY Typed
    <3>5. QED
      BY <1>5, <3>1, <3>2, <3>3, <3>4 DEF RecvTimeout, Checked, Answer, BulkSend, SendTimeout
  <2>3. ~Receiving'
    BY <2>2 DEF Receiving
  <2>4. QED
    BY <2>1, <2>3, LessOnTheWay DEF NoMore
<1>6. QED
  BY <1>1, <1>2, <1>3, <1>4, <1>5 DEF Firmware

\* The host drops what it had left to write, or writes it.
LEMMA DroppedNoMore ==
  ASSUME UNCHANGED dev, out_ep' \in {out_ep, <<>>}, host'.left \in {host.left, <<>>}
  PROVE  NoMore
<1>1. \A s, c : Starts(s, c) \in Nat
  BY DEF Starts
<1>2. \A c : Starts(out_ep', c) <= Starts(out_ep, c)
  BY <1>1 DEF Starts
<1>3. \A c : Starts(host'.left, c) <= Starts(host.left, c)
  BY <1>1 DEF Starts
<1>4. QED
  BY <1>1, <1>2, <1>3 DEF OnTheWay, Receiving, NoMore

LEMMA WrittenNoMore ==
  ASSUME IInv, UsbWrite
  PROVE  NoMore
<1>1. /\ UNCHANGED dev /\ out_ep = <<>> /\ out_ep' = Packet(host.left)
      /\ host'.left = Rest(host.left, BULK_EP_SIZE)
  BY DEF UsbWrite, HostGoto, devVars
<1>2. call \in Nat /\ host.left \in Seq(CommandBytes(call)) /\ FirstsLead(host.left)
  BY Typed DEF IInv, OnceOK
<1>3. \A c : Starts(out_ep', c) = Starts(host.left, c)
  BY <1>1, <1>2, StartsPacket
<1>4. \A c : Starts(host'.left, c) = 0
  BY <1>1, <1>2, StartsRest, Constant
<1>5. \A s, c : Starts(s, c) \in Nat
  BY DEF Starts
<1>6. QED
  BY <1>1, <1>3, <1>4, <1>5 DEF OnTheWay, Receiving, NoMore

\* In an undisturbed session nothing is on its way where a call may end.
LEMMA NothingOnTheWay ==
  ASSUME IInv, CalmOK, ~disturbed, host.pc \in {"sleep", "readRest"}
  PROVE  OnTheWay(call) = 0
<1>1. call \in Nat /\ host.left = <<>>
  BY Typed
<1>2. Starts(<<>>, call) = 0
  BY DEF Starts
<1>3. Clean \/ Answered \/ Lost
  BY DEF CalmOK, Undisturbed, Flushing, Coming, Working
<1>4. CASE Clean \/ Answered
  BY <1>1, <1>2, <1>4 DEF Clean, LineClean, Answered, Quiet, OnTheWay, Receiving
<1>5. CASE Lost
  <2> DEFINE T == [call : {call}, pos : Nat \ {0, 1}]
  <2>1. out_ep \in Seq(T) /\ (Receiving => dev.buf \in Seq(T))
    BY <1>5 DEF Lost, Middle
  <2>2. \A b \in T : b # [call |-> call, pos |-> 1]
    OBVIOUS
  <2> HIDE DEF T
  <2>3. ASSUME NEW s \in Seq(T)
        PROVE  Starts(s, call) = 0
    <3>1. s # <<>> => s[1] \in T
      BY EmptySeq, ElementOfSeq
    <3>2. QED
      BY <2>2, <3>1 DEF Starts
  <2>4. QED
    BY <1>1, <1>2, <2>1, <2>3 DEF OnTheWay
<1>6. QED
  BY <1>3, <1>4, <1>5

\* A step within a call or between two; or one that ends a call.
LEMMA StillOver ==
  ASSUME IInv, OverOK, call' = call, NoMore, abandoned \subseteq abandoned',
         InCall => InCall' \/ call \in abandoned' \/ OnTheWay(call) = 0
  PROVE  OverOK'
<1>1. (\A c : OnTheWay(c) \in Nat)'
  BY OnTheWayType, PTL
<1>2. SUFFICES ASSUME NEW c \in 1 .. call, OnTheWay(c)' > 0
               PROVE  (c = call /\ InCall') \/ c \in abandoned'
  BY DEF OverOK
<1>3. OnTheWay(c) > 0
  BY <1>1, <1>2, OnTheWayType DEF NoMore
<1>4. QED
  BY <1>2, <1>3 DEF OverOK

LEMMA Silent ==
  ASSUME IInv, OverOK, NoMore, UNCHANGED <<kinds, executed, log>>, InCall' = InCall
  PROVE  OverOK' /\ UNCHANGED (Abstract!vars)
<1>1. call' = call
  BY DEF call
<1>2. OverOK'
  BY <1>1, StillOver DEF log
<1>3. UNCHANGED (Abstract!vars)
  BY <1>1 DEF Abstract!vars, log
<1>4. QED
  BY <1>2, <1>3

\* The firmware carries out the command of the call that waits for it, or of one that
\* was abandoned, and not too often.
LEMMA Executes ==
  ASSUME IInv, OverOK, Checked, CrcFits
  PROVE  \E c \in 1 .. call : Abstract!Execute(c)
<1>1. PICK c \in 1 .. call : dev.buf = Message(c)
  BY DEF CrcFits, Sender
<1>2. dev.buf # <<>> /\ dev.buf[1] = [call |-> c, pos |-> 1]
  BY <1>1, MessageOf DEF IInv, HostOK
<1>3. Sender = c
  BY <1>1, <1>2 DEF Sender
<1>4. /\ executed' = [executed EXCEPT ![c] = @ + 1] /\ Receiving
      /\ UNCHANGED <<kinds, host, disturbed, abandoned, returned>>
  BY <1>3 DEF Checked, Received, hostVars, log
<1>5. OnTheWay(c) > 0
  <2>1. \A s : Starts(s, c) \in Nat
    BY DEF Starts
  <2>2. Starts(dev.buf, c) = 1
    BY <1>2 DEF Starts
  <2>3. QED
    BY <1>4, <2>1, <2>2 DEF OnTheWay
<1>6. (InCall /\ c = call) \/ c \in abandoned
  BY <1>5 DEF OverOK
<1>7. executed[c] < RETRIES
  <2>1. executed[c] + OnTheWay(c) <= Attempts(c) /\ executed[c] \in Nat
    BY Counts DEF IInv, OnceOK
  <2>2. OnTheWay(c) \in Nat /\ Attempts(c) \in 0 .. RETRIES
    BY Counts
  <2>3. QED
    BY <1>5, <2>1, <2>2, Constant
<1>8. call' = call /\ InCall' = InCall
  BY <1>4 DEF call, InCall
<1>9. QED
  BY <1>4, <1>6, <1>7, <1>8 DEF Abstract!Execute

\* What a step of Abstract's may be, and what goes with it.
Promised == OverOK' /\ [Abstract!Next]_(Abstract!vars)

LEMMA FirmwareKeeps ==
  ASSUME IInv, OverOK, Firmware
  PROVE  Promised
<1>1. NoMore
  BY FirmwareNoMore
<1>2. UNCHANGED <<kinds, host, log>>
  BY DEF Firmware, Poll, BulkRecv, RecvTimeout, Header, Payload, Checked, Answer,
         BulkSend, SendTimeout, hostVars
<1>3. InCall' = InCall /\ call' = call
  BY <1>2 DEF InCall, call
<1>4. CASE Checked /\ CrcFits
  <2>1. PICK c \in 1 .. call : Abstract!Execute(c)
    BY <1>4, Executes
  <2>2. c \in Abstract!Calls
    BY Typed, Constant DEF IInv, HostOK, Abstract!Calls
  <2>3. Abstract!Next
    BY <2>1, <2>2 DEF Abstract!Next
  <2>4. OverOK'
    BY <1>1, <1>2, <1>3, StillOver DEF log
  <2>5. QED
    BY <2>3, <2>4 DEF Promised
<1>5. CASE ~(Checked /\ CrcFits)
  <2>1. executed' = executed
    BY <1>5 DEF Firmware, Poll, BulkRecv, RecvTimeout, Header, Payload, Checked, Answer,
                BulkSend, SendTimeout
  <2>2. QED
    BY <1>1, <1>2, <1>3, <2>1, Silent DEF Promised
<1>6. QED
  BY <1>4, <1>5

\* A call ends with an exception.
LEMMA Raises ==
  ASSUME IInv, OverOK, NoMore, InCall, ~InCall', NEW loose \in BOOLEAN, EndCall(loose),
         loose \/ OnTheWay(call) = 0, UNCHANGED <<kinds, executed, disturbed, returned>>
  PROVE  Promised
<1>1. call' = call
  BY DEF call
<1>2. abandoned' = IF loose THEN abandoned \cup {call} ELSE abandoned
  BY DEF EndCall
<1>3. OverOK'
  BY <1>1, <1>2, StillOver
<1>4. Abstract!Raise
  BY <1>1, <1>2 DEF Abstract!Raise, Abstract!Abandon
<1>5. QED
  BY <1>3, <1>4 DEF Promised, Abstract!Next

LEMMA RetryKeeps ==
  ASSUME IInv, CalmOK, OverOK, Retry
  PROVE  Promised
<1>1. /\ host.pc = "sleep" /\ host.attempt > 0 /\ host.attempt \in Nat /\ host.left = <<>>
      /\ UNCHANGED <<dev, executed, out_ep, kinds, disturbed, returned>> /\ call' = call
      /\ disturbed \in BOOLEAN
  BY Constant DEF Retry, devVars, IInv, HostOK, call
<1>2. InCall
  BY <1>1 DEF InCall
<1>3. CASE host.attempt < RETRIES
  <2>1. HostGoto("write", host.attempt + 1, Message(call), <<>>) /\ abandoned' = abandoned
    BY <1>3 DEF Retry
  <2>2. host'.pc = "write" /\ host'.attempt = host.attempt + 1 /\ host'.left = Message(call)
    BY <2>1 DEF HostGoto
  <2>3. InCall'
    BY <1>1, <2>2 DEF InCall
  <2>4. UNCHANGED (Abstract!vars)
    BY <1>1, <1>2, <2>1, <2>3, Zenon DEF Abstract!vars
  <2>5. ASSUME NEW c \in 1 .. call, c # call, OnTheWay(c)' > 0
        PROVE  c \in abandoned
    <3>1. call \in 1 .. call
      BY <1>1, Typed
    <3>2. Message(call)[1] = [call |-> call, pos |-> 1]
      BY <3>1, MessageOf DEF IInv, HostOK
    <3>3. Starts(host'.left, c) = 0 /\ Starts(host.left, c) = 0
      BY <1>1, <2>2, <2>5, <3>2 DEF Starts
    <3>4. OnTheWay(c)' = OnTheWay(c)
      BY <1>1, <3>3 DEF OnTheWay, Receiving, Starts
    <3>5. QED
      BY <2>5, <3>4 DEF OverOK
  <2>6. OverOK'
    BY <1>1, <2>1, <2>3, <2>5 DEF OverOK
  <2>7. QED
    BY <2>4, <2>6 DEF Promised
<1>4. CASE ~(host.attempt < RETRIES)
  <2>1. Close /\ EndCall(disturbed)
    BY <1>4 DEF Retry
  <2>2. host'.pc = "closed" /\ host'.left = <<>>
    BY <2>1 DEF Close, HostGoto
  <2>3. ~InCall' /\ NoMore
    BY <1>1, <2>2, DroppedNoMore DEF InCall
  <2>4. disturbed \/ OnTheWay(call) = 0
    BY <1>1, NothingOnTheWay
  <2>5. QED
    BY <1>1, <1>2, <2>1, <2>3, <2>4, Raises
<1>5. QED
  BY <1>3, <1>4

LEMMA RecvRestKeeps ==
  ASSUME IInv, CalmOK, OverOK, RecvRest
  PROVE  Promised
<1>1. /\ host.pc = "readRest" /\ host.attempt > 0 /\ host.left = <<>>
      /\ call \in 1 .. call /\ disturbed \in BOOLEAN /\ InCall
  BY Typed DEF RecvRest, IInv, HostOK, InCall
<1>2. UNCHANGED <<dev, executed, out_ep, kinds>> /\ call' = call
  BY DEF RecvRest, Except, devVars, call
<1>3. disturbed \/ OnTheWay(call) = 0
  BY <1>1, NothingOnTheWay
<1>4. CASE ~(\A p \in 1 .. Wanted : host.rx[p] = [host.rx[1] EXCEPT !.pos = p])
  <2>1. Except /\ UNCHANGED disturbed
    BY <1>4 DEF RecvRest
  <2>2. /\ host'.pc = "flush" /\ host'.attempt = host.attempt /\ host'.left = <<>>
        /\ UNCHANGED log
    BY <2>1 DEF Except, HostGoto, log
  <2>3. InCall' = InCall /\ NoMore
    BY <1>1, <1>2, <2>2, DroppedNoMore, Zenon DEF InCall
  <2>4. QED
    BY <1>2, <2>2, <2>3, Silent DEF Promised
<1>5. CASE \A p \in 1 .. Wanted : host.rx[p] = [host.rx[1] EXCEPT !.pos = p]
  <2>1. EndCall(disturbed) /\ UNCHANGED disturbed
    BY <1>5 DEF RecvRest
  <2>2. CASE ~host.rx[1].good
    <3>1. Close /\ UNCHANGED returned
      BY <1>5, <2>2 DEF RecvRest
    <3>2. host'.pc = "closed" /\ host'.left = <<>>
      BY <3>1 DEF Close, HostGoto
    <3>3. ~InCall' /\ NoMore
      BY <1>2, <3>2, DroppedNoMore DEF InCall
    <3>4. QED
      BY <1>1, <1>2, <1>3, <2>1, <3>1, <3>3, Raises
  <2>3. CASE host.rx[1].good
    <3>1. /\ HostGoto("open", host.attempt, <<>>, Rest(host.rx, Wanted))
          /\ returned' = returned \cup {call}
      BY <1>5, <2>3 DEF RecvRest
    <3>2. host'.pc = "open" /\ host'.left = <<>>
      BY <3>1 DEF HostGoto
    <3>3. ~InCall' /\ NoMore
      BY <1>2, <3>2, DroppedNoMore DEF InCall
    <3>4. executed[call] > 0 \/ disturbed
      <4>1. disturbed \/ Answered \/ Lost
        BY <1>1 DEF CalmOK, Undisturbed, Flushing, Clean, Coming, Working
      <4>2. Lost => ~host.rx[1].good
        <5>1. Lost => host.rx = Sorry
          BY <1>1 DEF Lost
        <5>2. 1 \in 1 .. Len(Sorry)
          BY <1>1, SorryReply, Constant
        <5>3. Sorry[1] = [call |-> call, pos |-> 1, size |-> Len(Sorry), good |-> FALSE]
          BY <1>1, <5>2, SorryReply
        <5>4. QED
          BY <5>1, <5>3
      <4>3. QED
        BY <2>3, <4>1, <4>2 DEF Answered
    <3>5. abandoned' = IF disturbed THEN abandoned \cup {call} ELSE abandoned
      BY <1>1, <2>1 DEF EndCall
    <3>6. Abstract!Return
      BY <1>1, <1>2, <2>1, <3>1, <3>3, <3>4, <3>5 DEF Abstract!Return, Abstract!Abandon
    <3>7. OverOK'
      BY <1>2, <1>3, <3>3, <3>5, StillOver
    <3>8. QED
      BY <3>6, <3>7 DEF Promised, Abstract!Next
  <2>4. QED
    BY <2>2, <2>3
<1>6. QED
  BY <1>4, <1>5

LEMMA TransactKeeps ==
  ASSUME IInv, CalmOK, OverOK, Transact
  PROVE  Promised
<1>1. CASE Retry
  BY <1>1, RetryKeeps
<1>2. CASE RecvRest
  BY <1>2, RecvRestKeeps
<1>3. CASE FlushRead \/ UsbRead
  <2>1. /\ UNCHANGED <<kinds, dev, executed, log, out_ep>>
        /\ host'.pc = host.pc /\ host'.attempt = host.attempt /\ host'.left = host.left
    BY <1>3, Typed DEF FlushRead, UsbRead, devVars
  <2>2. InCall' = InCall /\ NoMore
    BY <2>1, DroppedNoMore DEF InCall
  <2>3. QED
    BY <2>1, <2>2, Silent DEF Promised
<1>4. CASE UsbWrite
  <2>1. UNCHANGED <<kinds, executed, log>> /\ NoMore
    BY <1>4, WrittenNoMore DEF UsbWrite, devVars
  <2>2. /\ host.pc = "write" /\ host'.pc \in {"write", "readHeader"}
        /\ host'.attempt = host.attempt
    BY <1>4 DEF UsbWrite, HostGoto
  <2>3. InCall' = InCall
    BY <2>2 DEF InCall
  <2>4. QED
    BY <2>1, <2>3, Silent DEF Promised
<1>5. CASE FlushEnd
  <2>1. /\ HostGoto(IF InCall THEN "sleep" ELSE "open", host.attempt, <<>>, <<>>)
        /\ UNCHANGED <<kinds, dev, executed, log, out_ep>>
    BY <1>5 DEF FlushEnd, devVars
  <2>2. /\ host'.pc = (IF InCall THEN "sleep" ELSE "open") /\ host'.attempt = host.attempt
        /\ host'.left = <<>>
    BY <2>1 DEF HostGoto
  <2>3. InCall' = InCall
    <3>1. CASE InCall
      BY <2>2, <3>1 DEF InCall
    <3>2. CASE ~InCall
      BY <2>2, <3>2 DEF InCall
    <3>3. QED
      BY <3>1, <3>2
  <2>4. NoMore
    BY <2>1, <2>2, DroppedNoMore
  <2>5. QED
    BY <2>1, <2>3, <2>4, Silent DEF Promised
<1>6. CASE WriteTimeout \/ ReadTimeout \/ RecvHeader
  <2>1. /\ host.pc \in {"write", "readHeader", "readRest"} /\ host.attempt > 0
        /\ UNCHANGED <<kinds, dev, executed, log, out_ep>>
    BY <1>6 DEF WriteTimeout, ReadTimeout, RecvHeader, Short, Reading, Except, devVars, log,
                IInv, HostOK
  <2>2. \/ HostGoto("flush", host.attempt, <<>>, <<>>)
        \/ HostGoto("readRest", host.attempt, <<>>, host.rx)
    BY <1>6 DEF WriteTimeout, ReadTimeout, RecvHeader, Except
  <2>3. host'.pc \in {"flush", "readRest"} /\ host'.attempt = host.attempt /\ host'.left = <<>>
    BY <2>2 DEF HostGoto
  <2>4. InCall' = InCall /\ NoMore
    <3>1. InCall /\ InCall'
      BY <2>1, <2>3 DEF InCall
    <3>2. NoMore
      BY <2>1, <2>3, DroppedNoMore
    <3>3. QED
      BY <3>1, <3>2
  <2>5. QED
    BY <2>1, <2>4, Silent DEF Promised
<1>7. QED
  BY <1>1, <1>2, <1>3, <1>4, <1>5, <1>6 DEF Transact

\* A new call: nothing of it is anywhere but in the host's hands.
LEMMA CallKeeps ==
  ASSUME IInv, OverOK, Call
  PROVE  Promised
<1>1. PICK k \in Kinds : kinds' = Append(kinds, k)
  BY DEF Call
<1>2. kinds \in Seq(Kinds) /\ call \in Nat /\ host.pc = "open" /\ call < MaxCalls /\ host.left = <<>>
  BY Counts DEF Call, IInv, HostOK
<1>3. kinds' \in Seq(Kinds) /\ call' = call + 1
  BY <1>1, <1>2, AppendProperties DEF call
<1>4. (kinds \in Seq(Kinds) =>
        \A c \in 1 .. call :
          /\ Message(c) \in Seq(CommandBytes(call)) /\ Message(c) # <<>>
          /\ Message(c)[1] = [call |-> c, pos |-> 1] /\ FirstsLead(Message(c)))'
  BY MessageOf, PTL
<1> DEFINE m == Message(call)'
<1>5. m[1] = [call |-> call', pos |-> 1]
  BY <1>2, <1>3, <1>4
<1>6. HostGoto("write", 1, m, host.rx) /\ UNCHANGED <<devVars, out_ep, in_ep, log>>
  BY DEF Call
<1> HIDE DEF m
<1>7. host'.pc = "write" /\ host'.attempt = 1 /\ host'.left = m
  BY <1>6 DEF HostGoto
<1>8. ~InCall /\ InCall'
  BY <1>2, <1>7 DEF InCall
<1>9. OverOK'
  <2>1. SUFFICES ASSUME NEW c \in 1 .. call', OnTheWay(c)' > 0, c # call'
                 PROVE  c \in abandoned'
    BY <1>8 DEF OverOK
  <2>2. c \in 1 .. call
    BY <1>2, <1>3, <2>1
  <2>3. Starts(m, c) = 0 /\ Starts(host.left, c) = 0
    BY <1>2, <1>5, <2>1 DEF Starts
  <2>4. OnTheWay(c)' = OnTheWay(c)
    BY <1>6, <1>7, <2>3 DEF OnTheWay, devVars, Receiving, Starts
  <2>5. QED
    BY <1>6, <1>8, <2>1, <2>2, <2>4 DEF OverOK, log
<1>10. Abstract!Begin
  BY <1>2, <1>3, <1>6, <1>8 DEF Abstract!Begin, devVars, log
<1>11. QED
  BY <1>9, <1>10 DEF Promised, Abstract!Next

LEMMA UserKeeps ==
  ASSUME IInv, OverOK, User
  PROVE  Promised
<1>1. CASE Open
  <2>1. /\ ~InCall /\ UNCHANGED <<kinds, dev, executed, abandoned, returned>> /\ call' = call
        /\ disturbed' \in BOOLEAN
    BY <1>1 DEF Open, InCall, devVars, call
  <2>2. out_ep' \in {out_ep, <<>>}
    BY <1>1 DEF Open
  <2>3. HostGoto("flush", 0, <<>>, <<>>)
    BY <1>1 DEF Open
  <2>4. host'.attempt = 0 /\ host'.left = <<>>
    BY <2>3 DEF HostGoto
  <2>5. ~InCall'
    BY <2>4 DEF InCall
  <2>6. NoMore
    BY <2>1, <2>2, <2>4, DroppedNoMore
  <2>7. OverOK'
    BY <2>1, <2>6, StillOver
  <2>8. Abstract!NewSession
    <3>1. InCall' = InCall
      BY <2>1, <2>5 DEF InCall
    <3>2. QED
      BY <2>1, <3>1, Zenon DEF Abstract!NewSession
  <2>9. QED
    BY <2>7, <2>8 DEF Promised, Abstract!Next
<1>2. CASE Call
  BY <1>2, CallKeeps
<1>3. CASE UsbError
  <2>1. /\ host.pc \in {"write", "readHeader", "readRest"} /\ host.attempt > 0
        /\ UNCHANGED <<kinds, dev, executed, out_ep, abandoned, returned>>
        /\ disturbed' = TRUE /\ call' = call
    BY <1>3 DEF UsbError, Short, Reading, Except, devVars, IInv, HostOK, call
  <2>2. HostGoto("flush", host.attempt, <<>>, <<>>)
    BY <1>3 DEF UsbError, Except
  <2>3. host'.pc = "flush" /\ host'.attempt = host.attempt /\ host'.left = <<>>
    BY <2>2 DEF HostGoto
  <2>4. InCall /\ InCall'
    BY <2>1, <2>3 DEF InCall
  <2>5. NoMore
    BY <2>1, <2>3, DroppedNoMore
  <2>6. OverOK'
    BY <2>1, <2>4, <2>5, StillOver
  <2>7. Abstract!Disturb
    BY <2>1, <2>4 DEF Abstract!Disturb
  <2>8. QED
    BY <2>6, <2>7 DEF Promised, Abstract!Next
<1>4. CASE Exit \/ Unplug
  <2>1. EndCall(TRUE) /\ Close /\ UNCHANGED <<executed, kinds, disturbed, returned>>
    BY <1>4 DEF Exit, Unplug, devVars
  <2>2. host'.pc = "closed" /\ host'.left = <<>>
    BY <2>1 DEF Close, HostGoto
  <2>3. ~InCall'
    BY <2>2 DEF InCall
  <2>4. NoMore
    <3>1. CASE Exit
      BY <2>2, <3>1, DroppedNoMore DEF Exit, devVars
    <3>2. CASE Unplug
      <4>1. dev'.pc = "poll" /\ out_ep' = <<>>
        BY <3>2 DEF Unplug, Return
      <4>2. \A c : OnTheWay(c)' = 0
        BY <2>2, <4>1 DEF OnTheWay, Receiving, Starts
      <4>3. QED
        BY <4>2, OnTheWayType DEF NoMore
    <3>3. QED
      BY <1>4, <3>1, <3>2
  <2>5. CASE InCall
    BY <2>1, <2>3, <2>4, <2>5, Raises
  <2>6. CASE ~InCall
    <3>1. abandoned' = abandoned
      BY <2>1, <2>6 DEF EndCall
    <3>2. InCall' = InCall
      BY <2>3, <2>6 DEF InCall
    <3>3. QED
      BY <2>1, <2>4, <3>1, <3>2, Silent DEF Promised, log
  <2>7. QED
    BY <2>5, <2>6
<1>5. QED
  BY <1>1, <1>2, <1>3, <1>4 DEF User

\* Every step keeps the promise: it is a step of Abstract's, or one that its callers
\* do not see.
LEMMA Keeps == IInv /\ CalmOK /\ OverOK /\ [Next]_vars => Promised
<1> SUFFICES ASSUME IInv, CalmOK, OverOK, [Next]_vars PROVE Promised
  OBVIOUS
<1>1. CASE Tick \/ UNCHANGED vars
  <2>1. UNCHANGED <<kinds, dev, out_ep, host, executed, log>>
    BY <1>1 DEF Tick, vars, log
  <2>2. InCall' = InCall
    BY <2>1 DEF InCall
  <2>3. NoMore
    BY <2>1, DroppedNoMore
  <2>4. QED
    BY <2>1, <2>2, <2>3, Silent DEF Promised
<1>2. QED
  BY <1>1, FirmwareKeeps, TransactKeeps, UserKeeps DEF Next

\* _transact() and the firmware's parser keep Rpc's promise, whatever is late, lost or
\* cut short, for any sizes, times and number of calls and attempts: a call that returns
\* was carried out, once per attempt at most, and one that ended is over, but for those
\* that Ctrl-C, the cable or a failed transfer ended (meggy_flash.py:181, protocol.c:127).
THEOREM TransportImplementsRpc == Spec => ImplementsRpc
<1>1. Init => OverOK /\ Abstract!Init
  <2> SUFFICES ASSUME Init PROVE OverOK /\ Abstract!Init
    OBVIOUS
  <2>1. call = 0 /\ ~InCall
    BY EmptySeq DEF Init, call, InCall
  <2>2. Calls = Abstract!Calls \cup {0}
    BY Constant DEF Calls, Abstract!Calls
  <2>3. OverOK
    BY <2>1 DEF OverOK
  <2>4. Abstract!Init
    BY <2>1, <2>2 DEF Init, Abstract!Init
  <2>5. QED
    BY <2>3, <2>4
<1>2. IInv /\ CalmOK /\ OverOK /\ [Next]_vars => OverOK' /\ [Abstract!Next]_(Abstract!vars)
  BY Keeps DEF Promised
<1>3. QED
  BY <1>1, <1>2, InitOK, StepOK, CalmInit, CalmStep, PTL DEF Spec, ImplementsRpc, Abstract!Spec
=============================================================================

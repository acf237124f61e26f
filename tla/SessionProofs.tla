---------------------------- MODULE SessionProofs ----------------------------
(***************************************************************************)
(* No status ends a session, for every size of the chip, every sector map  *)
(* and every set of images, where the chip is not worn; and a              *)
(* session that found the chip idle has done its work at its end.  First   *)
(* what a script asks for at each step, then WelcomeInv on top of          *)
(* SystemInv, then CleanInv on top of both.                                *)
(***************************************************************************)
EXTENDS MeggyProofs

-----------------------------------------------------------------------------
(* The scripts, call by call.                                              *)

Sectors == Len(SECTOR_MAP)
EraseLen == Len(EraseCurrentSlot)

\* The map names a sector at least, and each takes five calls.
LEMMA MapSize ==
  /\ Sectors \in Nat \ {0} /\ DOMAIN SECTOR_MAP = 1 .. Sectors
  /\ \A k \in 1 .. Sectors : SECTOR_MAP[k] \in 0 .. SlotWords - 1
  /\ Len(EraseSector(0)) = 5
  /\ EraseCurrentSlot \in Seq(Calls) /\ EraseLen = 5 * Sectors /\ EraseLen \in Nat
  /\ \A n \in 1 .. EraseLen : EraseCurrentSlot[n] =
       EraseSector(SECTOR_MAP[((n - 1) \div 5) + 1])[((n - 1) % 5) + 1]
<1>1. /\ SECTOR_MAP \in Seq(0 .. SlotWords - 1) /\ Sectors \in Nat
      /\ DOMAIN SECTOR_MAP = 1 .. Sectors
      /\ \A k \in 1 .. Sectors : SECTOR_MAP[k] \in 0 .. SlotWords - 1
  <2>1. SECTOR_MAP \in Seq(0 .. SlotWords - 1)
    BY HostAssumption
  <2>2. QED
    BY <2>1, LenProperties, ElementOfSeq DEF Sectors
<1>2. Sectors # 0
  <2>1. 0 \in 0 .. SlotWords - 1
    BY SlotAssumption
  <2>2. \E n \in DOMAIN SECTOR_MAP :
          Sector[0 * SlotWords + SECTOR_MAP[n]] = Sector[0 * SlotWords + 0]
    BY <2>1, MapAssumption
  <2>3. QED
    BY <1>1, <2>2
<1>3. Len(EraseSector(0)) = 5
  BY DEF EraseSector
<1>4. EraseCurrentSlot =
        [n \in 1 .. 5 * Sectors |->
           EraseSector(SECTOR_MAP[((n - 1) \div 5) + 1])[((n - 1) % 5) + 1]]
  BY <1>3 DEF EraseCurrentSlot, Sectors
<1>5. 5 * Sectors \in Nat
  BY <1>1
<1>6. EraseCurrentSlot \in Seq(Calls) /\ EraseLen = 5 * Sectors
  <2>1. EraseCurrentSlot \in Seq(Calls)
    BY EraseCalls
  <2>2. EraseLen \in Nat /\ DOMAIN EraseCurrentSlot = 1 .. EraseLen
    BY <2>1, LenProperties DEF EraseLen
  <2>3. DOMAIN EraseCurrentSlot = 1 .. 5 * Sectors
    BY <1>4
  <2>4. QED
    BY <1>5, <2>1, <2>2, <2>3
<1>7. \A n \in 1 .. EraseLen : EraseCurrentSlot[n] =
        EraseSector(SECTOR_MAP[((n - 1) \div 5) + 1])[((n - 1) % 5) + 1]
  BY <1>4, <1>6
<1>8. QED
  BY <1>1, <1>2, <1>3, <1>5, <1>6, <1>7

\* The chunks of write() lie in the slot.
LEMMA ChunkInSlot ==
  ASSUME NEW n \in 1 .. NumChunks
  PROVE  /\ (n - 1) * CHUNK_WORDS \in Nat
         /\ (n - 1) * CHUNK_WORDS + CHUNK_WORDS <= SlotWords
<1>1. NumChunks \in Nat /\ CHUNK_WORDS \in Nat \ {0} /\ NumChunks * CHUNK_WORDS = SlotWords
  BY ChunksFill
<1>2. PICK k \in Nat : k = n - 1 /\ k + 1 <= NumChunks
  BY <1>1
<1>3. /\ k * CHUNK_WORDS \in Nat /\ (k + 1) * CHUNK_WORDS <= SlotWords
      /\ (k + 1) * CHUNK_WORDS = k * CHUNK_WORDS + CHUNK_WORDS
  BY <1>1, <1>2, NoMoreThanSlot
<1>4. QED
  BY <1>2, <1>3

\* What verify() asks for.
Readbacks ==
  {Reset} \cup {Ask("READ", (m - 1) * CHUNK_WORDS, CHUNK_WORDS, <<>>) : m \in 1 .. NumChunks}
LEMMA VerifyReads ==
  /\ NumChunks \in Nat /\ Len(Verify) = NumChunks + 1
  /\ \A n \in 1 .. NumChunks + 1 : Verify[n] \in Readbacks
  /\ \A r \in Readbacks : r.cmd \in {"FLASH_RESET", "READ"}
<1>1. ASSUME NEW n \in 1 .. NumChunks + 1 PROVE Verify[n] \in Readbacks
  <2>1. CASE n = 1
    BY <2>1, VerifyCalls DEF Readbacks
  <2>2. CASE n # 1
    <3>1. n \in 2 .. NumChunks + 1 /\ n - 1 \in 1 .. NumChunks /\ (n - 1) - 1 = n - 2
      BY <2>2, ChunksFill
    <3>2. Verify[n] = Ask("READ", ((n - 1) - 1) * CHUNK_WORDS, CHUNK_WORDS, <<>>)
      BY <3>1, VerifyCalls
    <3>3. QED
      BY <3>1, <3>2 DEF Readbacks
  <2>3. QED
    BY <2>1, <2>2
<1>2. \A r \in Readbacks : r.cmd \in {"FLASH_RESET", "READ"}
  BY DEF Readbacks, Reset, Ask
<1>3. QED
  BY <1>1, <1>2, VerifyCalls, ChunksFill

\* The script of a session that erases: five calls a sector, then those of write().
LEMMA EraseScript ==
  ASSUME NEW kind \in {"erase", "write"}, NEW img \in Images,
         NEW s, s = Script(kind, img)
  PROVE  /\ \A n \in 1 .. EraseLen : s[n] =
              EraseSector(SECTOR_MAP[((n - 1) \div 5) + 1])[((n - 1) % 5) + 1]
         /\ kind = "erase" => Len(s) = EraseLen
         /\ kind = "write" =>
              /\ Len(s) = EraseLen + NumChunks + 2 + NumChunks
              /\ \A n \in EraseLen + 1 .. EraseLen + NumChunks :
                   s[n] = ProgramChunk(img, (n - EraseLen - 1) * CHUNK_WORDS)
              /\ \A n \in EraseLen + NumChunks + 1 .. Len(s) : s[n] \in Readbacks
<1>1. NumChunks \in Nat /\ EraseLen \in Nat
  BY ChunksFill, MapSize
<1>2. CASE kind = "erase"
  BY <1>2, MapSize DEF Script, EraseLen
<1>3. CASE kind = "write"
  <2>1. /\ EraseCurrentSlot \in Seq(Calls) /\ Len(EraseCurrentSlot) = EraseLen
        /\ ProgramImage(img) \in Seq(Calls) /\ Len(ProgramImage(img)) = NumChunks
        /\ <<Reset>> \in Seq(Calls) /\ Len(<<Reset>>) = 1 /\ <<Reset>>[1] = Reset
        /\ Verify \in Seq(Calls) /\ Len(Verify) = NumChunks + 1
    <3>1. Reset \in Calls
      BY DEF Reset, Ask, Calls, HostCommands, WordLists
    <3>2. Len(ProgramImage(img)) = NumChunks
      <4>1. DOMAIN ProgramImage(img) = 1 .. NumChunks
        BY ChunksFill DEF ProgramImage
      <4>2. ProgramImage(img) \in Seq(Calls)
        BY ProgramCalls
      <4>3. QED
        BY <1>1, <4>1, <4>2, LenProperties
    <3>3. QED
      BY <3>1, <3>2, MapSize, ProgramCalls, VerifyCalls DEF EraseLen
  <2> DEFINE both == EraseCurrentSlot \o ProgramImage(img)
             three == both \o <<Reset>>
  <2>2. /\ both \in Seq(Calls) /\ Len(both) = EraseLen + NumChunks
        /\ \A n \in 1 .. EraseLen + NumChunks : both[n] =
             IF n <= EraseLen THEN EraseCurrentSlot[n] ELSE ProgramImage(img)[n - EraseLen]
    BY <2>1, ConcatProperties
  <2> HIDE DEF both
  <2>3. /\ three \in Seq(Calls) /\ Len(three) = EraseLen + NumChunks + 1
        /\ \A n \in 1 .. EraseLen + NumChunks + 1 : three[n] =
             IF n <= EraseLen + NumChunks THEN both[n]
             ELSE <<Reset>>[n - (EraseLen + NumChunks)]
    BY <2>1, <2>2, ConcatProperties
  <2> HIDE DEF three
  <2>4. s = three \o Verify
    BY <1>3 DEF Script, three, both
  <2>5. /\ Len(s) = EraseLen + NumChunks + 1 + (NumChunks + 1)
        /\ \A n \in 1 .. EraseLen + NumChunks + 1 + (NumChunks + 1) : s[n] =
             IF n <= EraseLen + NumChunks + 1 THEN three[n]
             ELSE Verify[n - (EraseLen + NumChunks + 1)]
    <3>1. /\ Len(three \o Verify) = Len(three) + Len(Verify)
          /\ \A n \in 1 .. Len(three) + Len(Verify) : (three \o Verify)[n] =
               IF n <= Len(three) THEN three[n] ELSE Verify[n - Len(three)]
      <4>1. three \in Seq(Calls) /\ Verify \in Seq(Calls)
        BY <2>1, <2>3
      <4>2. QED
        BY <4>1, ConcatProperties
    <3>2. QED
      BY <2>1, <2>3, <2>4, <3>1
  <2>6. Len(s) = EraseLen + NumChunks + 2 + NumChunks
    BY <1>1, <2>5
  <2>7. ASSUME NEW n \in 1 .. EraseLen PROVE s[n] = EraseCurrentSlot[n]
    <3>1. /\ n \in 1 .. EraseLen + NumChunks + 1 + (NumChunks + 1) /\ n <= EraseLen
          /\ n <= EraseLen + NumChunks + 1 /\ n \in 1 .. EraseLen + NumChunks + 1
          /\ n <= EraseLen + NumChunks /\ n \in 1 .. EraseLen + NumChunks
      BY <1>1
    <3>2. s[n] = three[n]
      BY <2>5, <3>1
    <3>3. three[n] = both[n]
      BY <2>3, <3>1
    <3>4. QED
      BY <2>2, <3>1, <3>2, <3>3
  <2>8. ASSUME NEW n \in EraseLen + 1 .. EraseLen + NumChunks
        PROVE  s[n] = ProgramChunk(img, (n - EraseLen - 1) * CHUNK_WORDS)
    <3>1. s[n] = ProgramImage(img)[n - EraseLen] /\ n - EraseLen \in 1 .. NumChunks
      BY <1>1, <2>2, <2>3, <2>5
    <3>2. \A k \in 1 .. NumChunks :
            ProgramImage(img)[k] = ProgramChunk(img, (k - 1) * CHUNK_WORDS)
      BY ChunksFill DEF ProgramImage
    <3>3. QED
      BY <3>1, <3>2
  <2>9. ASSUME NEW n \in EraseLen + NumChunks + 1 .. Len(s)
        PROVE  s[n] \in Readbacks
    <3>1. CASE n = EraseLen + NumChunks + 1
      <4>1. s[n] = Reset
        BY <1>1, <2>1, <2>3, <2>5, <3>1
      <4>2. QED
        BY <4>1 DEF Readbacks
    <3>2. CASE n > EraseLen + NumChunks + 1
      <4>1. PICK m \in 1 .. NumChunks + 1 : m = n - (EraseLen + NumChunks + 1)
        BY <1>1, <2>5, <3>2
      <4>2. s[n] = Verify[m]
        BY <1>1, <2>5, <3>2, <4>1
      <4>3. QED
        BY <4>2, VerifyReads
    <3>3. QED
      BY <1>1, <2>5, <3>1, <3>2
  <2>10. QED
    BY <1>3, <2>6, <2>7, <2>8, <2>9, MapSize
<1>4. QED
  BY <1>2, <1>3

\* The five calls for a sector.
LEMMA SectorCalls ==
  ASSUME NEW addr
  PROVE  /\ EraseSector(addr)[1] = Ask("SECTOR_ERASE", addr, 0, <<>>)
         /\ EraseSector(addr)[2] = Ask("GET_STATUS", 0, 0, <<>>)
         /\ EraseSector(addr)[3] = Reset /\ EraseSector(addr)[4] = Reset
         /\ EraseSector(addr)[5] = Ask("READ", addr, 1, <<>>)
  BY DEF EraseSector

\* Where a session is, and what it asks for there.
Sector1 == ((step - 1) \div 5) + 1
LEMMA Asked ==
  ASSUME HostTypeOK, session # "none", ~Finished
  PROVE  /\ step \in 1 .. Len(script) /\ Len(script) \in Nat
         /\ Erasing =>
              /\ step \in 1 .. EraseLen /\ Call \in 0 .. 4 /\ Sector1 \in 1 .. Sectors
              /\ step = 5 * (Sector1 - 1) + Call + 1
              /\ request = EraseSector(SECTOR_MAP[Sector1])[Call + 1]
         /\ Programming =>
              /\ step <= EraseLen + NumChunks =>
                   /\ step - EraseLen \in 1 .. NumChunks
                   /\ request = ProgramChunk(image, (step - EraseLen - 1) * CHUNK_WORDS)
              /\ step > EraseLen + NumChunks => request \in Readbacks
         /\ ~Erasing /\ ~Programming => request \in Readbacks
<1>1. /\ session \in {"erase", "write", "verify"} /\ session \in Sessions
      /\ image \in Images /\ step \in Nat \ {0}
  BY HostAssumption DEF HostTypeOK
<1>2. step \in 1 .. Len(script) /\ Len(script) \in Nat
  BY Requested
<1>3. script = Script(session, image) /\ request = script[step]
  BY DEF script, request
<1>4. EraseLen \in Nat /\ EraseLen = 5 * Sectors /\ Sectors \in Nat /\ NumChunks \in Nat
  BY MapSize, ChunksFill
<1>5. ASSUME Erasing
      PROVE  /\ step \in 1 .. EraseLen /\ Call \in 0 .. 4 /\ Sector1 \in 1 .. Sectors
             /\ step = 5 * (Sector1 - 1) + Call + 1
             /\ request = EraseSector(SECTOR_MAP[Sector1])[Call + 1]
  <2>1. step \in 1 .. EraseLen
    BY <1>1, <1>5 DEF Erasing, EraseLen
  <2>2. Call = (step - 1) % 5
    BY MapSize DEF Call
  <2>3. /\ Call \in 0 .. 4 /\ Sector1 \in 1 .. Sectors
        /\ step = 5 * (Sector1 - 1) + Call + 1
    BY <1>4, <2>1, <2>2 DEF Sector1
  <2>4. script[step] = EraseSector(SECTOR_MAP[Sector1])[((step - 1) % 5) + 1]
    BY <1>1, <1>3, <1>5, <2>1, EraseScript DEF Erasing, Sector1
  <2>5. QED
    BY <1>3, <2>1, <2>2, <2>3, <2>4
<1>6. ASSUME Programming
      PROVE  /\ step <= EraseLen + NumChunks =>
                  /\ step - EraseLen \in 1 .. NumChunks
                  /\ request = ProgramChunk(image, (step - EraseLen - 1) * CHUNK_WORDS)
             /\ step > EraseLen + NumChunks => request \in Readbacks
  <2>1. session = "write" /\ step > EraseLen
    BY <1>6 DEF Programming, EraseLen
  <2>2. /\ \A n \in EraseLen + 1 .. EraseLen + NumChunks :
             script[n] = ProgramChunk(image, (n - EraseLen - 1) * CHUNK_WORDS)
        /\ \A n \in EraseLen + NumChunks + 1 .. Len(script) : script[n] \in Readbacks
    BY <1>1, <1>3, <2>1, EraseScript
  <2>3. /\ step <= EraseLen + NumChunks =>
             step \in EraseLen + 1 .. EraseLen + NumChunks /\ step - EraseLen \in 1 .. NumChunks
        /\ step > EraseLen + NumChunks => step \in EraseLen + NumChunks + 1 .. Len(script)
    BY <1>2, <1>4, <2>1
  <2>4. QED
    BY <1>3, <2>2, <2>3
<1>7. ASSUME ~Erasing, ~Programming
      PROVE  request \in Readbacks
  <2>1. CASE session = "verify"
    <3>1. script = Verify
      BY <1>3, <2>1 DEF Script
    <3>2. QED
      BY <1>2, <1>3, <3>1, VerifyReads
  <2>2. CASE session = "write"
    BY <1>1, <1>4, <1>7, <2>2 DEF Erasing, Programming, EraseLen
  <2>3. CASE session = "erase"
    <3>1. Len(script) = EraseLen
      BY <1>1, <1>3, <2>3, EraseScript
    <3>2. QED
      BY <1>2, <1>7, <2>3, <3>1 DEF Erasing, EraseLen
  <2>4. QED
    BY <1>1, <2>1, <2>2, <2>3
<1>8. QED
  BY <1>2, <1>5, <1>6, <1>7

\* Which command it is decides where the session is, and the firmware has room for it.
LEMMA AskedCommand ==
  ASSUME HostTypeOK, session # "none", ~Finished
  PROVE  /\ request.cmd = "SECTOR_ERASE" =>
              Erasing /\ Call = 0 /\ request.addr = SECTOR_MAP[Sector1]
         /\ Erasing /\ Call = 1 => request.cmd = "GET_STATUS"
         /\ Erasing /\ Call = 4 => request.cmd = "READ" /\ request.len = 1
         /\ Erasing /\ request.cmd = "GET_STATUS" => Call = 1
         /\ Erasing /\ Call \in {0, 1} => request.cmd \notin {"READ", "FLASH_RESET"}
         /\ request.cmd = "PROGRAM" =>
              /\ Programming /\ step - EraseLen \in 1 .. NumChunks
              /\ request = ProgramChunk(image, (step - EraseLen - 1) * CHUNK_WORDS)
         /\ Programming /\ step <= EraseLen + NumChunks => request.cmd = "PROGRAM"
         /\ Programming => request.cmd \in {"PROGRAM", "FLASH_RESET", "READ"}
<1>1. /\ Ask("SECTOR_ERASE", SECTOR_MAP[Sector1], 0, <<>>).cmd = "SECTOR_ERASE"
      /\ Ask("SECTOR_ERASE", SECTOR_MAP[Sector1], 0, <<>>).addr = SECTOR_MAP[Sector1]
      /\ Ask("GET_STATUS", 0, 0, <<>>).cmd = "GET_STATUS" /\ Reset.cmd = "FLASH_RESET"
      /\ Ask("READ", SECTOR_MAP[Sector1], 1, <<>>).cmd = "READ"
      /\ Ask("READ", SECTOR_MAP[Sector1], 1, <<>>).len = 1
  BY DEF Ask, Reset
<1>2. ProgramChunk(image, (step - EraseLen - 1) * CHUNK_WORDS).cmd = "PROGRAM"
  BY DEF ProgramChunk, Ask
<1>3. Programming => step \in Nat /\ EraseLen \in Nat /\ NumChunks \in Nat
  BY Asked, MapSize, ChunksFill
<1>4. CASE Erasing
  <2>1. Call \in 0 .. 4 /\ request = EraseSector(SECTOR_MAP[Sector1])[Call + 1]
    BY <1>4, Asked
  <2>2. ~Programming
    BY <1>4, Asked DEF Erasing, Programming
  <2>3. CASE Call = 0
    BY <1>1, <2>1, <2>2, <2>3, <1>4, SectorCalls
  <2>4. CASE Call = 1
    BY <1>1, <2>1, <2>2, <2>4, <1>4, SectorCalls
  <2>5. CASE Call = 2
    BY <1>1, <2>1, <2>2, <2>5, <1>4, SectorCalls
  <2>6. CASE Call = 3
    BY <1>1, <2>1, <2>2, <2>6, <1>4, SectorCalls
  <2>7. CASE Call = 4
    BY <1>1, <2>1, <2>2, <2>7, <1>4, SectorCalls
  <2>8. QED
    BY <2>1, <2>3, <2>4, <2>5, <2>6, <2>7
<1>5. CASE ~Erasing
  BY <1>2, <1>3, <1>5, Asked, VerifyReads
<1>6. QED
  BY <1>4, <1>5

\* The same in the next state.
LEMMA AskedNext ==
  ASSUME HostTypeOK', session' # "none", ~Finished', Programming'
  PROVE  request'.cmd \in {"PROGRAM", "FLASH_RESET", "READ"}
<1>1. (HostTypeOK /\ session # "none" /\ ~Finished /\ Programming =>
         request.cmd \in {"PROGRAM", "FLASH_RESET", "READ"})'
  BY AskedCommand, PTL
<1>2. QED
  BY <1>1

\* The calls name cells of the slot, so the firmware has room for them.
LEMMA CallsFit ==
  ASSUME HostTypeOK, session # "none", ~Finished, CHUNK_WORDS <= MAX_WORDS_PER_CMD
  PROVE  Fitting(request)
<1>1. /\ SlotWords \in Nat \ {0} /\ FLASH_SIZE_WORDS = 2 * SlotWords
      /\ CHUNK_WORDS \in Nat \ {0} /\ MAX_WORDS_PER_CMD \in Nat
  BY ChunksFill, SlotAssumption, LimitsAssumption DEF FLASH_SIZE_WORDS
<1>2. ASSUME NEW cmd, NEW addr \in Nat, NEW len \in {0, 1, CHUNK_WORDS}, NEW words,
             addr + len <= SlotWords
      PROVE  Fitting(Ask(cmd, addr, len, words))
  BY <1>1, <1>2 DEF Fitting, Ask
<1>3. Fitting(Reset)
  BY <1>1, LimitsAssumption DEF Reset, Ask, Fitting
<1>4. ASSUME NEW n \in 1 .. NumChunks
      PROVE  /\ Fitting(Ask("READ", (n - 1) * CHUNK_WORDS, CHUNK_WORDS, <<>>))
             /\ Fitting(ProgramChunk(image, (n - 1) * CHUNK_WORDS))
  <2>1. PICK a \in Nat : a = (n - 1) * CHUNK_WORDS /\ a + CHUNK_WORDS <= SlotWords
    BY ChunkInSlot
  <2>2. Fitting(Ask("READ", a, CHUNK_WORDS, <<>>))
    BY <1>1, <1>2, <2>1
  <2>3. Fitting(ProgramChunk(image, a))
    BY <1>1, <1>2, <2>1 DEF ProgramChunk
  <2>4. QED
    BY <2>1, <2>2, <2>3
<1>5. \A r \in Readbacks : Fitting(r)
  BY <1>3, <1>4 DEF Readbacks
<1>6. CASE Erasing
  <2>1. PICK a \in Nat : a = SECTOR_MAP[Sector1] /\ a + 1 <= SlotWords
    BY <1>1, <1>6, Asked, MapSize
  <2>2. /\ Fitting(Ask("SECTOR_ERASE", a, 0, <<>>)) /\ Fitting(Ask("GET_STATUS", 0, 0, <<>>))
        /\ Fitting(Ask("READ", a, 1, <<>>))
    BY <1>1, <2>1 DEF Ask, Fitting
  <2>3. Call \in 0 .. 4 /\ request = EraseSector(a)[Call + 1]
    BY <1>6, <2>1, Asked
  <2>4. PICK n \in {1, 2, 3, 4, 5} : request = EraseSector(a)[n]
    BY <2>3
  <2>5. Fitting(EraseSector(a)[n])
    BY <1>3, <2>2, SectorCalls
  <2>6. QED
    BY <2>4, <2>5
<1>7. CASE Programming
  <2>1. step - EraseLen - 1 = (step - EraseLen) - 1
    BY <1>7, Asked, MapSize
  <2>2. CASE step <= EraseLen + NumChunks
    <3>1. PICK n \in 1 .. NumChunks :
            n = step - EraseLen /\ request = ProgramChunk(image, (n - 1) * CHUNK_WORDS)
      BY <1>7, <2>1, <2>2, Asked
    <3>2. Fitting(ProgramChunk(image, (n - 1) * CHUNK_WORDS))
      BY <1>4
    <3>3. QED
      BY <3>1, <3>2 DEF Fitting
  <2>3. CASE step > EraseLen + NumChunks
    BY <1>5, <1>7, <2>3, Asked
  <2>4. QED
    BY <2>2, <2>3, Asked, MapSize, ChunksFill
<1>8. QED
  BY <1>5, <1>6, <1>7, Asked

-----------------------------------------------------------------------------
(* What a step may do to the chip, the requests and the answer.            *)

\* An erase begins with the last word of SECTOR_ERASE, and on its sector.
LEMMA EraseBegins ==
  ASSUME SystemInv, WelcomeInv, [Next]_vars, mode' = "erasing", mode # "erasing"
  PROVE  /\ FlashCmd /\ pc = "erase" /\ bus' = <<>>
         /\ req # None /\ req.cmd = "SECTOR_ERASE" /\ inbox = None
         /\ job'.cells = SectorCells(Cell(req.addr))
<1>1. FlashCmd /\ Ready
  <2>1. ~FlashInit
    BY DEF FlashInit, Write, Word, Cycle, Decoded
  <2>2. QED
    BY <2>1, ChipMoves DEF chipVars, HwReset, Finish, Succeed, Fail, FlashCmd, Write
<1>2. /\ bus # <<>> /\ Len(bus) \in Nat \ {0} /\ Head(bus) = bus[1]
      /\ bus' = Tail(bus) /\ Len(bus') = Len(bus) - 1 /\ bus' \in Seq(Cycles)
  BY <1>1, BusTail, WhatIsKnown DEF FlashCmd, TypeInv, TypeOK
<1>3. job' = Target(bus[1]) /\ bus[1].code \in {"10", "30"}
  <2>1. Write(bus[1])
    BY <1>1, <1>2 DEF FlashCmd
  <2>2. QED
    BY <1>1, <2>1 DEF Write, Decoded, Busy, Algorithms
<1>4. pc = "erase" /\ Len(bus) = 1 /\ bus[1] = LastOnBus
  <2>1. LastWord
    BY WhatIsKnown DEF Known, Control
  <2>2. pc = "erase" /\ 1 = Len(bus)
    <3>1. PICK n \in Nat \ {0} : n = Len(bus)
      BY <1>2
    <3>2. \A j \in 1 .. n : bus[j].code \in {"10", "30"} => pc = "erase" /\ j = n
      BY <2>1, <3>1 DEF LastWord
    <3>3. QED
      BY <1>3, <3>1, <3>2
  <2>3. QED
    BY <2>2 DEF LastOnBus
<1>5. bus' = <<>>
  BY <1>2, <1>4, EmptySeq
<1>6. req.cmd = "SECTOR_ERASE" /\ bus[1] = Cycle("30", Cell(req.addr), {})
  BY <1>2, <1>4, WhatIsKnown DEF WelcomeInv, OnTheWay
<1>7. job'.cells = SectorCells(Cell(req.addr))
  BY <1>3, <1>6 DEF Target, Cycle
<1>8. req # None /\ inbox = None
  BY <1>4, WhatIsKnown, RequestsAssumption DEF TypeInv, Locals, OneAtATime
<1>9. QED
  BY <1>1, <1>4, <1>5, <1>6, <1>7, <1>8

\* Requests come from the session that runs, and are handled or lost.
LEMMA RequestsMove ==
  ASSUME SystemInv, [MeggyNext]_allVars
  PROVE  /\ req' \in {None, req} \/ (TaskPoll /\ req' = inbox)
         /\ inbox' \in {None, inbox} \/ (HostCall /\ inbox' = request)
<1>1. CASE Run \/ Chip
  BY <1>1 DEF Run, Chip, Task, FlashInit, ChipDone, FlashCmd, TaskPoll, Parse, Identify,
    SampleId, Read, FlashReset, ReadWord, ChipErase, SectorErase, RefuseWhileErasing,
    StartErase, EraseStarted, GetStatus, Release, Program, ProgramWord, WaitReady, WaitTimeout,
    Undefined, AvrReset, SendResponse, PullReset, Restart, fwVars, envVars
<1>2. CASE ~(Run \/ Chip)
  BY <1>2 DEF MeggyNext, StartSession, Host, HostCall, HostGivesUp, HostReply, HostDone,
    Abort, Deliver, SendResponse, Switch, MoveSwitch, Cable, UsbChange, Supply, PowerLoss,
    Restart, allVars, vars, fwVars, envVars
<1>3. QED
  BY <1>1, <1>2

\* No AVR reset breaks into an order.
LEMMA NoAvrReset ==
  ASSUME SystemInv, WelcomeInv, [Next]_vars
  PROVE  order'.upset # "AVR_RESET"
<1>1. pc # "reset" /\ TypeOK /\ order.upset # "AVR_RESET"
  BY WhatIsKnown DEF OneAtATime, WelcomeInv
<1>2. CASE Read \/ FlashReset
  BY <1>1, <1>2 DEF Read, FlashReset, StartRead, Dispatch, TypeOK
<1>3. CASE ChipErase \/ SectorErase \/ Program
  BY <1>1, <1>3 DEF ChipErase, SectorErase, RefuseWhileErasing, StartErase, Program, Begin
<1>4. CASE PowerLoss
  BY <1>4 DEF PowerLoss, NoOrder
<1>5. CASE ~(Read \/ FlashReset \/ ChipErase \/ SectorErase \/ Program \/ PowerLoss)
  BY <1>1, <1>5 DEF Next, Task, Environment, TaskPoll, Parse, Identify, SampleId,
    ReadWord, EraseStarted, GetStatus, Release, ProgramWord, WaitReady, WaitTimeout, FlashCmd,
    Undefined, AvrReset, SendResponse, PullReset, ChipDone, HostSend, UsbChange,
    MoveSwitch, FlashInit, At, vars
<1>6. QED
  BY <1>2, <1>3, <1>4, <1>5

-----------------------------------------------------------------------------
(* WelcomeInv.                                                             *)

\* The firmware has room for every request on the way.
LEMMA FittingStep ==
  ASSUME SystemInv, WelcomeInv, [MeggyNext]_allVars, CHUNK_WORDS <= MAX_WORDS_PER_CMD
  PROVE  \A r \in {req', inbox'} : r # None => Fitting(r)
<1>1. \A r \in {req, inbox} : r # None => Fitting(r)
  BY DEF WelcomeInv
<1>2. CASE HostCall
  <2>1. Fitting(request)
    BY <1>2, CallsFit, WhatIsKnown DEF HostCall, Silent
  <2>2. req' = req /\ inbox' = request
    BY <1>2 DEF HostCall, fwVars
  <2>3. QED
    BY <1>1, <2>1, <2>2
<1>3. CASE ~HostCall
  <2>1. {req', inbox'} \subseteq {None, req, inbox}
    BY <1>3, RequestsMove
  <2>2. QED
    BY <1>1, <2>1
<1>4. QED
  BY <1>2, <1>3

\* A program, once on its way, and all that follows the last blank check, meets no erase:
\* the READ before it ended what the chip was at.
LEMMA NoEraseRunsStep ==
  ASSUME SystemInv, WelcomeInv, [MeggyNext]_allVars
  PROVE  NoEraseRuns'
<1> SUFFICES ASSUME mode' = "erasing"
             PROVE  ~Programming' /\ ~IsProgram(req') /\ ~IsProgram(inbox')
  BY DEF NoEraseRuns, IsProgram
<1>1. [Next]_vars /\ SystemInv'
  BY FirmwareStep, SystemStep DEF SystemInv
<1>2. CASE mode # "erasing"
  <2>1. /\ FlashCmd /\ pc = "erase" /\ req # None /\ req.cmd = "SECTOR_ERASE"
        /\ inbox = None
    BY <1>1, <1>2, EraseBegins
  <2>2. UNCHANGED <<pc, req, inbox>>
    BY <2>1 DEF FlashCmd, envVars
  <2>3. ~IsProgram(req') /\ ~IsProgram(inbox')
    BY <2>1, <2>2 DEF IsProgram
  <2>4. ASSUME Programming' PROVE FALSE
    <3>1. session' # "none" /\ HostTypeOK' /\ OneAtATime'
      BY <1>1, <2>4 DEF Programming, SystemInv, HostInv
    <3>2. ~Finished' /\ req' = request'
      BY <2>1, <2>2, <3>1 DEF OneAtATime
    <3>3. request'.cmd \in {"PROGRAM", "FLASH_RESET", "READ"}
      BY <2>4, <3>1, <3>2, AskedNext
    <3>4. QED
      BY <2>1, <2>2, <3>2, <3>3
  <2>5. QED
    BY <2>3, <2>4
<1>3. CASE mode = "erasing"
  <2>1. ~Programming /\ ~IsProgram(req) /\ ~IsProgram(inbox)
    BY <1>3 DEF WelcomeInv, NoEraseRuns
  <2>2. ~IsProgram(req') /\ ~IsProgram(inbox')
    <3>1. HostCall => ~IsProgram(request)
      BY <2>1, AskedCommand, WhatIsKnown DEF HostCall, Silent, IsProgram
    <3>2. QED
      BY <2>1, <3>1, RequestsMove DEF IsProgram
  <2>3. ASSUME Programming' PROVE FALSE
    <3>1. session' = "write" /\ step' > EraseLen
      BY <2>3 DEF Programming, EraseLen
    <3>2. ~(session = "write" /\ step > EraseLen) /\ EraseLen \in Nat \ {0}
      BY <2>1, MapSize DEF Programming, EraseLen
    <3>3. HostReply /\ session = "write" /\ Passes /\ step' = step + 1
      BY <3>1, <3>2 DEF MeggyNext, StartSession, Host, HostCall, HostGivesUp, HostReply,
        HostDone, EndSession, Abort, Deliver, Run, Chip, Switch, Cable, Supply, hostVars,
        allVars
    <3>4. reply # None /\ ~Finished
      BY <3>3, WhatIsKnown DEF HostReply, OneAtATime
    <3>5. step = EraseLen /\ Erasing
      <4>1. step \in Nat
        BY <3>3, <3>4, Asked, WhatIsKnown
      <4>2. QED
        BY <3>1, <3>2, <3>3, <4>1 DEF Erasing, EraseLen
    <3>6. Call = 4
      BY <3>3, <3>4, <3>5, Asked, MapSize, WhatIsKnown, SMTT(20)
    <3>7. request.cmd = "READ" /\ reply.status = "OK"
      BY <3>3, <3>4, <3>5, <3>6, AskedCommand, WhatIsKnown DEF Passes
    <3>8. Ready
      BY <3>4, <3>7, WhatIsKnown DEF ReplyStillTrue
    <3>9. QED
      BY <1>3, <3>8 DEF Ready, Busy, Algorithms
  <2>4. QED
    BY <2>2, <2>3
<1>4. QED
  BY <1>2, <1>3

\* Where a request is handled, it is one of the host's, and fits.
LEMMA Handled ==
  ASSUME SystemInv, WelcomeInv, pc \notin {"boot", "loop"}
  PROVE  /\ req \in Requests /\ req # None /\ req.cmd \in HostCommands /\ Fitting(req)
         /\ req.cmd \in Commands /\ req.addr \in Nat /\ req.len \in Nat
         /\ inbox = None /\ req' = req => req' # None
         /\ session # "none" => ~Finished /\ req = request
<1>1. req \in Requests
  BY WhatIsKnown DEF TypeInv, Locals, OneAtATime
<1>2. req # None /\ req.cmd \in Commands /\ req.addr \in Nat /\ req.len \in Nat
  BY <1>1, RequestsAssumption
<1>3. req.cmd \in HostCommands /\ Fitting(req) /\ inbox = None
  BY <1>2, WhatIsKnown DEF OnlyHostCommands, WelcomeInv, OneAtATime
<1>4. session # "none" => ~Finished /\ req = request
  BY <1>2, WhatIsKnown DEF OneAtATime
<1>5. QED
  BY <1>1, <1>2, <1>3, <1>4

\* The firmware's answers: none is an error.
LEMMA FirmwareAccepts ==
  ASSUME SystemInv, WelcomeInv, Run, ~Worn, pc' \in {"release", "respond"}
  PROVE  Accepted(req'.cmd, answer'.status)
<1>1. CASE FlashCmd
  BY <1>1 DEF FlashCmd, WelcomeInv, AnswersAccept
<1>2. CASE TaskPoll \/ SendResponse \/ PullReset
  BY <1>2 DEF TaskPoll, SendResponse, PullReset, Restart, At
<1>3. CASE ~(FlashCmd \/ TaskPoll \/ SendResponse \/ PullReset)
  <2>1. pc \notin {"boot", "loop"} /\ Task
    BY <1>3, WhatIsKnown DEF OneAtATime, Run, Task, Parse, Identify, SampleId, Read,
      FlashReset, ReadWord, ChipErase, SectorErase, RefuseWhileErasing, StartErase,
      EraseStarted, GetStatus, Release, Program, ProgramWord, WaitReady, WaitTimeout, Undefined,
      AvrReset, Dispatch, At
  <2>2. /\ req # None /\ req.cmd \in HostCommands /\ Fitting(req) /\ req.len \in Nat
        /\ req.addr \in Nat
    BY <2>1, Handled
  <2>0. ~OutOfRange
    <3>1. FLASH_SIZE_WORDS \in Nat
      BY SlotAssumption DEF FLASH_SIZE_WORDS
    <3>2. QED
      BY <2>2, <3>1 DEF Fitting, OutOfRange
  <2>3. CASE Parse
    BY <2>2, <2>3, LimitsAssumption DEF Parse, Fitting, TooLong, Short
  <2>4. CASE \/ Identify \/ SampleId \/ ChipErase \/ Undefined \/ AvrReset
    BY <2>2, <2>4, WhatIsKnown DEF Identify, SampleId, ChipErase, RefuseWhileErasing,
      Undefined, AvrReset, Dispatch, At, HostCommands, AnswersTrue
  <2>5. CASE Read \/ FlashReset \/ ReadWord
    <3>1. req.cmd \in {"READ", "FLASH_RESET"}
      BY <2>5, WhatIsKnown DEF Read, FlashReset, ReadWord, Dispatch, At, TypeInv, Locals
    <3>2. req' = req /\ answer'.status = "OK"
      BY <1>3, <2>0, <2>5 DEF Read, FlashReset, ReadWord, StartRead, Answer
    <3>3. QED
      BY <3>1, <3>2 DEF Accepted
  <2>6. CASE SectorErase \/ EraseStarted
    BY <2>6 DEF SectorErase, RefuseWhileErasing, StartErase, EraseStarted, Reject,
      Dispatch, At, WelcomeInv, Accepted, Answer
  <2>7. CASE GetStatus
    BY <2>7 DEF GetStatus, Dispatch, Reject, Accepted, Answer
  <2>8. CASE Release
    BY <2>8 DEF Release, At, WelcomeInv, AnswersAccept
  <2>9. CASE Program
    <3>1. req.cmd = "PROGRAM"
      BY <2>9 DEF Program, RefuseWhileErasing, Dispatch
    <3>2. ~erase_in_progress
      BY <2>2, <3>1 DEF WelcomeInv, IsProgram
    <3>3. QED
      BY <2>9, <2>0, <3>2 DEF Program, RefuseWhileErasing
  <2>10. CASE ProgramWord
    <3>1. req.cmd = "PROGRAM"
      BY <2>10, WhatIsKnown DEF ProgramWord, At, TypeInv, Locals
    <3>2. QED
      BY <2>10, <3>1 DEF ProgramWord, Accepted, Answer
  <2>11. CASE WaitReady
    BY <2>11 DEF WaitReady
  <2>12. CASE WaitTimeout
    <3>1. req.cmd = "PROGRAM" /\ mode = "erasing"
      BY <2>12, WhatIsKnown DEF WaitTimeout, At, TypeInv, Locals
    <3>2. mode # "erasing"
      BY <2>2, <3>1 DEF WelcomeInv, NoEraseRuns, IsProgram
    <3>3. QED
      BY <3>1, <3>2
  <2>13. QED
    BY <1>3, <2>1, <2>3, <2>4, <2>5, <2>6, <2>7, <2>8, <2>9, <2>10, <2>11, <2>12 DEF Task
<1>4. QED
  BY <1>1, <1>2, <1>3

\* Where protocol_task() stands does not change in any other step, unless it begins anew.
LEMMA OthersWait ==
  ASSUME [MeggyNext]_allVars, ~Run
  PROVE  \/ UNCHANGED fwVars
         \/ pc' \in {"boot", "loop"} /\ bus' = <<>> /\ erase_in_progress' = FALSE
         \/ UNCHANGED <<bus, req, i, answer, erase_in_progress, oe_buf>> /\ pc' = "loop"
         \/ Deliver /\ UNCHANGED <<chipVars, bus, erase_in_progress, oe_buf, envVars, order>>
  BY DEF MeggyNext, StartSession, Host, HostCall, HostGivesUp, HostReply, HostDone,
    Abort, Deliver, SendResponse, Chip, FlashInit, ChipDone, Switch, MoveSwitch, Cable,
    UsbChange, Supply, PowerLoss, Restart, allVars, vars

LEMMA AcceptStep ==
  ASSUME SystemInv, WelcomeInv, [MeggyNext]_allVars, ~Worn
  PROVE  AnswersAccept'
<1>1. ASSUME pc' \in {"release", "respond"}
      PROVE  Accepted(req'.cmd, answer'.status)
  <2>1. CASE Run
    BY <1>1, <2>1, FirmwareAccepts
  <2>2. CASE ~Run
    <3>1. UNCHANGED fwVars \/ Deliver
      BY <1>1, <2>2, OthersWait
    <3>2. ~Deliver
      <4>1. Deliver => req.cmd = "AVR_RESET" \/ pc' = "loop"
        BY DEF Deliver, SendResponse
      <4>2. Deliver => req.cmd \in HostCommands
        BY Handled DEF Deliver, SendResponse, At
      <4>3. QED
        BY <1>1, <4>1, <4>2 DEF HostCommands
    <3>3. QED
      BY <1>1, <3>1, <3>2 DEF fwVars, WelcomeInv, AnswersAccept
  <2>3. QED
    BY <2>1, <2>2
<1>2. ASSUME reply' # None
      PROVE  Accepted(request'.cmd, reply'.status)
  <2>1. CASE Deliver /\ reply' = answer
    <3>1. pc = "respond" /\ session # "none"
      BY <1>2, <2>1 DEF Deliver, SendResponse, At
    <3>2. req = request /\ Accepted(req.cmd, answer.status)
      BY <3>1, Handled DEF WelcomeInv, AnswersAccept
    <3>3. request' = request
      BY <2>1 DEF Deliver, request, script
    <3>4. QED
      BY <2>1, <3>2, <3>3
  <2>2. CASE ~(Deliver /\ reply' = answer)
    <3>1. reply' = reply /\ UNCHANGED <<session, image, step>>
      BY <1>2, <2>2, WhatIsKnown DEF OneAtATime, MeggyNext, StartSession, Host, HostCall,
        HostGivesUp, HostReply, HostDone, EndSession, Abort, Deliver, Run, Chip, Switch,
        Cable, Supply, hostVars, allVars
    <3>2. request' = request
      BY <3>1 DEF request, script
    <3>3. QED
      BY <1>2, <3>1, <3>2 DEF WelcomeInv, AnswersAccept
  <2>3. QED
    BY <2>1, <2>2
<1>3. QED
  BY <1>1, <1>2 DEF AnswersAccept

\* A chip that is busy while nothing is programmed is erasing.
LEMMA BusyErasing ==
  ASSUME SystemInv, ~Worn, pc # "wait", ~Ready
  PROVE  mode = "erasing"
  BY WhatIsKnown DEF Known, Control, ProgramWaited, Ready, Busy, Algorithms, TypeInv,
    TypeOK, ChipTypeOK

\* An OK to GET_STATUS stays true while it waits.
LEMMA StatusStillTrueStep ==
  ASSUME SystemInv, WelcomeInv, [MeggyNext]_allVars
  PROVE  StatusStillTrue'
<1> SUFFICES ASSUME reply' # None, reply'.status = "OK", request'.cmd = "GET_STATUS"
             PROVE  mode' # "erasing"
  BY DEF StatusStillTrue
<1>1. [Next]_vars
  BY FirmwareStep DEF SystemInv
<1>2. CASE Deliver /\ reply' = answer
  <2>1. /\ pc = "respond" /\ session # "none" /\ mode' = mode
        /\ request' = request
    BY <1>2 DEF Deliver, SendResponse, At, chipVars, request, script
  <2>2. req = request /\ Answering({"GET_STATUS"})
    <3>1. req = request
      BY <2>1, Handled
    <3>2. QED
      BY <1>2, <2>1, <3>1 DEF Answering
  <2>3. ~erase_in_progress
    <3>1. Answering({"GET_STATUS", "PROGRAM"})
      BY <2>2 DEF Answering
    <3>2. QED
      BY <3>1, WhatIsKnown DEF AnswersTrue
  <2>4. mode # "erasing"
    BY <2>1, <2>3, WhatIsKnown DEF Known, Control, EraseTracked, WelcomeInv
  <2>5. QED
    BY <2>1, <2>4
<1>3. CASE ~(Deliver /\ reply' = answer)
  <2>1. reply' = reply /\ UNCHANGED <<session, image, step>>
    BY <1>3, WhatIsKnown DEF OneAtATime, MeggyNext, StartSession, Host, HostCall,
      HostGivesUp, HostReply, HostDone, EndSession, Abort, Deliver, Run, Chip, Switch,
      Cable, Supply, hostVars, allVars
  <2>2. request' = request
    BY <2>1 DEF request, script
  <2>3. mode # "erasing" /\ pc = "loop"
    BY <2>1, <2>2, WhatIsKnown DEF WelcomeInv, StatusStillTrue, OneAtATime
  <2>4. QED
    BY <1>1, <2>3, EraseBegins
<1>4. QED
  BY <1>2, <1>3

\* A PROGRAM finds the erase flag down, and only SECTOR_ERASE sends erase words.
LEMMA FlagStep ==
  ASSUME SystemInv, WelcomeInv, [MeggyNext]_allVars, ~Worn
  PROVE  /\ IsProgram(req') => ~erase_in_progress'
         /\ pc' = "erase" => req'.cmd = "SECTOR_ERASE"
<1>1. CASE ~Run
  <2>1. \/ UNCHANGED <<pc, req, erase_in_progress>>
        \/ erase_in_progress' = FALSE /\ pc' \in {"boot", "loop"}
        \/ UNCHANGED <<req, erase_in_progress>> /\ pc' = "loop"
        \/ Deliver /\ UNCHANGED erase_in_progress
    BY <1>1, OthersWait DEF fwVars
  <2>2. Deliver => req' = None /\ pc' \in {"loop", "reset"}
    BY DEF Deliver, SendResponse
  <2>3. QED
    BY <2>1, <2>2 DEF WelcomeInv, IsProgram
<1>2. CASE Run /\ TaskPoll
  <2>1. ASSUME IsProgram(req') PROVE ~erase_in_progress'
    <3>1. pc = "loop" /\ IsProgram(inbox)
      BY <1>2, <2>1, WhatIsKnown DEF TaskPoll, At, IsProgram, OneAtATime
    <3>2. Ready
      BY <3>1, BusyErasing DEF WelcomeInv, NoEraseRuns
    <3>3. QED
      BY <1>2, <3>2 DEF TaskPoll, flash_is_ready
  <2>2. pc' # "erase"
    BY <1>2 DEF TaskPoll, At
  <2>3. QED
    BY <2>1, <2>2
<1>3. CASE Run /\ ~TaskPoll
  <2>1. \/ req' = req /\ pc \notin {"boot", "loop"}
        \/ req' = None /\ pc' # "erase"
    BY <1>3, WhatIsKnown DEF OneAtATime, Run, Task, FlashCmd, Parse, Identify, SampleId,
      Read, FlashReset, ReadWord, ChipErase, SectorErase, RefuseWhileErasing, StartErase,
      EraseStarted, GetStatus, Release, Program, ProgramWord, WaitReady, WaitTimeout,
      Undefined, AvrReset, SendResponse, PullReset, Restart, Dispatch, At, Known, Control,
      LastWord
  <2>2. CASE req' = None /\ pc' # "erase"
    BY <2>2 DEF IsProgram
  <2>3. CASE req' = req /\ pc \notin {"boot", "loop"}
    <3>1. req.cmd \in HostCommands
      BY <2>3, Handled
    <3>2. erase_in_progress' => erase_in_progress \/ EraseStarted
      BY <1>3 DEF Run, Task, FlashCmd, Parse, Identify, SampleId, Read, FlashReset,
        ReadWord, ChipErase, SectorErase, RefuseWhileErasing, StartErase, EraseStarted, GetStatus,
        Release, Program, ProgramWord, WaitReady, WaitTimeout, Undefined, AvrReset,
        SendResponse, PullReset, Restart
    <3>3. EraseStarted => req.cmd = "SECTOR_ERASE"
      BY DEF EraseStarted, At, WelcomeInv
    <3>4. pc' = "erase" => pc = "erase" \/ ChipErase \/ SectorErase
      BY <1>3 DEF Run, Task, FlashCmd, Parse, Identify, SampleId, Read, FlashReset,
        StartRead, ReadWord, Reject, EraseStarted, GetStatus, Release, Program,
        RefuseWhileErasing, ProgramWord, WaitReady, WaitTimeout, Undefined, AvrReset,
        SendResponse, PullReset, Restart
    <3>5. /\ ChipErase => req.cmd = "CHIP_ERASE"
          /\ SectorErase => req.cmd = "SECTOR_ERASE"
      BY DEF ChipErase, SectorErase, RefuseWhileErasing, Dispatch
    <3>6. QED
      BY <2>3, <3>1, <3>2, <3>3, <3>4, <3>5 DEF WelcomeInv, IsProgram, HostCommands
  <2>4. QED
    BY <2>1, <2>2, <2>3
<1>4. QED
  BY <1>1, <1>2, <1>3

\* Nothing is running and nothing asked for at power-up.
LEMMA InitWelcome == MeggyInit => WelcomeInv
  BY DEF MeggyInit, Init, ChipInit, NoOrder, WelcomeInv, NoEraseRuns, AnswersAccept,
    StatusStillTrue, IsProgram

LEMMA WelcomeStep ==
  ASSUME SystemInv, WelcomeInv, [MeggyNext]_allVars, ~Worn,
         CHUNK_WORDS <= MAX_WORDS_PER_CMD
  PROVE  WelcomeInv'
<1>1. [Next]_vars
  BY FirmwareStep DEF SystemInv
<1>2. order'.upset # "AVR_RESET" /\ NoEraseRuns' /\ AnswersAccept' /\ StatusStillTrue'
  BY <1>1, NoAvrReset, NoEraseRunsStep, AcceptStep, StatusStillTrueStep
<1>3. \A r \in {req', inbox'} : r # None => Fitting(r)
  BY FittingStep
<1>4. QED
  BY <1>2, <1>3, FlagStep DEF WelcomeInv, IsProgram, Fitting

\* No session ends because of a status: whatever earlier sessions left running and
\* whichever answers were lost, each call comes when the firmware takes it. No word may
\* need longer than the 5 ms the firmware waits (flash.c:363), and a chunk of the host is
\* no more than a PROGRAM takes (meggy_flash.py:74, protocol.h:37).
THEOREM NothingRefused ==
  ASSUME ~Worn, CHUNK_WORDS <= MAX_WORDS_PER_CMD
  PROVE  MeggySpec => []NeverRefused
<1>1. SystemInv /\ WelcomeInv => NeverRefused
  <2> SUFFICES ASSUME SystemInv, WelcomeInv, session # "none", reply # None
               PROVE  Passes \/ Repeats
    BY DEF NeverRefused
  <2>1. Accepted(request.cmd, reply.status) /\ request \in Requests
    BY WhatIsKnown, Requested DEF WelcomeInv, AnswersAccept, OneAtATime
  <2>2. ASSUME reply.status = "OK", request.cmd = "READ"
        PROVE  Len(reply.data) = request.len
    <3>1. reply.data = [j \in 1 .. request.len |-> mem[Cell(request.addr + j - 1)]]
      BY <2>2, WhatIsKnown DEF ReplyStillTrue
    <3>2. request.len \in Nat /\ reply.data \in Seq(Readings)
      BY <2>1, WhatIsKnown, RequestsAssumption DEF HostTypeOK, Answers
    <3>3. DOMAIN reply.data = 1 .. request.len
      BY <3>1
    <3>4. QED
      BY <3>2, <3>3, LenProperties
  <2>3. QED
    BY <2>1, <2>2 DEF Accepted, Passes, Repeats
<1>2. SystemInv /\ WelcomeInv /\ [MeggyNext]_allVars => SystemInv' /\ WelcomeInv'
  BY SystemStep, WelcomeStep
<1>3. MeggyInit => SystemInv /\ WelcomeInv
  BY InitHost, InitWelcome
<1>4. QED
  BY <1>1, <1>2, <1>3, PTL DEF MeggySpec

-----------------------------------------------------------------------------
(***************************************************************************)
(* A session that found the chip idle and came to its end has done its     *)
(* work, for every size of the chip, every sector map and every image: the *)
(* erases it waits for are its own, every sector of the slot is erased     *)
(* before the first word is programmed, and each chunk is in the flash     *)
(* before the next one is sent.  CleanInv, on top of SystemInv and         *)
(* WelcomeInv.                                                             *)
(***************************************************************************)

CleanSystem == SystemInv /\ WelcomeInv /\ CleanInv

-----------------------------------------------------------------------------
(* The slot, its sectors and its chunks.                                   *)

\* Word addresses and cells of the selected slot correspond one to one.
LEMMA SlotCells ==
  ASSUME a19 \in {0, 1}, NEW a \in 0 .. SlotWords - 1
  PROVE  /\ Cell(a) \in Cells /\ Cell(a) = a19 * SlotWords + a
         /\ \A b \in 0 .. SlotWords - 1 : Cell(a) = Cell(b) => a = b
<1>1. SlotWords \in Nat \ {0} /\ FLASH_SIZE_WORDS = 2 * SlotWords
  BY SlotAssumption DEF FLASH_SIZE_WORDS
<1>2. \A b \in 0 .. SlotWords - 1 : b % SlotWords = b
  BY <1>1
<1>3. \A b \in 0 .. SlotWords - 1 : Cell(b) = a19 * SlotWords + b
  BY <1>2 DEF Cell
<1>4. a19 * SlotWords \in {0, SlotWords}
  BY <1>1
<1>5. QED
  BY <1>1, <1>3, <1>4 DEF Cells

\* When the sectors of the map are erased, the slot is.
LEMMA AllErased ==
  ASSUME a19 \in {0, 1}, \A k \in DOMAIN SECTOR_MAP : Erased(SectorAt(k)),
         NEW a \in 0 .. SlotWords - 1
  PROVE  mem[Cell(a)] = Bits
<1>1. PICK n \in DOMAIN SECTOR_MAP :
        Sector[a19 * SlotWords + SECTOR_MAP[n]] = Sector[a19 * SlotWords + a]
  BY MapAssumption
<1>2. SECTOR_MAP[n] \in 0 .. SlotWords - 1
  BY MapSize
<1>3. /\ Cell(a) \in Cells /\ Cell(a) = a19 * SlotWords + a
      /\ Cell(SECTOR_MAP[n]) = a19 * SlotWords + SECTOR_MAP[n]
  BY <1>2, SlotCells
<1>4. Cell(a) \in SectorAt(n)
  BY <1>1, <1>3 DEF SectorAt, SectorCells
<1>5. QED
  BY <1>4 DEF Erased

\* Each word is in one chunk.
LEMMA InChunk ==
  ASSUME NEW a \in 0 .. SlotWords - 1
  PROVE  /\ ChunkOf(a) \in 1 .. NumChunks
         /\ \E j \in 1 .. CHUNK_WORDS : a = (ChunkOf(a) - 1) * CHUNK_WORDS + j - 1
<1>1. /\ SlotWords \in Nat \ {0} /\ CHUNK_WORDS \in Nat \ {0}
      /\ NumChunks \in Nat /\ NumChunks * CHUNK_WORDS = SlotWords
  BY ChunksFill
<1>2. PICK q \in Nat, m \in 0 .. CHUNK_WORDS - 1 :
        q = a \div CHUNK_WORDS /\ a = q * CHUNK_WORDS + m
  <2>1. /\ a \div CHUNK_WORDS \in Nat /\ a % CHUNK_WORDS \in 0 .. CHUNK_WORDS - 1
        /\ a = (a \div CHUNK_WORDS) * CHUNK_WORDS + (a % CHUNK_WORDS)
    BY <1>1
  <2>2. QED
    BY <2>1
<1>3. q < NumChunks
  <2>1. SUFFICES ASSUME q >= NumChunks PROVE FALSE
    BY <1>1, <1>2
  <2>2. q * CHUNK_WORDS >= NumChunks * CHUNK_WORDS
    BY <1>1, <1>2, <2>1
  <2>3. PICK p \in Nat : p = q * CHUNK_WORDS
    BY <1>1, <1>2
  <2>4. QED
    BY <1>1, <1>2, <2>2, <2>3
<1>4. ChunkOf(a) = q + 1 /\ ChunkOf(a) - 1 = q
  BY <1>2 DEF ChunkOf
<1>5. PICK j \in 1 .. CHUNK_WORDS : m = j - 1
  BY <1>1, <1>2
<1>6. PICK p \in Nat : p = q * CHUNK_WORDS
  BY <1>1, <1>2
<1>7. a = (ChunkOf(a) - 1) * CHUNK_WORDS + j - 1
  BY <1>2, <1>4, <1>5, <1>6
<1>8. QED
  BY <1>1, <1>2, <1>3, <1>4, <1>7

\* A PROGRAM carries the image's words for the cells it names, one for each.
LEMMA ProgramCarries ==
  ASSUME NEW n \in 1 .. NumChunks, NEW img, NEW r,
         r = ProgramChunk(img, (n - 1) * CHUNK_WORDS)
  PROVE  /\ r.len = CHUNK_WORDS /\ r.addr = (n - 1) * CHUNK_WORDS /\ r.addr \in Nat
         /\ \A j \in 1 .. CHUNK_WORDS :
              r.addr + j - 1 \in 0 .. SlotWords - 1 /\ r.data[j] = img[r.addr + j - 1]
<1>1. PICK a \in Nat : a = (n - 1) * CHUNK_WORDS /\ a + CHUNK_WORDS <= SlotWords
  BY ChunkInSlot
<1>2. /\ r.len = CHUNK_WORDS /\ r.addr = a
      /\ r.data = [j \in 1 .. CHUNK_WORDS |-> img[a + j - 1]]
  BY <1>1 DEF ProgramChunk, Ask
<1>3. CHUNK_WORDS \in Nat /\ SlotWords \in Nat
  BY ChunksFill
<1>4. ASSUME NEW j \in 1 .. CHUNK_WORDS
      PROVE  r.addr + j - 1 \in 0 .. SlotWords - 1 /\ r.data[j] = img[r.addr + j - 1]
  <2>1. r.data[j] = img[a + j - 1]
    BY <1>2
  <2>2. a + j - 1 \in 0 .. SlotWords - 1
    BY <1>1, <1>3
  <2>3. QED
    BY <1>2, <2>1, <2>2
<1>5. QED
  BY <1>1, <1>2, <1>4

\* So does the one a session is at.
LEMMA ProgramAsked ==
  ASSUME HostTypeOK, session # "none", ~Finished, request.cmd = "PROGRAM"
  PROVE  /\ Programming /\ session = "write" /\ step - EraseLen \in 1 .. NumChunks
         /\ request.len = CHUNK_WORDS /\ request.addr \in Nat
         /\ request.addr = (step - EraseLen - 1) * CHUNK_WORDS
         /\ \A j \in 1 .. CHUNK_WORDS :
              /\ request.addr + j - 1 \in 0 .. SlotWords - 1
              /\ request.data[j] = image[request.addr + j - 1]
<1>1. /\ Programming /\ step - EraseLen \in 1 .. NumChunks
      /\ request = ProgramChunk(image, (step - EraseLen - 1) * CHUNK_WORDS)
  BY AskedCommand
<1>2. PICK n \in 1 .. NumChunks : n = step - EraseLen
  BY <1>1
<1>3. step - EraseLen - 1 = n - 1
  BY <1>2
<1>4. request = ProgramChunk(image, (n - 1) * CHUNK_WORDS)
  BY <1>1, <1>3
<1>5. /\ request.len = CHUNK_WORDS /\ request.addr = (n - 1) * CHUNK_WORDS
      /\ request.addr \in Nat
      /\ \A j \in 1 .. CHUNK_WORDS :
           /\ request.addr + j - 1 \in 0 .. SlotWords - 1
           /\ request.data[j] = image[request.addr + j - 1]
  BY <1>4, ProgramCarries
<1>6. request.addr = (step - EraseLen - 1) * CHUNK_WORDS
  BY <1>3, <1>5
<1>7. session = "write"
  BY <1>1 DEF Programming
<1>8. QED
  BY <1>1, <1>5, <1>6, <1>7

-----------------------------------------------------------------------------
(* What a step of a clean session may do.                                  *)

\* Between two answers the session stays where it is.
LEMMA SamePlace ==
  ASSUME UNCHANGED <<session, image, step, a19>>
  PROVE  /\ Erasing' = Erasing /\ Programming' = Programming
         /\ Call' = Call /\ Here' = Here
         /\ script' = script /\ request' = request
  BY DEF Erasing, Programming, Call, Here, SectorAt, SectorCells, Cell, script, request

\* It begins, passes an answer, or stays there.
LEMMA CleanMoves ==
  ASSUME CleanSystem, [MeggyNext]_allVars, clean'
  PROVE  \/ StartSession
         \/ /\ clean /\ session # "none" /\ UNCHANGED <<session, image, a19>>
            /\ \/ HostReply /\ Passes /\ step' = step + 1 /\ reply' = None
               \/ /\ step' = step
                  /\ reply' \in {None, reply} \/ (Deliver /\ reply' = answer)
<1>1. clean => session # "none"
  BY DEF CleanSystem, CleanInv
<1>2. CASE HostReply \/ HostCall \/ Deliver \/ Abort
  BY <1>1, <1>2 DEF HostReply, HostCall, Deliver, SendResponse, Abort, EndSession, vars,
    envVars
<1>3. CASE Run \/ Chip
  <2>1. UNCHANGED <<a19, hostVars>>
    BY <1>3, TaskMoves, WhatIsKnown DEF CleanSystem
  <2>2. QED
    BY <1>1, <2>1 DEF hostVars
<1>4. CASE HostGivesUp \/ HostDone \/ Cable \/ Supply \/ Switch \/ UNCHANGED allVars
  BY <1>1, <1>4 DEF HostGivesUp, HostDone, Cable, Supply, Switch, EndSession, hostVars,
    allVars, vars, envVars
<1>5. QED
  BY <1>2, <1>3, <1>4 DEF MeggyNext, Host

\* While nothing else happens a busy chip stays at its job.
LEMMA BusyStays ==
  ASSUME [Next]_vars, ~Ready, ~Ready', ~Worn
  PROVE  UNCHANGED <<mode, job>>
BY ChipMoves DEF chipVars, HwReset, Finish, Succeed, Fail, FlashCmd, FlashInit, Write,
  Ready, Busy, Algorithms

\* A clean session's READ and FLASH_RESET find the chip idle.
LEMMA NothingTorn ==
  ASSUME CleanSystem, clean, ~Worn, HwReset, Dispatch("READ") \/ Dispatch("FLASH_RESET")
  PROVE  mem' = mem /\ mode # "erasing"
<1>1. /\ SystemInv /\ WelcomeInv /\ session # "none" /\ OwnErase
      /\ pc = "dispatch" /\ bus = <<>> /\ req.cmd \in {"READ", "FLASH_RESET"}
  BY DEF CleanSystem, CleanInv, Dispatch, At
<1>2. req = request /\ ~Finished
  BY <1>1, Handled
<1>3. mode # "erasing"
  BY <1>1, <1>2, AskedCommand, WhatIsKnown DEF OwnErase
<1>4. Ready
  BY <1>1, <1>3, BusyErasing
<1>5. job = NoJob
  BY <1>1, <1>4, DecoderIdle, WhatIsKnown
<1>6. TypeOK
  BY <1>1, WhatIsKnown
<1>7. mem' = mem
  BY <1>5, <1>6 DEF HwReset, NoJob, TypeOK, ChipTypeOK
<1>8. QED
  BY <1>3, <1>7

\* The flash changes by the erase of the session's sector or a word of its PROGRAM.
LEMMA MemMoves ==
  ASSUME CleanSystem, clean, [MeggyNext]_allVars, clean', ~Worn
  PROVE  \/ mem' = mem /\ (mode = "erasing" => mode' = "erasing")
         \/ mode = "erasing" /\ mem' = [c \in Cells |-> IF c \in Here THEN Bits ELSE mem[c]]
         \/ /\ mode = "programming" /\ pc = "wait" /\ req.cmd = "PROGRAM"
            /\ mem' = [c \in Cells |-> IF c = Cell(req.addr + i)
                                       THEN Overlay(mem[c], req.data[i + 1]) ELSE mem[c]]
<1>1. /\ SystemInv /\ WelcomeInv /\ session # "none" /\ OwnErase /\ [Next]_vars
  BY FirmwareStep DEF CleanSystem, CleanInv, SystemInv
<1>2. \/ UNCHANGED chipVars
      \/ FlashCmd \/ FlashInit \/ ChipDone \/ Read \/ FlashReset
  BY DEF MeggyNext, StartSession, Host, HostCall, HostGivesUp, HostReply, HostDone,
    Abort, Deliver, SendResponse, Run, Chip, Switch, MoveSwitch, Cable, UsbChange, Supply,
    EndSession, Task, TaskPoll, Parse, Identify, SampleId, ReadWord, ChipErase,
    SectorErase, RefuseWhileErasing, StartErase, EraseStarted, GetStatus, Release, Program,
    ProgramWord, WaitReady, WaitTimeout, Undefined, AvrReset, PullReset, allVars, vars
<1>3. CASE UNCHANGED chipVars
  BY <1>3 DEF chipVars
<1>4. CASE FlashCmd \/ FlashInit
  BY <1>4 DEF FlashCmd, FlashInit, Write, Ready, Busy, Algorithms
<1>5. CASE Read \/ FlashReset
  <2>1. \/ UNCHANGED <<mem, mode>>
        \/ HwReset /\ (Dispatch("READ") \/ Dispatch("FLASH_RESET"))
    BY <1>5 DEF Read, FlashReset, StartRead, flash_hw_reset, chipVars
  <2>2. QED
    BY <2>1, NothingTorn
<1>6. CASE ChipDone
  <2>1. /\ ~Ready /\ TypeOK
        /\ mem' = [c \in Cells |->
                     IF c \notin job.cells THEN mem[c]
                     ELSE IF mode = "erasing" THEN Bits ELSE Overlay(mem[c], job.word)]
    BY <1>1, <1>6, WhatIsKnown DEF ChipDone, Finish, Succeed, Fail, Ready, Busy, Algorithms
  <2>2. CASE mode = "erasing"
    BY <1>1, <2>1, <2>2 DEF OwnErase
  <2>3. CASE mode # "erasing"
    <3>1. mode = "programming" /\ pc = "wait" /\ ~Excused
      BY <1>1, <1>6, <2>1, <2>3, BusyErasing
      DEF ChipDone, Finish, Succeed, Fail, Algorithms, Excused, WelcomeInv
    <3>2. Carried /\ req.cmd = "PROGRAM"
      BY <1>1, <3>1, WhatIsKnown DEF SystemInv, DataInv, TypeInv, Locals
    <3>3. /\ job.cells = {Cell(req.addr + i)} /\ job.word = req.data[i + 1]
      BY <3>1, <3>2 DEF Carried, Target, Cycle
    <3>4. QED
      BY <2>1, <2>3, <3>1, <3>2, <3>3
  <2>4. QED
    BY <2>2, <2>3
<1>7. QED
  BY <1>2, <1>3, <1>4, <1>5, <1>6

\* Where nothing is programmed, no erased cell is programmed again.
LEMMA ErasedStays ==
  ASSUME CleanSystem, clean, [MeggyNext]_allVars, clean', ~Worn, ~Programming
  PROVE  \A c \in Cells : mem[c] = Bits => mem'[c] = Bits
<1>1. SystemInv /\ WelcomeInv /\ session # "none"
  BY DEF CleanSystem, CleanInv
<1>2. ~(pc = "wait" /\ req.cmd = "PROGRAM")
  <2>1. pc = "wait" => ~Finished /\ req = request
    BY <1>1, Handled
  <2>2. QED
    BY <1>1, <2>1, AskedCommand, WhatIsKnown
<1>3. QED
  BY <1>2, MemMoves

-----------------------------------------------------------------------------
(* CleanInv, between two answers.                                          *)

\* The hypotheses of a step that leaves the session at its call.
Waiting ==
  /\ CleanSystem /\ clean /\ [MeggyNext]_allVars /\ clean'
  /\ UNCHANGED <<session, image, step, a19>>
  /\ reply' \in {None, reply} \/ (Deliver /\ reply' = answer)
LEMMA WaitingKnows ==
  ASSUME Waiting
  PROVE  /\ SystemInv /\ WelcomeInv /\ session # "none" /\ OwnErase /\ SectorsErased
         /\ Written /\ ChunkWritten /\ [Next]_vars
         /\ HostTypeOK /\ TypeOK /\ OneAtATime /\ Known /\ Decoder /\ OnTheWay
  BY WhatIsKnown, FirmwareStep DEF Waiting, CleanSystem, CleanInv, SystemInv

\* An erase that begins is of the sector the session is at.
LEMMA OwnEraseWaits ==
  ASSUME Waiting, ~Worn
  PROVE  OwnErase'
<1> SUFFICES ASSUME mode' = "erasing"
             PROVE  Erasing' /\ Call' \in {0, 1} /\ job'.cells = Here'
  BY DEF OwnErase
<1>1. Erasing' = Erasing /\ Call' = Call /\ Here' = Here
  BY SamePlace DEF Waiting
<1>2. CASE mode = "erasing"
  <2>1. job' = job
    BY <1>2, BusyStays, WaitingKnows DEF Ready, Busy, Algorithms
  <2>2. QED
    BY <1>1, <1>2, <2>1, WaitingKnows DEF OwnErase
<1>3. CASE mode # "erasing"
  <2>1. pc = "erase" /\ req.cmd = "SECTOR_ERASE" /\ job'.cells = SectorCells(Cell(req.addr))
    BY <1>3, EraseBegins, WaitingKnows
  <2>2. ~Finished /\ req = request
    BY <2>1, Handled, WaitingKnows
  <2>3. Erasing /\ Call = 0 /\ req.addr = SECTOR_MAP[Sector1]
    BY <2>1, <2>2, AskedCommand, WaitingKnows
  <2>4. Here = SectorCells(Cell(req.addr))
    BY <2>3, MapSize DEF Here, SectorAt, Sector1
  <2>5. QED
    BY <1>1, <2>1, <2>3, <2>4
<1>4. QED
  BY <1>2, <1>3

\* A session that erases has calls to make, the first of them a SECTOR_ERASE.
LEMMA ErasingGoesOn ==
  ASSUME HostTypeOK, Erasing
  PROVE  /\ session # "none" /\ ~Finished /\ step \in Nat \ {0} /\ Call \in 0 .. 4
         /\ Call = 0 => request.cmd = "SECTOR_ERASE"
<1>1. /\ session \in {"erase", "write"} /\ image \in Images /\ step <= EraseLen
      /\ script = Script(session, image)
  BY DEF HostTypeOK, Erasing, EraseLen, script
<1>2. Len(script) = EraseLen \/ Len(script) = EraseLen + NumChunks + 2 + NumChunks
  BY <1>1, EraseScript
<1>3. EraseLen \in Nat /\ NumChunks \in Nat /\ step \in Nat
  BY <1>2, MapSize, ChunksFill DEF HostTypeOK
<1>4. ~Finished
  BY <1>1, <1>2, <1>3 DEF Finished
<1>5. /\ session # "none" /\ step \in Nat \ {0} /\ Call \in 0 .. 4
      /\ request = EraseSector(SECTOR_MAP[Sector1])[Call + 1]
  BY <1>1, <1>3, <1>4, Asked
<1>6. Call = 0 => request = Ask("SECTOR_ERASE", SECTOR_MAP[Sector1], 0, <<>>)
  BY <1>5, SectorCalls
<1>7. QED
  BY <1>4, <1>5, <1>6 DEF Ask

\* The first BUSY to SECTOR_ERASE comes when its erase runs, or ran.
LEMMA BegunErases ==
  ASSUME Waiting, ~Worn, Erasing, ~Begun, Begun'
  PROVE  mode' = "erasing"
<1>1. Call' = Call /\ request' = request
  BY SamePlace DEF Waiting
<1>2. /\ Call = 0 /\ reply = None /\ pc # "respond" /\ ~At("erase")
      /\ ~(pc \in {"parse", "dispatch"} /\ erase_in_progress)
  <2>1. Call \in 0 .. 4
    BY ErasingGoesOn, WaitingKnows
  <2>2. QED
    BY <2>1 DEF Begun
<1>3. reply' = None
  BY <1>2 DEF Waiting, Deliver, SendResponse, At
<1>4. \/ pc' = "respond" \/ (pc' = "erase" /\ bus' = <<>>)
      \/ pc' \in {"parse", "dispatch"} /\ erase_in_progress'
  BY <1>1, <1>2, <1>3 DEF Begun, At
<1>5. CASE ~Run
  BY <1>2, <1>4, <1>5, OthersWait DEF Waiting, fwVars, At, Deliver, SendResponse
<1>6. CASE Run /\ TaskPoll
  <2>1. pc = "loop" /\ ~Ready /\ mode' = mode
    BY <1>4, <1>6 DEF TaskPoll, At, flash_is_ready, chipVars
  <2>2. QED
    BY <2>1, BusyErasing, WaitingKnows
<1>7. CASE Run /\ FlashCmd
  <2>1. pc = "erase" /\ bus' = <<>>
    BY <1>2, <1>4, <1>7 DEF FlashCmd
  <2>2. ~Excused
    BY WaitingKnows DEF Excused, WelcomeInv
  <2>3. ~Ready'
    BY <1>7, <2>1, <2>2, LastWordWorks, WaitingKnows
  <2>4. SystemInv' /\ pc' = "erase"
    BY <1>7, <2>1, SystemStep, WaitingKnows DEF Waiting, FlashCmd
  <2>5. (SystemInv /\ pc # "wait" /\ ~Ready => mode = "erasing")'
    BY BusyErasing, PTL
  <2>6. QED
    BY <2>3, <2>4, <2>5
<1>8. CASE Run /\ ~TaskPoll /\ ~FlashCmd
  <2>1. pc \notin {"boot", "loop"} /\ Task
    BY <1>2, <1>8, WaitingKnows DEF OneAtATime, Run, Task, Parse, Identify, SampleId, Read,
      FlashReset, ReadWord, ChipErase, SectorErase, RefuseWhileErasing, StartErase,
      EraseStarted, GetStatus, Release, Program, ProgramWord, WaitReady, WaitTimeout, Undefined,
      AvrReset, SendResponse, PullReset, Dispatch, At
  <2>2. ~Finished /\ req = request /\ Fitting(req) /\ req.len \in Nat
    BY <2>1, Handled, WaitingKnows
  <2>3. req.cmd = "SECTOR_ERASE"
    BY <1>2, <2>2, ErasingGoesOn, WaitingKnows
  <2>4. CASE Parse
    BY <1>2, <1>4, <2>2, <2>4, LimitsAssumption DEF Parse, Fitting, TooLong, Short, At
  <2>5. CASE SectorErase
    BY <1>2, <1>4, <2>5 DEF SectorErase, RefuseWhileErasing, StartErase, EraseSequence,
      Dispatch, At
  <2>6. CASE SampleId \/ Release \/ ReadWord
    BY <2>3, <2>6, WhatIsKnown, WaitingKnows
    DEF SampleId, Release, ReadWord, At, AnswersTrue, TypeInv, Locals
  <2>7. CASE ProgramWord \/ WaitReady \/ WaitTimeout
    BY <2>3, <2>7, WaitingKnows DEF ProgramWord, WaitReady, WaitTimeout, At, Known, TypeInv,
      Locals
  <2>8. CASE EraseStarted \/ SendResponse \/ PullReset
    BY <1>2, <1>4, <2>8 DEF EraseStarted, SendResponse, PullReset, Restart, At
  <2>9. CASE \/ Identify \/ Read \/ FlashReset \/ ChipErase \/ GetStatus \/ Program
             \/ Undefined \/ AvrReset
    BY <2>3, <2>9 DEF Identify, Read, FlashReset, ChipErase, GetStatus, Program,
      Undefined, AvrReset, RefuseWhileErasing, Dispatch
  <2>10. QED
    BY <1>8, <2>1, <2>4, <2>5, <2>6, <2>7, <2>8, <2>9 DEF Task
<1>9. QED
  BY <1>5, <1>6, <1>7, <1>8

\* Sectors stay erased, and the one the session is at becomes so.
LEMMA SectorsErasedWait ==
  ASSUME Waiting, ~Worn
  PROVE  SectorsErased'
<1>1. /\ Erasing' = Erasing /\ Call' = Call /\ Here' = Here /\ session' = session
      /\ step' = step
  BY SamePlace DEF Waiting
<1>2. \A k : SectorAt(k)' = SectorAt(k) /\ SectorAt(k) \subseteq Cells
  BY DEF Waiting, SectorAt, SectorCells, Cell
<1>3. Here \subseteq Cells
  BY <1>2 DEF Here
<1>4. ASSUME Erasing \/ session = "erase"
      PROVE  \A c \in Cells : mem[c] = Bits => mem'[c] = Bits
  <2>1. ~Programming
    BY <1>4, ErasingGoesOn, WaitingKnows, MapSize DEF Programming, Erasing, EraseLen
  <2>2. QED
    BY <2>1, ErasedStays DEF Waiting
<1>5. ASSUME Erasing, Begun'
      PROVE  mode' = "erasing" \/ Erased(Here)'
  <2>1. CASE ~Begun
    BY <1>5, <2>1, BegunErases
  <2>2. CASE Begun /\ Erased(Here)
    <3>1. \A c \in Here : mem'[c] = Bits
      BY <1>3, <1>4, <1>5, <2>2 DEF Erased
    <3>2. QED
      BY <1>1, <3>1 DEF Erased
  <2>3. CASE mode = "erasing"
    <3>1. mode' = "erasing" \/ mem' = [c \in Cells |-> IF c \in Here THEN Bits ELSE mem[c]]
      BY <2>3, MemMoves DEF Waiting
    <3>2. QED
      BY <1>1, <1>3, <3>1 DEF Erased
  <2>4. QED
    BY <1>5, <2>1, <2>2, <2>3, WaitingKnows DEF SectorsErased
<1>6. ASSUME Erasing \/ session = "erase", NEW k \in DOMAIN SECTOR_MAP,
             Len(EraseSector(0)) * k < step
      PROVE  Erased(SectorAt(k))'
  <2>1. Erased(SectorAt(k))
    BY <1>6, WaitingKnows DEF SectorsErased
  <2>2. \A c \in SectorAt(k) : mem'[c] = Bits
    BY <1>2, <1>4, <1>6, <2>1 DEF Erased
  <2>3. QED
    BY <1>2, <2>2 DEF Erased
<1>7. (Len(EraseSector(0)))' = Len(EraseSector(0))
  BY DEF EraseSector, Ask, Reset
<1>8. QED
  BY <1>1, <1>5, <1>6, <1>7 DEF SectorsErased

\* The images are words, a word for each cell of the slot.
LEMMA ImageWords ==
  ASSUME HostTypeOK, NEW a \in 0 .. SlotWords - 1
  PROVE  /\ image[a] \in Words
         /\ mem[Cell(a)] # Unknown => mem[Cell(a)] \in Words
<1>1. image \in [0 .. SlotWords - 1 -> Words]
  BY HostAssumption DEF HostTypeOK
<1>2. Cell(a) \in Cells /\ mem \in [Cells -> Contents]
  BY SlotCells DEF HostTypeOK, TypeOK, ChipTypeOK
<1>3. QED
  BY <1>1, <1>2 DEF Contents

\* A word programmed takes no bit that the image has, and leaves those alone.
LEMMA WrittenWaits ==
  ASSUME Waiting, ~Worn
  PROVE  Written'
<1>1. /\ Programming' = Programming /\ step' = step /\ image' = image
      /\ \A a : Cell(a)' = Cell(a)
  BY SamePlace DEF Waiting, Cell
<1>2. ASSUME Programming, NEW a \in 0 .. SlotWords - 1
      PROVE  /\ mem'[Cell(a)] # Unknown /\ image[a] \subseteq mem'[Cell(a)]
             /\ EraseLen + ChunkOf(a) < step => mem'[Cell(a)] = image[a]
  <2>1. /\ mem[Cell(a)] # Unknown /\ image[a] \subseteq mem[Cell(a)]
        /\ EraseLen + ChunkOf(a) < step => mem[Cell(a)] = image[a]
    BY <1>2, WaitingKnows DEF Written, EraseLen
  <2>2. mode # "erasing"
    BY <1>2, WaitingKnows DEF WelcomeInv, NoEraseRuns
  <2>3. image[a] \in Words /\ mem[Cell(a)] \in Words /\ Cell(a) \in Cells
    BY <2>1, ImageWords, SlotCells, WaitingKnows DEF TypeOK
  <2>4. CASE mem' = mem
    BY <2>1, <2>4
  <2>5. CASE mem' # mem
    <3>1. /\ pc = "wait" /\ req.cmd = "PROGRAM"
          /\ mem' = [c \in Cells |-> IF c = Cell(req.addr + i)
                                     THEN Overlay(mem[c], req.data[i + 1]) ELSE mem[c]]
      BY <2>2, <2>5, MemMoves DEF Waiting
    <3>2. req = request /\ ~Finished /\ i \in Nat /\ i < req.len
      BY <3>1, Handled, WaitingKnows DEF Known, TypeInv, Locals, TypeOK
    <3>3. /\ request.len = CHUNK_WORDS /\ request.addr \in Nat
          /\ \A j \in 1 .. CHUNK_WORDS :
               /\ request.addr + j - 1 \in 0 .. SlotWords - 1
               /\ request.data[j] = image[request.addr + j - 1]
      BY <3>1, <3>2, ProgramAsked, WaitingKnows
    <3>4. CHUNK_WORDS \in Nat
      BY ChunksFill
    <3>5. PICK b \in 0 .. SlotWords - 1 : b = req.addr + i /\ req.data[i + 1] = image[b]
      <4>1. i + 1 \in 1 .. CHUNK_WORDS /\ request.addr + (i + 1) - 1 = request.addr + i
        BY <3>2, <3>3, <3>4
      <4>2. QED
        BY <3>2, <3>3, <4>1
    <3>6. Cell(a) = Cell(b) => a = b
      BY SlotCells, WaitingKnows DEF TypeOK
    <3>7. mem'[Cell(a)] = mem[Cell(a)] \/ mem'[Cell(a)] = mem[Cell(a)] \cap image[a]
      BY <2>1, <2>3, <3>1, <3>5, <3>6 DEF Overlay
    <3>8. mem'[Cell(a)] \in Words
      BY <2>3, <3>7 DEF Words
    <3>9. mem'[Cell(a)] # Unknown
      BY <3>8, MarkerAssumption
    <3>10. QED
      BY <2>1, <3>7, <3>9
  <2>6. QED
    BY <2>4, <2>5
<1>3. (Len(EraseCurrentSlot))' = EraseLen /\ \A a : ChunkOf(a)' = ChunkOf(a)
  BY DEF EraseCurrentSlot, EraseSector, Ask, Reset, EraseLen, ChunkOf
<1>4. QED
  BY <1>1, <1>2, <1>3 DEF Written

\* PROGRAM sets out to leave the words it carries.
LEMMA ProgramIntends ==
  ASSUME Waiting, Dispatch("PROGRAM"), order'.mem = [c \in Cells |-> Programmed(0, c)]
  PROVE  \A j \in 1 .. req.len : order'.mem[Cell(req.addr + j - 1)] = req.data[j]
<1>1. pc = "dispatch" /\ req.cmd = "PROGRAM"
  BY DEF Dispatch, At
<1>2. req = request /\ ~Finished
  BY <1>1, Handled, WaitingKnows
<1>3. /\ Programming /\ request.len = CHUNK_WORDS /\ request.addr \in Nat
      /\ CHUNK_WORDS \in Nat
      /\ \A j \in 1 .. CHUNK_WORDS :
           /\ request.addr + j - 1 \in 0 .. SlotWords - 1
           /\ request.data[j] = image[request.addr + j - 1]
  BY <1>1, <1>2, ProgramAsked, ChunksFill, WaitingKnows
<1>4. ASSUME NEW j \in 1 .. CHUNK_WORDS
      PROVE  order'.mem[Cell(req.addr + j - 1)] = req.data[j]
  <2>1. PICK a \in 0 .. SlotWords - 1 : a = req.addr + j - 1
    BY <1>2, <1>3
  <2>2. req.data[j] = image[a]
    BY <1>2, <1>3, <2>1
  <2>3. WordsFor(0, Cell(a)) = {image[a]}
    <3>1. ASSUME NEW k \in 1 .. CHUNK_WORDS, Cell(req.addr + k - 1) = Cell(a)
          PROVE  k = j
      <4>1. PICK b \in 0 .. SlotWords - 1 : b = req.addr + k - 1
        BY <1>2, <1>3
      <4>2. a = b
        BY <3>1, <4>1, SlotCells, WaitingKnows DEF TypeOK
      <4>3. QED
        BY <1>2, <1>3, <2>1, <4>1, <4>2
    <3>2. {k \in 0 + 1 .. req.len : Cell(req.addr + k - 1) = Cell(a)} = {j}
      BY <1>2, <1>3, <2>1, <3>1
    <3>3. QED
      BY <2>2, <3>2 DEF WordsFor
  <2>4. /\ mem[Cell(a)] # Unknown /\ image[a] \subseteq mem[Cell(a)]
        /\ Cell(a) \in Cells
    BY <1>3, SlotCells, WaitingKnows DEF Written, TypeOK
  <2>5. Programmed(0, Cell(a)) = image[a]
    BY <2>3, <2>4 DEF Programmed
  <2>6. QED
    BY <2>1, <2>2, <2>4, <2>5
<1>5. QED
  BY <1>2, <1>3, <1>4

\* From its dispatch on a PROGRAM's order holds its words.
LEMMA OrderHolds ==
  ASSUME Waiting, ~Worn, IsProgram(req'), pc' \notin {"parse", "dispatch"}
  PROVE  Holds(order.mem, req)'
<1>1. \A wa : Cell(wa)' = Cell(wa)
  BY DEF Waiting, Cell
<1>2. pc \notin {"boot", "loop"} /\ req' = req
  <2>1. pc \in {"boot", "loop"} => req = None
    BY WaitingKnows DEF OneAtATime
  <2>2. TaskPoll => pc' = "parse" \/ req' = req
    BY DEF TaskPoll
  <2>3. req' \in {None, req} \/ TaskPoll
    BY RequestsMove, WaitingKnows DEF Waiting
  <2>4. QED
    BY <2>1, <2>2, <2>3 DEF IsProgram
<1>3. /\ req.cmd = "PROGRAM" /\ Fitting(req) /\ ~erase_in_progress
      /\ req.len \in Nat /\ req.addr \in Nat
  BY <1>2, Handled, WaitingKnows DEF IsProgram, WelcomeInv
<1>4. CASE pc \in {"parse", "dispatch"}
  <2>1. Run /\ bus = <<>>
    <3>1. SystemInv'
      BY SystemStep, WaitingKnows DEF Waiting
    <3>2. pc' \notin {"boot", "loop"}
      BY <3>1 DEF SystemInv, HostInv, OneAtATime, IsProgram
    <3>3. QED
      BY <1>4, <3>2, OthersWait, WaitingKnows DEF Waiting, OnTheWay, fwVars, Deliver,
        SendResponse, At
  <2>2. ~Parse
    BY <1>3, LimitsAssumption DEF Parse, Fitting, TooLong, Short
  <2>3. Program /\ Dispatch("PROGRAM")
    BY <1>3, <1>4, <2>1, <2>2 DEF Run, Task, FlashCmd, TaskPoll, Identify, SampleId, Read,
      FlashReset, ReadWord, ChipErase, SectorErase, RefuseWhileErasing, EraseStarted,
      GetStatus, Release, Program, ProgramWord, WaitReady, WaitTimeout, Undefined, AvrReset,
      SendResponse, PullReset, Dispatch, At
  <2>4. ~OutOfRange
    <3>1. FLASH_SIZE_WORDS \in Nat
      BY SlotAssumption DEF FLASH_SIZE_WORDS
    <3>2. QED
      BY <1>3, <3>1 DEF Fitting, OutOfRange
  <2>5. order'.mem = [c \in Cells |-> Programmed(0, c)]
    BY <1>3, <2>3, <2>4 DEF Program, RefuseWhileErasing, Begin
  <2>6. \A j \in 1 .. req.len : order'.mem[Cell(req.addr + j - 1)] = req.data[j]
    BY <2>3, <2>5, ProgramIntends
  <2>7. QED
    BY <1>1, <1>2, <2>6 DEF Holds
<1>5. CASE pc \notin {"parse", "dispatch"}
  <2>1. Holds(order.mem, req)
    BY <1>2, <1>5, WaitingKnows, Handled DEF ChunkWritten, IsProgram
  <2>2. order'.mem = order.mem
    <3>1. \/ order' = order \/ PullReset \/ Supply
      BY <1>5 DEF Waiting, MeggyNext, StartSession, Host, HostCall, HostGivesUp, HostReply,
        HostDone, Abort, Deliver, SendResponse, Run, Chip, ChipDone, FlashInit, Switch,
        MoveSwitch, Cable, UsbChange, Task, FlashCmd, TaskPoll, Parse, Identify, SampleId,
        Read, FlashReset, ReadWord, ChipErase, SectorErase, RefuseWhileErasing,
        EraseStarted, GetStatus, Release, Program, ProgramWord, WaitReady, WaitTimeout, Undefined,
        AvrReset, Dispatch, At, allVars, vars
    <3>2. ~PullReset /\ ~Supply
      BY WaitingKnows DEF PullReset, At, OneAtATime, Supply, EndSession, Waiting
    <3>3. QED
      BY <3>1, <3>2
  <2>3. QED
    BY <1>1, <1>2, <2>1, <2>2 DEF Holds
<1>6. QED
  BY <1>4, <1>5

\* An OK to PROGRAM is about the words in the flash, and they stay there.
LEMMA ReplyHolds ==
  ASSUME Waiting, ~Worn, reply' # None, request'.cmd = "PROGRAM"
  PROVE  Holds(mem, request)'
<1>1. request' = request /\ \A wa : Cell(wa)' = Cell(wa)
  BY SamePlace DEF Waiting, Cell
<1>2. mem' = mem /\ Holds(mem, request)
  <2>1. CASE Deliver /\ reply' = answer
    <3>1. /\ pc = "respond" /\ bus = <<>> /\ mem' = mem
      BY <2>1 DEF Deliver, SendResponse, At, chipVars
    <3>2. /\ req = request /\ req # None
      BY <3>1, Handled, WaitingKnows
    <3>3. Accepted(req.cmd, answer.status) /\ req.cmd = "PROGRAM" /\ ~Excused
      BY <1>1, <3>1, <3>2, WaitingKnows DEF WelcomeInv, AnswersAccept, Excused
    <3>4. answer.status = "OK"
      BY <3>3 DEF Accepted
    <3>5. order.upset = "none" /\ Carried
      BY <3>1, <3>3, <3>4, WaitingKnows DEF SystemInv, DataInv, AnswersTrue, Answering
    <3>6. Ready
      BY <3>1, <3>2, <3>3, BusyErasing, WaitingKnows DEF WelcomeInv, NoEraseRuns, IsProgram
    <3>7. mem = order.mem
      BY <3>1, <3>5, <3>6 DEF Carried
    <3>8. Holds(order.mem, req)
      BY <3>1, <3>2, <3>3, WaitingKnows DEF ChunkWritten, IsProgram
    <3>9. QED
      BY <3>1, <3>2, <3>7, <3>8
  <2>2. CASE reply' = reply
    <3>1. reply # None /\ request.cmd = "PROGRAM"
      BY <1>1, <2>2
    <3>2. Holds(mem, request)
      BY <3>1, WaitingKnows DEF ChunkWritten
    <3>3. pc = "loop" /\ ~Finished /\ req = None
      BY <3>1, WaitingKnows DEF OneAtATime
    <3>4. Programming
      BY <3>1, <3>3, ProgramAsked, WaitingKnows
    <3>5. Ready
      BY <3>3, <3>4, BusyErasing, WaitingKnows DEF WelcomeInv, NoEraseRuns
    <3>6. mem' = mem
      BY <3>3, <3>5, StaysReady, WaitingKnows DEF SystemInv, HostInv, InFlight
    <3>7. QED
      BY <3>2, <3>6
  <2>3. QED
    BY <2>1, <2>2 DEF Waiting
<1>3. QED
  BY <1>1, <1>2 DEF Holds

LEMMA WaitingInv ==
  ASSUME Waiting, ~Worn
  PROVE  CleanInv'
<1>1. ChunkWritten'
  BY OrderHolds, ReplyHolds DEF ChunkWritten, IsProgram
<1>2. session' # "none"
  BY WaitingKnows DEF Waiting
<1>3. QED
  BY <1>1, <1>2, OwnEraseWaits, SectorsErasedWait, WrittenWaits DEF CleanInv

-----------------------------------------------------------------------------
(* CleanInv, where a session begins and where it goes on to its next call. *)

\* The chip is idle and nothing is done yet.
LEMMA StartClean ==
  ASSUME CleanSystem, StartSession, clean'
  PROVE  CleanInv'
<1>1. /\ session' # "none" /\ step' = 1 /\ reply' = None /\ pc' = "loop" /\ req' = None
      /\ mode' # "erasing"
  BY WhatIsKnown, HostAssumption DEF CleanSystem, StartSession, OneAtATime, vars, fwVars,
    chipVars, Ready, Busy, Algorithms
<1>2. /\ (Len(EraseSector(0)))' = 5 /\ (Len(EraseCurrentSlot))' = EraseLen
      /\ EraseLen = 5 * Sectors /\ Sectors \in Nat \ {0} /\ DOMAIN SECTOR_MAP = 1 .. Sectors
  BY MapSize DEF EraseCurrentSlot, EraseSector, Ask, Reset, EraseLen
<1>3. Call' = 0 /\ ~Begun'
  <2>1. Call' = (1 - 1) % 5
    BY <1>1, <1>2 DEF Call
  <2>2. (1 - 1) % 5 = 0
    OBVIOUS
  <2>3. Call' = 0
    BY <2>1, <2>2
  <2>4. QED
    BY <1>1, <2>3 DEF Begun, At
<1>4. ~Programming'
  BY <1>1, <1>2 DEF Programming
<1>5. SectorsErased'
  BY <1>1, <1>2, <1>3 DEF SectorsErased
<1>6. QED
  BY <1>1, <1>4, <1>5 DEF CleanInv, OwnErase, Written, ChunkWritten, IsProgram

\* The hypotheses of an answer that passes.
Passing ==
  /\ CleanSystem /\ clean /\ UNCHANGED <<vars, session, image>>
  /\ session # "none" /\ reply # None /\ Passes /\ step' = step + 1 /\ reply' = None
LEMMA PassingKnows ==
  ASSUME Passing
  PROVE  /\ SystemInv /\ WelcomeInv /\ OwnErase /\ SectorsErased /\ Written /\ ChunkWritten
         /\ HostTypeOK /\ TypeOK /\ ~Finished /\ pc = "loop" /\ req = None
         /\ session # "none" /\ step \in Nat \ {0} /\ EraseLen = 5 * Sectors
         /\ Sectors \in Nat \ {0} /\ DOMAIN SECTOR_MAP = 1 .. Sectors
         /\ Len(EraseSector(0)) = 5
         /\ (Len(EraseSector(0)))' = 5 /\ (Len(EraseCurrentSlot))' = EraseLen
<1>1. SystemInv /\ session # "none" /\ ~Finished /\ pc = "loop" /\ req = None
  BY WhatIsKnown DEF Passing, CleanSystem, OneAtATime
<1>2. step \in Nat \ {0} /\ EraseLen = 5 * Sectors
  <2>1. HostTypeOK
    BY <1>1, WhatIsKnown
  <2>2. QED
    BY <1>1, <2>1, Asked, MapSize
<1>3. (Len(EraseSector(0)))' = 5 /\ (Len(EraseCurrentSlot))' = EraseLen
  BY MapSize DEF EraseCurrentSlot, EraseSector, Ask, Reset, EraseLen
<1>4. QED
  BY <1>1, <1>2, <1>3, MapSize, WhatIsKnown DEF Passing, CleanSystem, CleanInv

\* The next call is for the same sector, or the sector is erased.
LEMMA NextCall ==
  ASSUME Passing, Erasing
  PROVE  /\ Call < 4 => Erasing' /\ Call' = Call + 1 /\ Here' = Here
         /\ Call = 4 => /\ Call' = 0 /\ step = 5 * Sector1 /\ Sector1 \in 1 .. Sectors
                        /\ Here = SectorAt(Sector1) /\ Erased(Here) /\ mode # "erasing"
         /\ mode = "erasing" => Call = 0
<1>1. /\ step \in 1 .. EraseLen /\ Call \in 0 .. 4 /\ Sector1 \in 1 .. Sectors
      /\ step = 5 * (Sector1 - 1) + Call + 1
  BY Asked, PassingKnows
<1>2. Call' = step % 5 /\ Sector1' = (step \div 5) + 1
  <2>1. step' = step + 1 /\ (step + 1) - 1 = step
    BY <1>1 DEF Passing
  <2>2. Call' = (step' - 1) % 5 /\ Sector1' = ((step' - 1) \div 5) + 1
    BY PassingKnows DEF Call, Sector1
  <2>3. QED
    BY <2>1, <2>2
<1>3. ASSUME Call < 4
      PROVE  Erasing' /\ Call' = Call + 1 /\ Here' = Here
  <2>1. step + 1 <= EraseLen /\ step % 5 = Call + 1 /\ step \div 5 = Sector1 - 1
    BY <1>1, <1>3, PassingKnows
  <2>2. Sector1' = Sector1
    BY <1>1, <1>2, <2>1
  <2>3. Erasing'
    BY <2>1, PassingKnows DEF Passing, Erasing
  <2>4. Here' = Here
    <3>1. Here = {c \in Cells :
                    Sector[c] = Sector[a19 * SlotWords + (SECTOR_MAP[Sector1] % SlotWords)]}
      BY PassingKnows DEF Here, SectorAt, SectorCells, Cell, Sector1
    <3>2. Here' = {c \in Cells :
                     Sector[c] = Sector[a19' * SlotWords + (SECTOR_MAP[Sector1'] % SlotWords)]}
      BY PassingKnows DEF Here, SectorAt, SectorCells, Cell, Sector1
    <3>3. a19' = a19
      BY DEF Passing, vars, envVars
    <3>4. QED
      BY <2>2, <3>1, <3>2, <3>3
  <2>5. QED
    BY <1>2, <2>1, <2>3, <2>4
<1>4. ASSUME mode = "erasing"
      PROVE  Call = 0
  <2>1. Call \in {0, 1}
    BY <1>4, PassingKnows DEF OwnErase
  <2>2. Call = 1 => request.cmd = "GET_STATUS"
    BY AskedCommand, PassingKnows
  <2>3. Call = 1 => reply.status = "OK"
    BY <2>2 DEF Passing, Passes
  <2>4. QED
    BY <1>4, <2>1, <2>2, <2>3, PassingKnows DEF Passing, WelcomeInv, StatusStillTrue
<1>5. ASSUME Call = 4
      PROVE  /\ Call' = 0 /\ step = 5 * Sector1
             /\ Here = SectorAt(Sector1) /\ Erased(Here) /\ mode # "erasing"
  <2>1. step = 5 * Sector1 /\ step % 5 = 0
    BY <1>1, <1>5, PassingKnows
  <2>2. mode # "erasing"
    BY <1>4, <1>5
  <2>3. Begun
    BY DEF Passing, Begun
  <2>4. Erased(Here)
    BY <2>2, <2>3, PassingKnows DEF SectorsErased
  <2>5. Here = SectorAt(Sector1)
    BY PassingKnows DEF Here, Sector1
  <2>6. QED
    BY <1>2, <2>1, <2>2, <2>4, <2>5
<1>6. QED
  BY <1>1, <1>3, <1>4, <1>5

\* A session asks for the next sector when its erase of the last one is over.
LEMMA PassErases ==
  ASSUME Passing
  PROVE  OwnErase' /\ SectorsErased'
<1>1. UNCHANGED <<mode, mem, job, pc, bus, a19>> /\ reply' = None /\ pc = "loop"
  BY PassingKnows DEF Passing, vars, chipVars, fwVars, envVars
<1>2. OwnErase'
  <2>1. ASSUME mode = "erasing"
        PROVE  Erasing' /\ Call' \in {0, 1} /\ job' = job /\ job.cells = Here'
    <3>1. Erasing /\ job.cells = Here
      BY <2>1, PassingKnows DEF OwnErase
    <3>2. Call = 0
      BY <2>1, <3>1, NextCall
    <3>3. QED
      BY <1>1, <3>1, <3>2, NextCall
  <2>2. QED
    BY <1>1, <2>1 DEF OwnErase
<1>3. ASSUME Erasing', Begun'
      PROVE  mode' = "erasing" \/ Erased(Here)'
  <2>1. Erasing
    BY <1>3, PassingKnows DEF Passing, Erasing, EraseLen
  <2>2. Call' > 0
    BY <1>1, <1>3 DEF Begun, At
  <2>3. Call < 4 /\ Here' = Here
    <3>1. Call \in 0 .. 4
      BY <2>1, Asked, PassingKnows
    <3>2. QED
      BY <2>1, <2>2, <3>1, NextCall
  <2>4. mode = "erasing" \/ Erased(Here)
    BY <2>1, PassingKnows DEF Passing, SectorsErased, Begun
  <2>5. QED
    BY <1>1, <2>3, <2>4 DEF Erased
<1>4. ASSUME Erasing' \/ session' = "erase", NEW k \in 1 .. Sectors, 5 * k < step'
      PROVE  Erased(SectorAt(k))'
  <2>1. Erased(SectorAt(k))
    <3>1. Erasing
      <4>1. session = "erase" => script = Script(session, image) /\ image \in Images
        BY PassingKnows DEF script, HostTypeOK
      <4>2. session = "erase" => Len(script) = EraseLen
        BY <4>1, EraseScript
      <4>3. QED
        BY <1>4, <4>2, PassingKnows DEF Passing, Erasing, EraseLen, Finished
    <3>2. CASE 5 * k < step
      BY <3>1, <3>2, PassingKnows DEF SectorsErased
    <3>3. CASE 5 * k = step
      <4>1. /\ Call \in 0 .. 4 /\ Sector1 \in 1 .. Sectors
            /\ step = 5 * (Sector1 - 1) + Call + 1
        BY <3>1, Asked, PassingKnows
      <4>2. Call = 4 /\ Sector1 = k
        BY <3>3, <4>1, PassingKnows
      <4>3. QED
        BY <3>1, <4>2, NextCall
    <3>4. QED
      BY <1>4, <3>2, <3>3, PassingKnows DEF Passing
  <2>2. SectorAt(k)' = SectorAt(k)
    BY <1>1 DEF SectorAt, SectorCells, Cell
  <2>3. QED
    BY <1>1, <2>1, <2>2 DEF Erased
<1>5. SectorsErased'
  BY <1>3, <1>4, PassingKnows DEF SectorsErased
<1>6. QED
  BY <1>2, <1>5

\* The first PROGRAM comes when the slot is erased, the next when the chunk is written.
LEMMA PassWrites ==
  ASSUME Passing
  PROVE  Written'
<1>1. UNCHANGED <<mem, a19, image, session>> /\ step' = step + 1
  BY DEF Passing, vars, chipVars, envVars
<1>2. (\A a : Cell(a)' = Cell(a)) /\ (\A a : ChunkOf(a)' = ChunkOf(a))
  BY <1>1 DEF Cell, ChunkOf
<1>3. ASSUME Programming', NEW a \in 0 .. SlotWords - 1
      PROVE  /\ mem[Cell(a)] # Unknown /\ image[a] \subseteq mem[Cell(a)]
             /\ EraseLen + ChunkOf(a) < step + 1 => mem[Cell(a)] = image[a]
  <2>1. session = "write" /\ EraseLen < step + 1
    BY <1>1, <1>3, PassingKnows DEF Programming
  <2>2. ChunkOf(a) \in 1 .. NumChunks /\ NumChunks \in Nat
    BY InChunk, ChunksFill
  <2>3. CASE Programming
    <3>1. /\ mem[Cell(a)] # Unknown /\ image[a] \subseteq mem[Cell(a)]
          /\ EraseLen + ChunkOf(a) < step => mem[Cell(a)] = image[a]
      BY <2>3, PassingKnows DEF Written, EraseLen
    <3>2. ASSUME EraseLen + ChunkOf(a) = step
          PROVE  mem[Cell(a)] = image[a]
      <4>1. step <= EraseLen + NumChunks /\ step - EraseLen - 1 = ChunkOf(a) - 1
        BY <2>2, <3>2, PassingKnows
      <4>2. request.cmd = "PROGRAM"
        BY <2>3, <4>1, AskedCommand, PassingKnows
      <4>3. /\ request.len = CHUNK_WORDS
            /\ request.addr = (ChunkOf(a) - 1) * CHUNK_WORDS
            /\ \A j \in 1 .. CHUNK_WORDS : request.data[j] = image[request.addr + j - 1]
        BY <4>1, <4>2, ProgramAsked, PassingKnows
      <4>4. PICK j \in 1 .. CHUNK_WORDS : a = (ChunkOf(a) - 1) * CHUNK_WORDS + j - 1
        BY InChunk
      <4>5. Holds(mem, request)
        BY <4>2, PassingKnows DEF Passing, ChunkWritten
      <4>6. a = request.addr + j - 1
        BY <4>3, <4>4
      <4>7. mem[Cell(request.addr + j - 1)] = image[request.addr + j - 1]
        BY <4>3, <4>5 DEF Holds
      <4>8. QED
        BY <4>6, <4>7
    <3>3. PICK m \in Nat : m = EraseLen + ChunkOf(a)
      BY <2>2, MapSize
    <3>4. m < step + 1 => m < step \/ m = step
      BY PassingKnows
    <3>5. QED
      BY <3>1, <3>2, <3>3, <3>4
  <2>4. CASE ~Programming
    <3>1. step = EraseLen /\ Erasing
      BY <2>1, <2>4, PassingKnows DEF Programming, Erasing, EraseLen
    <3>2. /\ Call \in 0 .. 4 /\ Sector1 \in 1 .. Sectors
          /\ step = 5 * (Sector1 - 1) + Call + 1
      BY <3>1, Asked, PassingKnows
    <3>3. Call = 4 /\ Sector1 = Sectors
      BY <3>1, <3>2, PassingKnows
    <3>4. Erased(SectorAt(Sectors))
      BY <3>1, <3>3, NextCall
    <3>5. ASSUME NEW k \in DOMAIN SECTOR_MAP PROVE Erased(SectorAt(k))
      <4>1. k = Sectors \/ 5 * k < step
        BY <3>1, PassingKnows
      <4>2. QED
        BY <3>1, <3>4, <4>1, PassingKnows DEF SectorsErased
    <3>6. mem[Cell(a)] = Bits
      BY <3>5, AllErased, PassingKnows DEF TypeOK
    <3>7. Bits # Unknown /\ image[a] \subseteq Bits
      BY MarkerAssumption, ImageWords, PassingKnows DEF Words
    <3>8. QED
      BY <2>2, <3>1, <3>6, <3>7, PassingKnows
  <2>5. QED
    BY <2>3, <2>4
<1>4. QED
  BY <1>1, <1>2, <1>3, PassingKnows DEF Written

LEMMA PassingInv ==
  ASSUME Passing
  PROVE  CleanInv'
<1>1. session' # "none" /\ reply' = None /\ req' = None
  BY PassingKnows DEF Passing, vars, fwVars
<1>2. ChunkWritten'
  BY <1>1 DEF ChunkWritten, IsProgram
<1>3. QED
  BY <1>1, <1>2, PassErases, PassWrites DEF CleanInv

-----------------------------------------------------------------------------
(* What has come about when a session is finished.                         *)

LEMMA CleanStep ==
  ASSUME CleanSystem, [MeggyNext]_allVars, ~Worn
  PROVE  CleanInv'
<1> SUFFICES ASSUME clean'
             PROVE  CleanInv'
  BY DEF CleanInv
<1>1. CASE StartSession
  BY <1>1, StartClean
<1>2. CASE ~StartSession /\ HostReply /\ Passes /\ step' = step + 1 /\ reply' = None
  <2>1. clean /\ session # "none" /\ UNCHANGED <<session, image>>
    BY <1>2, CleanMoves
  <2>2. Passing
    BY <1>2, <2>1 DEF HostReply, Passing
  <2>3. QED
    BY <2>2, PassingInv
<1>3. CASE ~StartSession /\ ~(HostReply /\ Passes /\ step' = step + 1 /\ reply' = None)
  <2>1. Waiting
    BY <1>3, CleanMoves DEF Waiting
  <2>2. QED
    BY <2>1, WaitingInv
<1>4. QED
  BY <1>1, <1>2, <1>3

LEMMA Done ==
  ASSUME CleanSystem, clean, Finished
  PROVE  /\ session = "erase" => \A a \in 0 .. SlotWords - 1 : mem[Cell(a)] = Bits
         /\ session = "write" => VerifyOk
<1>1. /\ SystemInv /\ HostTypeOK /\ a19 \in {0, 1} /\ ReadSoFar /\ SectorsErased /\ Written
      /\ session # "none" /\ Len(script) \in Nat /\ step = Len(script) + 1
      /\ script = Script(session, image) /\ image \in Images
  <2>1. SystemInv /\ HostTypeOK /\ TypeOK /\ ReadSoFar /\ SectorsErased /\ Written
    BY WhatIsKnown DEF CleanSystem, CleanInv
  <2>2. session # "none" /\ Len(script) \in Nat /\ step \in 1 .. Len(script) + 1
    BY <2>1, Requested DEF Finished, HostTypeOK
  <2>3. QED
    BY <2>1, <2>2 DEF Finished, HostTypeOK, TypeOK, script
<1>2. /\ EraseLen = 5 * Sectors /\ Sectors \in Nat /\ DOMAIN SECTOR_MAP = 1 .. Sectors
      /\ Len(EraseSector(0)) = 5 /\ EraseLen \in Nat /\ NumChunks \in Nat
      /\ CHUNK_WORDS \in Nat /\ SlotWords \in Nat /\ NumChunks * CHUNK_WORDS = SlotWords
  BY MapSize, ChunksFill
<1>3. ASSUME session = "erase", NEW a \in 0 .. SlotWords - 1
      PROVE  mem[Cell(a)] = Bits
  <2>1. step = EraseLen + 1
    BY <1>1, <1>3, EraseScript
  <2>2. ASSUME NEW k \in DOMAIN SECTOR_MAP PROVE Erased(SectorAt(k))
    <3>1. 5 * k < step
      BY <1>2, <2>1
    <3>2. QED
      BY <1>1, <1>2, <1>3, <3>1 DEF SectorsErased
  <2>3. QED
    BY <1>1, <2>2, AllErased
<1>4. ASSUME session = "write"
      PROVE  VerifyOk
  <2>1. Len(script) = EraseLen + NumChunks + 2 + NumChunks
    BY <1>1, <1>4, EraseScript
  <2>2. Len(script) = ResetCall + NumChunks /\ ResetCall \in 1 .. Len(script)
    BY <1>1, <1>4, Requested
  <2>3. step - ResetCall - 1 = NumChunks /\ step > ResetCall
    BY <1>1, <1>2, <2>1, <2>2
  <2>4. data = [j \in 1 .. SlotWords |-> mem[Cell(j - 1)]]
    <3>1. data = [j \in 1 .. (step - ResetCall - 1) * CHUNK_WORDS |-> mem[Cell(j - 1)]]
      BY <1>1, <1>4, <2>3 DEF ReadSoFar
    <3>2. (step - ResetCall - 1) * CHUNK_WORDS = SlotWords
      BY <1>2, <2>3
    <3>3. QED
      BY <3>1, <3>2
  <2>5. ASSUME NEW a \in 0 .. SlotWords - 1
        PROVE  data[a + 1] = image[a]
    <3>1. a + 1 \in 1 .. SlotWords /\ (a + 1) - 1 = a
      BY <1>2
    <3>2. data[a + 1] = mem[Cell(a)]
      BY <2>4, <3>1
    <3>3. Programming /\ EraseLen + ChunkOf(a) < step
      BY <1>1, <1>2, <1>4, <2>1, InChunk DEF Programming, EraseLen
    <3>4. QED
      BY <1>1, <3>2, <3>3 DEF Written, EraseLen
  <2>6. QED
    BY <2>5 DEF VerifyOk
<1>5. QED
  BY <1>3, <1>4

\* What holds a session together is kept by every step of the host, the firmware, the
\* chip and the user.
LEMMA CleanStays ==
  ASSUME ~Worn, CHUNK_WORDS <= MAX_WORDS_PER_CMD
  PROVE  MeggySpec => []CleanSystem
<1>1. CleanSystem /\ [MeggyNext]_allVars => CleanSystem'
  BY SystemStep, WelcomeStep, CleanStep DEF CleanSystem
<1>2. MeggyInit => CleanSystem
  <2>1. MeggyInit => CleanInv
    BY DEF MeggyInit, CleanInv
  <2>2. QED
    BY <2>1, InitHost, InitWelcome DEF CleanSystem
<1>3. QED
  BY <1>1, <1>2, PTL DEF MeggySpec

\* No step of a session meets an erase where it programs, and every call gets an answer
\* it can go on with; and while a session runs that found the chip idle, the sectors it has
\* left behind are erased, the chunks it has left behind are written, and no cell has lost
\* a bit that the image needs, at every step of every command (meggy_flash.py:354,
\* protocol.c:226). The hypotheses are those of NothingRefused.
THEOREM SessionsKeepTheirWork ==
  ASSUME ~Worn, CHUNK_WORDS <= MAX_WORDS_PER_CMD
  PROVE  MeggySpec => []SessionInv
<1>1. CleanSystem => SessionInv
  BY DEF CleanSystem, SessionInv
<1>2. QED
  BY <1>1, CleanStays, PTL

\* A session that found the chip idle and came to its end has done its work: every cell
\* of the slot is erased, or the image is in it word for word, through lost answers and
\* repeated erases and programs (meggy_flash.py:271, 354). The hypotheses are those of
\* NothingRefused.
THEOREM CleanSucceeds ==
  ASSUME ~Worn, CHUNK_WORDS <= MAX_WORDS_PER_CMD
  PROVE  MeggySpec => []CleanSessionSucceeds
<1>1. CleanSystem => CleanSessionSucceeds
  BY Done DEF CleanSessionSucceeds, EraseReportsTruth
<1>2. QED
  BY <1>1, CleanStays, PTL
=============================================================================

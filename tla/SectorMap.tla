----------------------------- MODULE SectorMap -----------------------------
(***************************************************************************)
(* The sector maps of meggy_flash.py at their real size, in word           *)
(* addresses, against the M29F160FT's sectors (external).                  *)
(* erase_current_slot() sends SECTOR_MAP_SLOT1's addresses whichever slot  *)
(* J2 selects.  No state: what is to be known about the maps is proved.    *)
(***************************************************************************)
EXTENDS Integers, TLAPS

SLOT_WORDS == 524288
UNIFORM == 32768                    \* words of a 64 KB sector

Entry(start, size) == [start |-> start, size |-> size]
SECTOR_MAP_SLOT1 ==
  [n \in 0 .. 18 |->
     IF n < 15 THEN Entry(n * UNIFORM, UNIFORM)
     ELSE IF n = 15 THEN Entry(491520, 16384)
     ELSE IF n = 16 THEN Entry(507904, 4096)
     ELSE IF n = 17 THEN Entry(512000, 4096)
     ELSE Entry(516096, 8192)]

\* The chip's sectors: uniform but for the last 64 KB of slot 1.
SectorOf(slot, a) ==
  IF slot = 0 \/ a < 491520 THEN a \div UNIFORM
  ELSE IF a < 507904 THEN 15
  ELSE IF a < 512000 THEN 16
  ELSE IF a < 516096 THEN 17
  ELSE 18

Within(e, a) == e.start <= a /\ a < e.start + e.size

\* An entry holds the addresses that lie in its sector of slot 1.
LEMMA WithinItsSector ==
  ASSUME NEW n \in 0 .. 18, NEW a \in Nat, a < SLOT_WORDS
  PROVE  Within(SECTOR_MAP_SLOT1[n], a) <=> SectorOf(1, a) = n
<1> DEFINE q == a \div UNIFORM
<1>1. q \in Nat /\ q * UNIFORM <= a /\ a < q * UNIFORM + UNIFORM
  BY SMT DEF UNIFORM
<1>2. CASE n < 15
  <2>1. SECTOR_MAP_SLOT1[n] = Entry(n * UNIFORM, UNIFORM)
    BY <1>2 DEF SECTOR_MAP_SLOT1
  <2>2. Within(SECTOR_MAP_SLOT1[n], a) <=> n * UNIFORM <= a /\ a < n * UNIFORM + UNIFORM
    BY <2>1 DEF Within, Entry
  <2>3. n * UNIFORM <= a /\ a < n * UNIFORM + UNIFORM <=> q = n
    <3> HIDE DEF q
    <3> QED
      BY SMT, <1>1 DEF UNIFORM
  <2>4. SectorOf(1, a) = n <=> q = n
    BY SMT, <1>2, <2>3 DEF SectorOf, UNIFORM
  <2>5. QED
    BY <2>2, <2>3, <2>4
<1>3. CASE n \in 15 .. 18
  <2>1. a < 491520 => q < 15
    <3> HIDE DEF q
    <3> QED
      BY SMT, <1>1 DEF UNIFORM
  <2>2. n \in {15, 16, 17, 18}
    BY <1>3
  <2>3. SectorOf(1, a) = n <=>
          \/ n = 15 /\ 491520 <= a /\ a < 507904
          \/ n = 16 /\ 507904 <= a /\ a < 512000
          \/ n = 17 /\ 512000 <= a /\ a < 516096
          \/ n = 18 /\ 516096 <= a
    BY SMT, <2>1, <2>2 DEF SectorOf
  <2>4. /\ SECTOR_MAP_SLOT1[15] = Entry(491520, 16384)
        /\ SECTOR_MAP_SLOT1[16] = Entry(507904, 4096)
        /\ SECTOR_MAP_SLOT1[17] = Entry(512000, 4096)
        /\ SECTOR_MAP_SLOT1[18] = Entry(516096, 8192)
    BY SMT DEF SECTOR_MAP_SLOT1
  <2>5. QED
    BY SMT, <2>2, <2>3, <2>4 DEF Within, Entry, SLOT_WORDS
<1>4. QED
  BY SMT, <1>2, <1>3

\* Every word of a slot has a sector; slot 0 has 16 of them, slot 1 has 19.
LEMMA SectorExists ==
  ASSUME NEW slot \in {0, 1}, NEW a \in Nat, a < SLOT_WORDS
  PROVE  /\ SectorOf(slot, a) \in 0 .. 18
         /\ slot = 0 => SectorOf(slot, a) <= 15
<1>1. a \div UNIFORM \in 0 .. 15
  BY SMT DEF SLOT_WORDS, UNIFORM
<1>2. QED
  BY SMT, <1>1 DEF SectorOf

\* The map names each address of the slot once (meggy_flash.py:89-96).
THEOREM MapTilesSlot ==
  \A a \in Nat : a < SLOT_WORDS =>
    \E n \in 0 .. 18 : /\ Within(SECTOR_MAP_SLOT1[n], a)
                       /\ \A m \in 0 .. 18 : Within(SECTOR_MAP_SLOT1[m], a) => m = n
<1>1. SUFFICES ASSUME NEW a \in Nat, a < SLOT_WORDS
               PROVE  \E n \in 0 .. 18 :
                        /\ Within(SECTOR_MAP_SLOT1[n], a)
                        /\ \A m \in 0 .. 18 : Within(SECTOR_MAP_SLOT1[m], a) => m = n
  OBVIOUS
<1>2. SectorOf(1, a) \in 0 .. 18
  BY <1>1, SectorExists
<1>3. \A m \in 0 .. 18 : Within(SECTOR_MAP_SLOT1[m], a) <=> SectorOf(1, a) = m
  BY <1>1, WithinItsSector
<1>4. QED
  BY <1>2, <1>3

\* An erase of the slot reaches every sector of it: one of the addresses sent lies in
\* the sector of each word, in slot 0 with its uniform sectors as well as in slot 1
\* (meggy_flash.py:470-480).
THEOREM EverySectorReached ==
  \A slot \in {0, 1}, a \in Nat : a < SLOT_WORDS =>
    \E n \in 0 .. 18 : SectorOf(slot, SECTOR_MAP_SLOT1[n].start) = SectorOf(slot, a)
<1>1. SUFFICES ASSUME NEW slot \in {0, 1}, NEW a \in Nat, a < SLOT_WORDS,
                      NEW n, n = SectorOf(slot, a)
               PROVE  n \in 0 .. 18 /\ SectorOf(slot, SECTOR_MAP_SLOT1[n].start) = n
  OBVIOUS
<1>2. n \in 0 .. 18 /\ (slot = 0 => n <= 15)
  BY <1>1, SectorExists
<1>3. CASE n < 15
  <2>1. SECTOR_MAP_SLOT1[n].start = n * UNIFORM
    BY <1>2, <1>3 DEF SECTOR_MAP_SLOT1, Entry
  <2>2. (n * UNIFORM) \div UNIFORM = n /\ n * UNIFORM < 491520
    BY SMT, <1>2, <1>3 DEF UNIFORM
  <2>3. QED
    BY SMT, <1>2, <2>1, <2>2 DEF SectorOf
<1>4. CASE n = 15
  <2>1. SECTOR_MAP_SLOT1[n].start = 491520
    BY SMT, <1>4 DEF SECTOR_MAP_SLOT1, Entry
  <2>2. QED
    BY SMT, <1>4, <2>1 DEF SectorOf, UNIFORM
<1>5. CASE n \in {16, 17, 18}
  <2>1. slot = 1
    BY <1>2, <1>5
  <2>2. SECTOR_MAP_SLOT1[n].start =
          IF n = 16 THEN 507904 ELSE IF n = 17 THEN 512000 ELSE 516096
    BY SMT, <1>5 DEF SECTOR_MAP_SLOT1, Entry
  <2>3. QED
    BY SMT, <1>5, <2>1, <2>2 DEF SectorOf
<1>6. QED
  BY <1>2, <1>3, <1>4, <1>5
=============================================================================

------------------------------ MODULE RomStore ------------------------------
(***************************************************************************)
(* What the owner of a Meggy is promised.  A session works on the slot J2  *)
(* selects, and on no other; one that is cut short may leave cells loose,  *)
(* which still change when it is over.  What the host reports as verified  *)
(* is in the flash, and stays there until another session begins.          *)
(***************************************************************************)
EXTENDS Integers, TLAPS

CONSTANTS SlotWords, Contents, Images, Nothing

Cells == 0 .. 2 * SlotWords - 1
Slot(s) == s * SlotWords .. (s + 1) * SlotWords - 1
Kinds == {"write", "erase", "verify", "none"}

VARIABLES
  rom,       \* contents of the cells
  slot,      \* where J2 stands
  session,   \* what the running session is for
  image,     \* the image it is about
  loose,     \* cells some command of a session may still change
  told       \* the image reported as verified, and its slot

vars == <<rom, slot, session, image, loose, told>>

Holds(s, img) == \A a \in DOMAIN img : rom[s * SlotWords + a] = img[a]
NothingTold == [slot |-> 0, image |-> Nothing]

Init ==
  /\ rom \in [Cells -> Contents] /\ slot \in {0, 1}
  /\ session = "none" /\ image \in Images
  /\ loose = {} /\ told = NothingTold

\* The cells that may change.
Reach == loose \cup IF session \in {"write", "erase"} THEN Slot(slot) ELSE {}
Touch ==
  /\ rom' \in [Cells -> Contents]
  /\ \A c \in Cells : rom'[c] # rom[c] => c \in Reach
  /\ loose' \subseteq Reach

Move == session = "none" /\ slot' \in {0, 1} /\ UNCHANGED <<rom, session, image, loose, told>>

Start ==
  /\ session = "none" /\ session' \in Kinds \ {"none"}
  /\ image' \in Images
  /\ told' = NothingTold
  /\ UNCHANGED <<rom, slot, loose>>

Work == Touch /\ UNCHANGED <<slot, session, image, told>>

\* A session ends with no report: done, failed, or cut short.
End ==
  /\ session # "none" /\ session' = "none"
  /\ Touch
  /\ UNCHANGED <<slot, image, told>>

Verified ==
  /\ session \in {"write", "verify"} /\ session' = "none"
  /\ loose = {} /\ Holds(slot, image)
  /\ told' = [slot |-> slot, image |-> image]
  /\ UNCHANGED <<rom, slot, image, loose>>

Next == Move \/ Start \/ Work \/ End \/ Verified
Spec == Init /\ [][Next]_vars

\* What was reported as verified is in the flash.
Kept == told.image # Nothing => Holds(told.slot, told.image)

-----------------------------------------------------------------------------
(* Why it stays there, for any size of the slot and any images.            *)

\* What is assumed of the constants; Meggy's instance of RomStore has it from its own.
StoreAssumption ==
  /\ SlotWords \in Nat \ {0}
  /\ Images \subseteq [0 .. SlotWords - 1 -> Contents]
  /\ Nothing \notin Images

\* While an image is told of, no session runs and no cell is loose.
Settled ==
  /\ slot \in {0, 1} /\ image \in Images
  /\ told.image # Nothing =>
       /\ session = "none" /\ loose = {}
       /\ told.slot \in {0, 1} /\ told.image \in Images
       /\ Holds(told.slot, told.image)

\* The words of an image lie in the store's cells.
LEMMA ImageInCells ==
  ASSUME StoreAssumption, NEW s \in {0, 1}, NEW img \in Images, NEW a \in DOMAIN img
  PROVE  s * SlotWords + a \in Cells
<1>1. a \in 0 .. SlotWords - 1
  BY DEF StoreAssumption
<1>2. CASE s = 0
  BY <1>1, <1>2 DEF StoreAssumption, Cells
<1>3. CASE s = 1
  BY <1>1, <1>3 DEF StoreAssumption, Cells
<1>4. QED
  BY <1>2, <1>3

\* A step that leaves the flash alone leaves an image where it is.
LEMMA HoldsStays ==
  ASSUME StoreAssumption, NEW s \in {0, 1}, NEW img \in Images,
         Holds(s, img), \A c \in Cells : rom'[c] = rom[c]
  PROVE  Holds(s, img)'
<1>1. SUFFICES ASSUME NEW a \in DOMAIN img
               PROVE  rom'[s * SlotWords + a] = img[a]
  BY DEF Holds
<1>2. rom[s * SlotWords + a] = img[a]
  BY DEF Holds
<1>3. QED
  BY <1>2, ImageInCells

\* With no session and no loose cell, nothing changes in the flash.
LEMMA NothingReached ==
  ASSUME Touch, session = "none", loose = {}
  PROVE  loose' = {} /\ \A c \in Cells : rom'[c] = rom[c]
BY DEF Touch, Reach

\* Every step keeps Settled: only Verified tells of an image, and then nothing but a
\* new session, which takes the report back, can make a cell loose.
LEMMA SettledStep ==
  ASSUME StoreAssumption, Settled, [Next]_vars
  PROVE  Settled'
<1>1. CASE Move
  <2>1. \A c \in Cells : rom'[c] = rom[c]
    BY <1>1 DEF Move
  <2>2. QED
    BY <1>1, <2>1, HoldsStays DEF Move, Settled
<1>2. CASE Start
  BY <1>2 DEF Start, Settled, NothingTold
<1>3. CASE Work
  <2>1. slot' \in {0, 1} /\ image' \in Images
    BY <1>3 DEF Work, Settled
  <2>2. CASE told.image = Nothing
    BY <1>3, <2>1, <2>2 DEF Work, Settled
  <2>3. CASE told.image # Nothing
    <3>1. loose' = {} /\ \A c \in Cells : rom'[c] = rom[c]
      BY <1>3, <2>3, NothingReached DEF Work, Settled
    <3>2. Holds(told.slot, told.image)'
      BY <1>3, <2>3, <3>1, HoldsStays DEF Work, Settled
    <3>3. QED
      BY <1>3, <2>1, <2>3, <3>1, <3>2 DEF Work, Settled
  <2>4. QED
    BY <2>2, <2>3
<1>4. CASE End
  <2>1. told.image = Nothing
    BY <1>4 DEF End, Settled
  <2>2. QED
    BY <1>4, <2>1 DEF End, Settled
<1>5. CASE Verified
  <2>1. told'.slot = slot /\ told'.image = image /\ slot \in {0, 1} /\ image \in Images
    BY <1>5 DEF Verified, Settled
  <2>2. Holds(told.slot, told.image)'
    BY <1>5, <2>1 DEF Verified, Holds
  <2>3. QED
    BY <1>5, <2>1, <2>2 DEF Verified, Settled
<1>6. CASE UNCHANGED vars
  <2>1. \A c \in Cells : rom'[c] = rom[c]
    BY <1>6 DEF vars
  <2>2. QED
    BY <1>6, <2>1, HoldsStays DEF vars, Settled
<1>7. QED
  BY <1>1, <1>2, <1>3, <1>4, <1>5, <1>6 DEF Next

\* What verify() has called OK (meggy_flash.py:447) stays in the flash as long as no
\* new session begins, wherever J2 is moved and whatever else happens to the board.
THEOREM VerifiedImageStays ==
  ASSUME StoreAssumption
  PROVE  Spec => []Kept
<1>1. Init => Settled
  BY DEF Init, Settled, NothingTold
<1>2. Settled /\ [Next]_vars => Settled'
  BY SettledStep
<1>3. Settled => Kept
  BY DEF Settled, Kept
<1>4. QED
  BY <1>1, <1>2, <1>3, PTL DEF Spec
=============================================================================

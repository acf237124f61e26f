------------------------------ MODULE MCMeggy ------------------------------
(* The instance TLC checks: two words a slot, one bit a word, slot 0 one      *)
(* sector, slot 1 two; the sector map visits slot 0's sector twice, as the    *)
(* real one does its last.  Two images, one of them with a word to program.   *)
EXTENDS Meggy

CONSTANT bit

MCSector == [c \in 0 .. 3 |-> IF c < 2 THEN 0 ELSE c]
MCSectorMap == <<0, 1>>
MCImages == { [a \in 0 .. 1 |-> IF a = 0 THEN {bit} ELSE {}],
              [a \in 0 .. 1 |-> {}] }
MCRequests ==
  LET scripts == {Script(kind, img) : kind \in Sessions, img \in Images}
  IN  UNION {{s[n] : n \in DOMAIN s} : s \in scripts}
=============================================================================

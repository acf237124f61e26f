---------------------------- MODULE PacketProofs ----------------------------
(***************************************************************************)
(* The packet format, for every request, every contents of the flash and   *)
(* every size of a payload.  A packet nothing has happened to is taken for *)
(* what it was, as each side undoes what the other has written, field by   *)
(* field.  And the CRC of either side is the remainder of a long division: *)
(* the register is at every bit what the division has left at its top.     *)
(***************************************************************************)
EXTENDS Packet, SequenceTheorems, WellFoundedInduction, TLAPS

-----------------------------------------------------------------------------
(* Induction and recursion.                                                *)

\* A set with 0 and, of each number in it, the next is all of Nat.
LEMMA SetInduction ==
  ASSUME NEW S, 0 \in S, \A n \in Nat : n \in S => n + 1 \in S
  PROVE  Nat \subseteq S
<1> DEFINE R == OpToRel(<, Nat)
           T == {n \in Nat : n \notin S}
<1>1. IsWellFoundedOn(R, Nat)
  BY NatLessThanWellFounded
<1>2. \A x, y \in Nat : x < y => <<x, y>> \in R
  BY DEF OpToRel
<1>3. SUFFICES ASSUME T # {} PROVE FALSE
  OBVIOUS
<1> HIDE DEF R
<1>4. PICK x \in T : \A y \in T : ~ (<<y, x>> \in R)
  BY <1>1, <1>3, WFMin
<1>5. x \in Nat /\ x # 0 /\ x - 1 \in Nat /\ x - 1 < x
  BY <1>4
<1>6. <<x - 1, x>> \in R
  BY <1>2, <1>5
<1>7. x - 1 \notin T
  BY <1>4, <1>6
<1>8. QED
  BY <1>4, <1>5, <1>7

\* What each step of n keeps holds at its end.
LEMMA Kept ==
  ASSUME NEW n \in Nat, NEW S, 0 \in S, \A k \in 1 .. n : k - 1 \in S => k \in S
  PROVE  \A k \in 0 .. n : k \in S
<1> DEFINE T == {k \in Nat : k <= n => k \in S}
<1>1. 0 \in T
  OBVIOUS
<1>2. ASSUME NEW k \in Nat, k \in T PROVE k + 1 \in T
  <2>1. k + 1 <= n => k + 1 \in 1 .. n /\ (k + 1) - 1 = k /\ k <= n
    OBVIOUS
  <2>2. QED
    BY <1>2, <2>1
<1>3. Nat \subseteq T
  BY <1>1, <1>2, SetInduction
<1>4. QED
  BY <1>3

\* f takes n steps from a, the k-th by G[k]; which a set D may be closed under.
Steps(f, a, G, n) == f[0] = a /\ \A k \in 1 .. n : f[k] = G[k][f[k - 1]]
Closed(D, G, n) == \A k \in 1 .. n, d \in D : G[k][d] \in D

LEMMA Recursion ==
  ASSUME NEW D, NEW a \in D, NEW n \in Nat, NEW G, Closed(D, G, n)
  PROVE  \E f \in [0 .. n -> D] : Steps(f, a, G, n)
<1> DEFINE S == {m \in Nat : m <= n => \E f \in [0 .. m -> D] : Steps(f, a, G, m)}
<1>1. 0 \in S
  <2> DEFINE f == [k \in 0 .. 0 |-> a]
  <2>1. f \in [0 .. 0 -> D] /\ Steps(f, a, G, 0)
    BY DEF Steps
  <2>2. QED
    BY <2>1
<1>2. ASSUME NEW m \in Nat, m \in S PROVE m + 1 \in S
  <2>1. SUFFICES ASSUME m + 1 <= n
                 PROVE  \E f \in [0 .. m + 1 -> D] : Steps(f, a, G, m + 1)
    OBVIOUS
  <2>2. PICK f \in [0 .. m -> D] : Steps(f, a, G, m)
    BY <1>2, <2>1
  <2> DEFINE g == [k \in 0 .. m + 1 |-> IF k = m + 1 THEN G[m + 1][f[m]] ELSE f[k]]
  <2>3. m + 1 \in 1 .. n /\ m \in 0 .. m
    BY <2>1
  <2>4. f[m] \in D /\ G[m + 1][f[m]] \in D
    BY <2>2, <2>3 DEF Closed
  <2>5. \A k \in 0 .. m + 1 : k # m + 1 => k \in 0 .. m
    OBVIOUS
  <2>6. g \in [0 .. m + 1 -> D] /\ g[0] = a
    BY <2>2, <2>4, <2>5 DEF Steps
  <2>7. ASSUME NEW k \in 1 .. m + 1 PROVE g[k] = G[k][g[k - 1]]
    <3>1. k - 1 \in 0 .. m + 1 /\ k - 1 # m + 1 /\ k \in 0 .. m + 1 /\ (k = m + 1 => k - 1 = m)
      OBVIOUS
    <3>2. g[k - 1] = f[k - 1]
      BY <3>1
    <3>3. k # m + 1 => k \in 1 .. m /\ g[k] = f[k]
      BY <3>1
    <3>4. k = m + 1 => g[k] = G[m + 1][f[m]]
      BY <3>1
    <3>5. QED
      BY <2>2, <3>1, <3>2, <3>3, <3>4 DEF Steps
  <2>8. QED
    BY <2>6, <2>7 DEF Steps
<1>3. Nat \subseteq S
  BY <1>1, <1>2, SetInduction
<1>4. QED
  BY <1>3

-----------------------------------------------------------------------------
(* Bits.                                                                   *)

LEMMA ShiftedBits ==
  ASSUME NEW s \in SUBSET Int, NEW n \in Int
  PROVE  /\ Shifted(s, n) \in SUBSET Int
         /\ \A e \in Int : e \in Shifted(s, n) <=> e - n \in s
<1>1. Shifted(s, n) \in SUBSET Int
  BY DEF Shifted
<1>2. ASSUME NEW e \in Int, e \in Shifted(s, n) PROVE e - n \in s
  <2>1. PICK b \in s : e = b + n
    BY <1>2 DEF Shifted
  <2>2. b \in Int /\ e - n = b
    BY <2>1
  <2>3. QED
    BY <2>2
<1>3. ASSUME NEW e \in Int, e - n \in s PROVE e \in Shifted(s, n)
  <2>1. e = (e - n) + n
    OBVIOUS
  <2>2. QED
    BY <1>3, <2>1 DEF Shifted
<1>4. QED
  BY <1>1, <1>2, <1>3

LEMMA DiffBits ==
  ASSUME NEW s, NEW t, NEW e
  PROVE  e \in SymDiff(s, t) <=> ~(e \in s <=> e \in t)
BY DEF SymDiff

LEMMA OctetBits ==
  ASSUME NEW s \in SUBSET Int, NEW k \in Int
  PROVE  /\ Octet(s, k) \in Octets
         /\ \A e \in Int : e \in Octet(s, k) <=> e \in 0 .. 7 /\ e + 8 * k \in s
<1> DEFINE t == s \cap (8 * k .. 8 * k + 7)
<1>1. t \in SUBSET Int /\ -8 * k \in Int
  OBVIOUS
<1>2. /\ Shifted(t, -8 * k) \in SUBSET Int
      /\ \A e \in Int : e \in Shifted(t, -8 * k) <=> e - (-8 * k) \in t
  BY <1>1, ShiftedBits
<1>3. Octet(s, k) = Shifted(t, -8 * k)
  BY DEF Octet
<1>4. ASSUME NEW e \in Int
      PROVE  e \in Octet(s, k) <=> e \in 0 .. 7 /\ e + 8 * k \in s
  <2>1. e - (-8 * k) = e + 8 * k /\ e + 8 * k \in Int
    OBVIOUS
  <2>2. e + 8 * k \in 8 * k .. 8 * k + 7 <=> e \in 0 .. 7
    OBVIOUS
  <2>3. QED
    BY <1>2, <1>3, <2>1, <2>2
<1>5. QED
  BY <1>2, <1>3, <1>4 DEF Octets

-----------------------------------------------------------------------------
(* Numbers.                                                                *)

\* The digits added up, from the highest down.
LEMMA NumberSteps ==
  ASSUME NEW s
  PROVE  \E top \in [0 .. 24 -> Nat] :
           /\ ToNumber(s) = top[24] /\ top[0] = 0
           /\ \A k \in 1 .. 24 : top[k] = 2 * top[k - 1] + IF 24 - k \in s THEN 1 ELSE 0
<1> DEFINE G == [k \in 1 .. 24 |-> [v \in Nat |-> 2 * v + IF 24 - k \in s THEN 1 ELSE 0]]
           Is(f) == f = [k \in 0 .. 24 |->
                           IF k = 0 THEN 0 ELSE 2 * f[k - 1] + IF 24 - k \in s THEN 1 ELSE 0]
           c == CHOOSE f : Is(f)
<1>1. \A k \in 1 .. 24, v \in Nat :
        G[k][v] \in Nat /\ G[k][v] = 2 * v + IF 24 - k \in s THEN 1 ELSE 0
  <2>1. TAKE k \in 1 .. 24, v \in Nat
  <2>2. G[k][v] = 2 * v + IF 24 - k \in s THEN 1 ELSE 0
    OBVIOUS
  <2> HIDE DEF G
  <2>3. QED
    BY <2>2
<1>2. ToNumber(s) = c[24]
  BY DEF ToNumber
<1> HIDE DEF G
<1>3. PICK f \in [0 .. 24 -> Nat] : Steps(f, 0, G, 24)
  <2>1. 0 \in Nat /\ 24 \in Nat /\ Closed(Nat, G, 24)
    BY <1>1 DEF Closed
  <2>2. QED
    BY <2>1, Recursion
<1>4. \A k \in 0 .. 24 : k # 0 => k \in 1 .. 24 /\ k - 1 \in 0 .. 24
  OBVIOUS
<1>5. \A k \in 0 .. 24 :
        f[k] = IF k = 0 THEN 0 ELSE 2 * f[k - 1] + IF 24 - k \in s THEN 1 ELSE 0
  BY <1>1, <1>3, <1>4 DEF Steps
<1>6. Is(f)
  BY <1>5
<1>7. Is(c)
  BY <1>6
<1> HIDE DEF c
<1>8. /\ \A k \in 0 .. 24 :
           c[k] = IF k = 0 THEN 0 ELSE 2 * c[k - 1] + IF 24 - k \in s THEN 1 ELSE 0
      /\ c = [k \in 0 .. 24 |-> c[k]]
  BY <1>7
<1>9. \A k \in 0 .. 24 : k \in {j \in 0 .. 24 : c[j] \in Nat}
  <2> DEFINE S == {j \in 0 .. 24 : c[j] \in Nat}
  <2>1. 0 \in S
    BY <1>8
  <2>2. \A k \in 1 .. 24 : k - 1 \in S => k \in S
    BY <1>8
  <2> HIDE DEF S
  <2>3. \A k \in 0 .. 24 : k \in S
    BY <2>1, <2>2, Kept
  <2>4. QED
    BY <2>3 DEF S
<1>10. c \in [0 .. 24 -> Nat]
  BY <1>8, <1>9
<1>11. c[0] = 0 /\ \A k \in 1 .. 24 : c[k] = 2 * c[k - 1] + IF 24 - k \in s THEN 1 ELSE 0
  BY <1>8, <1>4
<1>12. QED
  BY <1>2, <1>10, <1>11

\* A number is the sum of its digits.
LEMMA NumberRoundTrip ==
  ASSUME NEW n \in Nat, n < 2 ^ 24
  PROVE  ToNumber(ToBits(n)) = n
<1> DEFINE s == ToBits(n)
           half == [b \in 0 .. 24 |-> n \div 2 ^ b]
<1>1. PICK top \in [0 .. 24 -> Nat] :
        /\ ToNumber(s) = top[24] /\ top[0] = 0
        /\ \A k \in 1 .. 24 : top[k] = 2 * top[k - 1] + IF 24 - k \in s THEN 1 ELSE 0
  BY NumberSteps
<1>2. \A b \in 0 .. 23 : b \in s <=> half[b] % 2 = 1
  BY DEF ToBits
<1> DEFINE H == {b \in 0 .. 23 : half[b + 1] = half[b] \div 2}
<1>3. half[0] = n /\ half[24] = 0
  BY SMTT(30)
<1>4. 0 \in H /\ 1 \in H /\ 2 \in H /\ 3 \in H /\ 4 \in H /\ 5 \in H /\ 6 \in H /\ 7 \in H
  BY SMTT(30)
<1>5. /\ 8 \in H /\ 9 \in H /\ 10 \in H /\ 11 \in H
      /\ 12 \in H /\ 13 \in H /\ 14 \in H /\ 15 \in H
  BY SMTT(30)
<1>6. /\ 16 \in H /\ 17 \in H /\ 18 \in H /\ 19 \in H
      /\ 20 \in H /\ 21 \in H /\ 22 \in H /\ 23 \in H
  BY SMTT(30)
<1> HIDE DEF s, half
<1>7. \A b \in 0 .. 23 : half[b + 1] = half[b] \div 2
  <2> HIDE DEF H
  <2>1. \A b \in 0 .. 23 : b \in H
    BY SMTT(30), <1>4, <1>5, <1>6
  <2>2. QED
    BY <2>1 DEF H
<1>8. \A b \in 0 .. 24 : half[b] \in Nat
  <2> DEFINE S == {b \in 0 .. 24 : half[b] \in Nat}
  <2>1. 0 \in S
    BY <1>3
  <2>2. ASSUME NEW b \in 1 .. 24, b - 1 \in S PROVE b \in S
    <3>1. b - 1 \in 0 .. 23 /\ (b - 1) + 1 = b
      OBVIOUS
    <3>2. half[b] = half[b - 1] \div 2 /\ half[b - 1] \in Nat
      BY <1>7, <2>2, <3>1
    <3>3. half[b] \in Nat
      BY <3>2
    <3>4. QED
      BY <3>3
  <2> HIDE DEF S
  <2>3. \A b \in 0 .. 24 : b \in S
    BY <2>1, <2>2, Kept
  <2>4. QED
    BY <2>3 DEF S
<1>9. \A k \in 0 .. 24 : k \in {j \in 0 .. 24 : top[j] = half[24 - j]}
  <2> DEFINE S == {j \in 0 .. 24 : top[j] = half[24 - j]}
  <2>1. 0 \in S
    <3>1. 24 - 0 = 24 /\ 0 \in 0 .. 24
      OBVIOUS
    <3>2. QED
      BY <1>1, <1>3, <3>1
  <2>2. ASSUME NEW k \in 1 .. 24, k - 1 \in S PROVE k \in S
    <3> DEFINE b == 24 - k
    <3>1. b \in 0 .. 23 /\ b + 1 = 24 - (k - 1)
      OBVIOUS
    <3>2. top[k - 1] = half[b + 1]
      BY <2>2, <3>1
    <3>3. top[k] = 2 * half[b + 1] + IF half[b] % 2 = 1 THEN 1 ELSE 0
      BY <1>1, <1>2, <3>1, <3>2
    <3> HIDE DEF b
    <3>4. half[b + 1] = half[b] \div 2 /\ half[b] \in Nat
      BY <1>7, <1>8, <3>1
    <3>5. top[k] = half[b]
      BY <3>3, <3>4
    <3>6. QED
      BY <3>5 DEF b
  <2> HIDE DEF S
  <2>3. QED
    BY <2>1, <2>2, Kept DEF S
<1>10. top[24] = half[24 - 24] /\ 24 - 24 = 0
  BY <1>9
<1>11. QED
  BY <1>1, <1>3, <1>10 DEF s

\* A number below 256 ^ size has no bit beyond its bytes.
LEMMA NumberBits ==
  ASSUME NEW n \in Nat, NEW size \in {1, 2, 3}, n < 2 ^ (8 * size)
  PROVE  ToBits(n) \in SUBSET (0 .. 8 * size - 1) /\ n < 2 ^ 24
<1> DEFINE s == ToBits(n)
<1>1. s \in SUBSET (0 .. 23)
  BY DEF ToBits
<1>2. n < 2 ^ 16 => /\ 16 \notin s /\ 17 \notin s /\ 18 \notin s /\ 19 \notin s
                    /\ 20 \notin s /\ 21 \notin s /\ 22 \notin s /\ 23 \notin s
  BY SMTT(30) DEF ToBits
<1>3. n < 2 ^ 8 => /\ 8 \notin s /\ 9 \notin s /\ 10 \notin s /\ 11 \notin s
                   /\ 12 \notin s /\ 13 \notin s /\ 14 \notin s /\ 15 \notin s
  BY SMTT(30) DEF ToBits
<1>4. (n < 2 ^ 8 => n < 2 ^ 16) /\ (n < 2 ^ 16 => n < 2 ^ 24)
  BY SMTT(30)
<1> HIDE DEF s
<1>5. n < 2 ^ 16 => s \in SUBSET (0 .. 15)
  BY SMTT(30), <1>1, <1>2
<1>6. n < 2 ^ 8 => s \in SUBSET (0 .. 7)
  BY SMTT(30), <1>3, <1>4, <1>5
<1>7. CASE size = 3
  BY <1>1, <1>7, SMTT(30) DEF s
<1>8. CASE size = 2
  <2>1. n < 2 ^ 16 /\ 0 .. 8 * size - 1 = 0 .. 15
    BY <1>8, SMTT(30)
  <2>2. QED
    BY <1>4, <1>5, <2>1 DEF s
<1>9. CASE size = 1
  <2>1. n < 2 ^ 8 /\ 0 .. 8 * size - 1 = 0 .. 7
    BY <1>9, SMTT(30)
  <2>2. QED
    BY <1>4, <1>6, <2>1 DEF s
<1>10. QED
  BY <1>7, <1>8, <1>9

-----------------------------------------------------------------------------
(* Fields.                                                                 *)

\* A function on 1 .. n is a sequence.
LEMMA FunctionSeq ==
  ASSUME NEW S, NEW n \in Nat, NEW f \in [1 .. n -> S]
  PROVE  f \in Seq(S) /\ Len(f) = n /\ DOMAIN f = 1 .. n
<1>1. f \in Seq(S)
  BY SeqDef
<1>2. DOMAIN f = 1 .. n /\ DOMAIN f = 1 .. Len(f) /\ Len(f) \in Nat
  BY <1>1, LenProperties
<1>3. QED
  BY <1>1, <1>2

LEMMA FieldBits ==
  ASSUME NEW bytes \in Seq(Octets)
  PROVE  /\ Field(bytes) \in SUBSET Nat
         /\ \A e \in Int : e \in Field(bytes) <=>
              \E n \in 1 .. Len(bytes) : e - 8 * (Len(bytes) - n) \in bytes[n]
<1> DEFINE N == Len(bytes)
<1>1. N \in Nat /\ DOMAIN bytes = 1 .. N /\ \A n \in 1 .. N : bytes[n] \in Octets
  BY LenProperties
<1> HIDE DEF N
<1>2. ASSUME NEW n \in 1 .. N
      PROVE  /\ Shifted(bytes[n], 8 * (N - n)) \in SUBSET Nat
             /\ \A e \in Int : e \in Shifted(bytes[n], 8 * (N - n)) <=>
                                 e - 8 * (N - n) \in bytes[n]
  <2> DEFINE d == 8 * (N - n)
  <2>1. bytes[n] \in SUBSET Int /\ bytes[n] \in SUBSET Nat /\ d \in Nat /\ d \in Int
    BY <1>1 DEF Octets
  <2> HIDE DEF d
  <2>2. /\ Shifted(bytes[n], d) \in SUBSET Int
        /\ \A e \in Int : e \in Shifted(bytes[n], d) <=> e - d \in bytes[n]
    BY <2>1, ShiftedBits
  <2>3. ASSUME NEW e \in Shifted(bytes[n], d) PROVE e \in Nat
    <3>1. e \in Int /\ e - d \in Nat
      BY <2>1, <2>2
    <3>2. QED
      BY <2>1, <3>1
  <2>4. QED
    BY <2>2, <2>3 DEF d
<1>3. Field(bytes) = UNION {Shifted(bytes[n], 8 * (N - n)) : n \in 1 .. N}
  BY <1>1 DEF Field, N
<1>4. QED
  BY <1>2, <1>3 DEF N

\* The bytes of a field put together, the high one first.
LEMMA FieldOfOctets ==
  ASSUME NEW size \in Nat, NEW s \in SUBSET (0 .. 8 * size - 1), NEW bytes \in Seq(Octets),
         Len(bytes) = size, \A k \in 1 .. size : bytes[k] = Octet(s, size - k)
  PROVE  Field(bytes) = s
<1>1. /\ Field(bytes) \in SUBSET Nat
      /\ \A e \in Int : e \in Field(bytes) <=>
           \E k \in 1 .. size : e - 8 * (size - k) \in bytes[k]
  BY FieldBits
<1>2. ASSUME NEW e \in Int, NEW k \in 1 .. size
      PROVE  e - 8 * (size - k) \in bytes[k] <=> e - 8 * (size - k) \in 0 .. 7 /\ e \in s
  <2> DEFINE d == 8 * (size - k)
  <2>1. s \in SUBSET Int /\ size - k \in Int /\ d \in Int /\ e - d \in Int /\ (e - d) + d = e
    OBVIOUS
  <2>2. \A x \in Int : x \in Octet(s, size - k) <=> x \in 0 .. 7 /\ x + d \in s
    BY <2>1, OctetBits
  <2> HIDE DEF d
  <2>3. e - d \in Octet(s, size - k) <=> e - d \in 0 .. 7 /\ e \in s
    BY <2>1, <2>2
  <2>4. QED
    BY <2>3 DEF d
<1>3. ASSUME NEW e \in s PROVE e \in Field(bytes)
  <2> DEFINE k == size - (e \div 8)
  <2>1. e \in Nat /\ e < 8 * size
    OBVIOUS
  <2>2. k \in 1 .. size /\ e - 8 * (size - k) \in 0 .. 7 /\ e \in Int
    BY <2>1
  <2> HIDE DEF k
  <2>3. e - 8 * (size - k) \in bytes[k]
    BY <1>2, <1>3, <2>2
  <2>4. QED
    BY <1>1, <2>2, <2>3
<1>4. ASSUME NEW e \in Field(bytes) PROVE e \in s
  BY <1>1, <1>2, <1>4
<1>5. QED
  BY <1>3, <1>4

\* A number written is read as it was.
LEMMA NumberField ==
  ASSUME NEW n \in Nat, NEW size \in {1, 2, 3}, n < 2 ^ (8 * size)
  PROVE  /\ Number(n, size) \in Seq(Octets) /\ Len(Number(n, size)) = size
         /\ ToNumber(Field(Number(n, size))) = n
<1> DEFINE s == ToBits(n)
<1>1. s \in SUBSET (0 .. 8 * size - 1) /\ n < 2 ^ 24
  BY NumberBits
<1>2. ToNumber(s) = n
  BY <1>1, NumberRoundTrip
<1> HIDE DEF s
<1>3. \A k \in 1 .. size : Octet(s, size - k) \in Octets
  BY <1>1, OctetBits
<1>4. Number(n, size) = [k \in 1 .. size |-> Octet(s, size - k)]
  BY DEF Number, s
<1>5. Number(n, size) \in [1 .. size -> Octets] /\ size \in Nat
  BY <1>3, <1>4
<1>6. Number(n, size) \in Seq(Octets) /\ Len(Number(n, size)) = size
  BY <1>5, FunctionSeq
<1>7. Field(Number(n, size)) = s
  BY <1>1, <1>4, <1>5, <1>6, FieldOfOctets
<1>8. QED
  BY <1>2, <1>6, <1>7

\* Words, low byte first, and back.
LEMMA SplitBytes ==
  ASSUME NEW words \in Seq(SUBSET Width)
  PROVE  /\ Split(words) \in Seq(Octets) /\ Len(Split(words)) = 2 * Len(words)
         /\ \A n \in 1 .. Len(words) : /\ Split(words)[2 * n] = Octet(words[n], 1)
                                       /\ Split(words)[2 * n - 1] = Octet(words[n], 0)
<1> DEFINE L == Len(words)
<1>1. L \in Nat /\ \A n \in 1 .. L : words[n] \in SUBSET Int
  <2>1. L \in Nat /\ words \in [1 .. L -> SUBSET Width]
    BY LenProperties
  <2>2. QED
    BY <2>1 DEF Width
<1> HIDE DEF L
<1>2. \A n \in 1 .. 2 * L : (n + 1) \div 2 \in 1 .. L /\ (n + 1) % 2 \in Int
  BY <1>1
<1>3. \A n \in 1 .. 2 * L : Octet(words[(n + 1) \div 2], (n + 1) % 2) \in Octets
  BY <1>1, <1>2, OctetBits
<1>4. Split(words) = [n \in 1 .. 2 * L |-> Octet(words[(n + 1) \div 2], (n + 1) % 2)]
  BY DEF Split, L
<1>5. Split(words) \in [1 .. 2 * L -> Octets] /\ 2 * L \in Nat
  BY <1>1, <1>3, <1>4
<1>6. ASSUME NEW n \in 1 .. L
      PROVE  /\ Split(words)[2 * n] = Octet(words[n], 1)
             /\ Split(words)[2 * n - 1] = Octet(words[n], 0)
  <2>1. /\ 2 * n \in 1 .. 2 * L /\ (2 * n + 1) \div 2 = n /\ (2 * n + 1) % 2 = 1
        /\ 2 * n - 1 \in 1 .. 2 * L /\ ((2 * n - 1) + 1) \div 2 = n
        /\ ((2 * n - 1) + 1) % 2 = 0
    BY <1>1
  <2>2. QED
    BY <1>4, <2>1
<1>7. QED
  BY <1>5, <1>6, FunctionSeq DEF L

LEMMA SplitRoundTrip ==
  ASSUME NEW words \in Seq(SUBSET Width)
  PROVE  Joined(Split(words)) = words
<1> DEFINE L == Len(words)
           B == Split(words)
<1>1. /\ B \in Seq(Octets) /\ Len(B) = 2 * L
      /\ \A n \in 1 .. L : B[2 * n] = Octet(words[n], 1) /\ B[2 * n - 1] = Octet(words[n], 0)
  BY SplitBytes
<1>2. L \in Nat /\ words \in [1 .. L -> SUBSET Width]
  BY LenProperties
<1> HIDE DEF L, B
<1>3. Len(B) \div 2 = L
  BY <1>1, <1>2
<1>4. ASSUME NEW n \in 1 .. L PROVE Field(<<B[2 * n], B[2 * n - 1]>>) = words[n]
  <2> DEFINE s == words[n]
             pair == <<Octet(s, 1), Octet(s, 0)>>
  <2>1. s \in SUBSET (0 .. 8 * 2 - 1) /\ s \in SUBSET Int
    BY <1>2 DEF Width
  <2> HIDE DEF s
  <2>2. Octet(s, 1) \in Octets /\ Octet(s, 0) \in Octets
    BY <2>1, OctetBits
  <2>3. pair \in Seq(Octets) /\ Len(pair) = 2 /\ \A k \in 1 .. 2 : pair[k] = Octet(s, 2 - k)
    BY <2>2
  <2>4. <<B[2 * n], B[2 * n - 1]>> = pair
    BY <1>1 DEF s
  <2> HIDE DEF pair
  <2>5. Field(pair) = s
    BY <2>1, <2>3, FieldOfOctets
  <2>6. QED
    BY <2>4, <2>5 DEF s
<1>5. Joined(B) = [n \in 1 .. L |-> Field(<<B[2 * n], B[2 * n - 1]>>)]
  BY <1>3 DEF Joined
<1>6. Joined(B) = words
  BY <1>2, <1>4, <1>5
<1>7. QED
  BY <1>6 DEF B

\* What follows a sequence does not show in a part of it, and can be taken off its end.
LEMMA PartOfFirst ==
  ASSUME NEW S, NEW a \in Seq(S), NEW c \in Seq(S), NEW i \in Nat \ {0}, NEW j \in Nat,
         j <= Len(a)
  PROVE  SubSeq(a \o c, i, j) = SubSeq(a, i, j)
<1>1. Len(a) \in Nat
  BY LenProperties
<1>2. CASE j < i
  BY <1>2, SubSeqEmpty
<1>3. CASE i <= j
  BY <1>1, <1>3, SubSeqOfConcat1
<1>4. QED
  BY <1>2, <1>3

LEMMA AllOfFirst ==
  ASSUME NEW S, NEW a \in Seq(S), NEW c \in Seq(S)
  PROVE  SubSeq(a \o c, 1, Len(a)) = a
<1>1. Len(a) \in Nat /\ 1 \in Nat \ {0}
  BY LenProperties
<1>2. SubSeq(a \o c, 1, Len(a)) = SubSeq(a, 1, Len(a))
  BY <1>1, PartOfFirst
<1>3. QED
  BY <1>2, SubSeqFull

LEMMA AllOfSecond ==
  ASSUME NEW S, NEW a \in Seq(S), NEW c \in Seq(S)
  PROVE  SubSeq(a \o c, Len(a) + 1, Len(a) + Len(c)) = c
<1> DEFINE l == Len(a)
           k == Len(c)
<1>1. l \in Nat /\ k \in Nat
  BY LenProperties
<1>2. CASE k = 0
  <2>1. c = <<>>
    BY <1>2, EmptySeq
  <2>2. l + k < l + 1 /\ l + 1 \in Int /\ l + k \in Int
    BY <1>1, <1>2
  <2>3. QED
    BY <2>1, <2>2, SubSeqEmpty
<1>3. CASE k # 0
  <2> HIDE DEF l, k
  <2>1. /\ l + 1 \in l + 1 .. l + k /\ l + k \in l + 1 .. l + k
        /\ (l + 1) - l = 1 /\ (l + k) - l = k
    BY <1>1, <1>3
  <2>2. SubSeq(a \o c, l + 1, l + k) = SubSeq(c, (l + 1) - l, (l + k) - l)
    BY <2>1, SubSeqOfConcat2 DEF l, k
  <2>3. SubSeq(c, 1, k) = c
    BY SubSeqFull DEF k
  <2>4. QED
    BY <2>1, <2>2, <2>3 DEF l, k
<1>4. QED
  BY <1>2, <1>3

-----------------------------------------------------------------------------
(* The checksum.                                                           *)

Registers == SUBSET Width

\* Masking before the divisor is taken or after it is the same, as it fits.
LEMMA ShiftsAgree ==
  /\ ShiftC = ShiftPython
  /\ ShiftC \in [Registers -> Registers]
<1>1. ASSUME NEW crc \in Registers
      PROVE  ShiftC[crc] = ShiftPython[crc] /\ ShiftC[crc] \in Registers
  <2> DEFINE t == Shifted(crc, 1)
  <2>1. SymDiff(t \cap Width, Poly) = SymDiff(t, Poly) \cap Width
    BY DEF SymDiff, Poly, Width
  <2>2. /\ ShiftC[crc] = IF 15 \in crc THEN SymDiff(t \cap Width, Poly) ELSE t \cap Width
        /\ ShiftPython[crc] = (IF 15 \in crc THEN SymDiff(t, Poly) ELSE t) \cap Width
    BY DEF ShiftC, ShiftPython, Registers
  <2> HIDE DEF t
  <2>3. QED
    BY <2>1, <2>2 DEF Registers
<1>2. /\ ShiftC = [crc \in Registers |-> ShiftC[crc]]
      /\ ShiftPython = [crc \in Registers |-> ShiftPython[crc]]
  BY DEF ShiftC, ShiftPython, Registers
<1>3. QED
  BY <1>1, <1>2

LEMMA ThroughSteps ==
  ASSUME NEW shift \in [Registers -> Registers], NEW crc \in Registers
  PROVE  /\ Through(shift, crc) \in Registers
         /\ \E bit \in [0 .. 8 -> Registers] :
              /\ Through(shift, crc) = bit[8] /\ bit[0] = crc
              /\ \A b \in 1 .. 8 : bit[b] = shift[bit[b - 1]]
<1> DEFINE G == [b \in 1 .. 8 |-> shift]
           Is(f) == f = [b \in 0 .. 8 |-> IF b = 0 THEN crc ELSE shift[f[b - 1]]]
           c == CHOOSE f : Is(f)
<1>1. \A b \in 1 .. 8 : G[b] = shift
  OBVIOUS
<1>2. Through(shift, crc) = c[8]
  BY DEF Through
<1> HIDE DEF G
<1>3. PICK f \in [0 .. 8 -> Registers] : Steps(f, crc, G, 8)
  <2>1. 8 \in Nat /\ Closed(Registers, G, 8)
    BY <1>1 DEF Closed
  <2>2. QED
    BY <2>1, Recursion
<1>4. \A b \in 0 .. 8 : b # 0 => b \in 1 .. 8 /\ b - 1 \in 0 .. 8
  OBVIOUS
<1>5. \A b \in 0 .. 8 : f[b] = IF b = 0 THEN crc ELSE shift[f[b - 1]]
  BY <1>1, <1>3, <1>4 DEF Steps
<1>6. Is(f)
  BY <1>5
<1>7. Is(c)
  BY <1>6
<1> HIDE DEF c
<1>8. /\ \A b \in 0 .. 8 : c[b] = IF b = 0 THEN crc ELSE shift[c[b - 1]]
      /\ c = [b \in 0 .. 8 |-> c[b]]
  BY <1>7
<1>9. \A b \in 0 .. 8 : c[b] \in Registers
  <2> DEFINE S == {b \in 0 .. 8 : c[b] \in Registers}
  <2>1. 0 \in S
    BY <1>8
  <2>2. \A b \in 1 .. 8 : b - 1 \in S => b \in S
    BY <1>8
  <2> HIDE DEF S
  <2>3. \A b \in 0 .. 8 : b \in S
    BY <2>1, <2>2, Kept
  <2>4. QED
    BY <2>3 DEF S
<1>10. c \in [0 .. 8 -> Registers] /\ c[8] \in Registers
  BY <1>8, <1>9
<1>11. c[0] = crc /\ \A b \in 1 .. 8 : c[b] = shift[c[b - 1]]
  BY <1>8, <1>4
<1>12. QED
  BY <1>2, <1>10, <1>11

\* A byte that has entered at the top of the register.
Entered(crc, byte) == SymDiff(crc, Shifted(byte, 8))

LEMMA EnteredType ==
  ASSUME NEW crc \in Registers, NEW byte \in Octets
  PROVE  /\ Entered(crc, byte) \in Registers
         /\ \A e \in Int : e \in Entered(crc, byte) <=> ~(e \in crc <=> e - 8 \in byte)
<1>1. byte \in SUBSET Int /\ \A e \in byte : e \in 0 .. 7
  BY DEF Octets
<1>2. /\ Shifted(byte, 8) \in SUBSET Int
      /\ \A e \in Int : e \in Shifted(byte, 8) <=> e - 8 \in byte
  BY <1>1, ShiftedBits
<1>3. \A e \in Shifted(byte, 8) : e \in Width
  BY <1>1, <1>2 DEF Width
<1>4. QED
  BY <1>2, <1>3 DEF Entered, SymDiff, Registers

LEMMA CrcSteps ==
  ASSUME NEW shift \in [Registers -> Registers], NEW bytes \in Seq(Octets)
  PROVE  \E feed \in [0 .. Len(bytes) -> Registers] :
           /\ Crc(shift, bytes) = feed[Len(bytes)] /\ feed[0] = Width
           /\ \A n \in 1 .. Len(bytes) :
                feed[n] = Through(shift, Entered(feed[n - 1], bytes[n]))
<1> DEFINE N == Len(bytes)
           Next1(n, d) == Through(shift, Entered(d, bytes[n]))
           G == [n \in 1 .. N |-> [d \in Registers |-> Next1(n, d)]]
           Is(f) == f = [n \in 0 .. N |-> IF n = 0 THEN Width ELSE Next1(n, f[n - 1])]
           c == CHOOSE f : Is(f)
<1>1. N \in Nat /\ \A n \in 1 .. N : bytes[n] \in Octets
  BY LenProperties, ElementOfSeq
<1>2. Crc(shift, bytes) = c[N]
  BY DEF Crc, Entered
<1>3. \A n \in 1 .. N, d \in Registers : Next1(n, d) \in Registers
  BY <1>1, EnteredType, ThroughSteps
<1>4. \A n \in 1 .. N, d \in Registers : G[n][d] = Next1(n, d)
  OBVIOUS
<1> HIDE DEF G, N, Next1
<1>5. Width \in Registers
  BY DEF Registers
<1>6. PICK f \in [0 .. N -> Registers] : Steps(f, Width, G, N)
  <2>1. Closed(Registers, G, N)
    BY <1>3, <1>4 DEF Closed
  <2>2. QED
    BY <1>1, <1>5, <2>1, Recursion
<1>7. \A n \in 0 .. N : n # 0 => n \in 1 .. N /\ n - 1 \in 0 .. N
  BY <1>1
<1>8. \A n \in 0 .. N : f[n] = IF n = 0 THEN Width ELSE Next1(n, f[n - 1])
  BY <1>4, <1>6, <1>7 DEF Steps
<1>9. Is(f)
  BY <1>8
<1>10. Is(c)
  BY <1>9
<1> HIDE DEF c
<1>11. /\ \A n \in 0 .. N : c[n] = IF n = 0 THEN Width ELSE Next1(n, c[n - 1])
       /\ c = [n \in 0 .. N |-> c[n]]
  BY <1>10
<1>12. \A n \in 0 .. N : c[n] \in Registers
  <2> DEFINE S == {n \in 0 .. N : c[n] \in Registers}
  <2>1. 0 \in S
    BY <1>1, <1>5, <1>11
  <2>2. ASSUME NEW n \in 1 .. N, n - 1 \in S PROVE n \in S
    <3>1. n \in 0 .. N /\ n # 0 /\ c[n - 1] \in Registers
      BY <1>1, <2>2
    <3>2. c[n] = Next1(n, c[n - 1])
      BY <1>11, <3>1
    <3>3. QED
      BY <1>3, <3>1, <3>2
  <2> HIDE DEF S
  <2>3. \A n \in 0 .. N : n \in S
    BY <1>1, <2>1, <2>2, Kept
  <2>4. QED
    BY <2>3 DEF S
<1>13. c \in [0 .. N -> Registers]
  BY <1>11, <1>12
<1>14. c[0] = Width /\ \A n \in 1 .. N : c[n] = Next1(n, c[n - 1])
  BY <1>1, <1>7, <1>11
<1>15. QED
  BY <1>2, <1>13, <1>14 DEF N, Next1

\* The two sides compute the same, and it is 16 bits.
LEMMA ChecksumsAgree ==
  ASSUME NEW bytes \in Seq(Octets)
  PROVE  /\ crc16_firmware(bytes) = crc16_host(bytes)
         /\ crc16_firmware(bytes) \in Registers
<1>1. Len(bytes) \in 0 .. Len(bytes)
  BY LenProperties
<1>2. crc16_firmware(bytes) \in Registers
  BY <1>1, ShiftsAgree, CrcSteps DEF crc16_firmware
<1>3. QED
  BY <1>2, ShiftsAgree DEF crc16_firmware, crc16_host

-----------------------------------------------------------------------------
(* The packets.                                                            *)

LEMMA ByteNumber ==
  ASSUME NEW n \in Nat, n < 2 ^ 8
  PROVE  ToNumber(Number(n, 1)[1]) = n
<1> DEFINE s == ToBits(n)
<1>1. n < 2 ^ (8 * 1) /\ 8 * 1 - 1 = 7
  BY SMTT(30)
<1>2. s \in SUBSET (0 .. 8 * 1 - 1) /\ n < 2 ^ 24
  BY <1>1, NumberBits
<1>3. ToNumber(s) = n
  BY <1>2, NumberRoundTrip
<1>4. Number(n, 1)[1] = Octet(s, 0)
  BY DEF Number
<1> HIDE DEF s
<1>5. s \in SUBSET Int /\ s \in SUBSET (0 .. 7)
  BY <1>1, <1>2
<1>6. /\ Octet(s, 0) \in Octets
      /\ \A e \in Int : e \in Octet(s, 0) <=> e \in 0 .. 7 /\ e + 8 * 0 \in s
  BY <1>5, OctetBits
<1>7. Octet(s, 0) \in SUBSET Int /\ \A e \in Int : e \in Octet(s, 0) <=> e \in s
  BY <1>5, <1>6 DEF Octets
<1>8. Octet(s, 0) = s
  BY <1>5, <1>7
<1>9. QED
  BY <1>3, <1>4, <1>8

\* The checksum at the end of a packet is the one that is read there.
LEMMA SealedBody ==
  ASSUME NEW body \in Seq(Octets), NEW crc \in Registers
  PROVE  /\ Sealed(body, crc) \in Seq(Octets)
         /\ Len(Sealed(body, crc)) = Len(body) + 2
         /\ SubSeq(Sealed(body, crc), 1, Len(body)) = body
         /\ Fits(crc, Sealed(body, crc), Len(body))
         /\ \A i \in Nat \ {0}, j \in Nat :
              j <= Len(body) => SubSeq(Sealed(body, crc), i, j) = SubSeq(body, i, j)
         /\ \A i \in 1 .. Len(body) : Sealed(body, crc)[i] = body[i]
<1> DEFINE seal == <<Octet(crc, 1), Octet(crc, 0)>>
<1>1. crc \in SUBSET Int /\ crc \in SUBSET (0 .. 8 * 2 - 1)
  BY DEF Registers, Width
<1>2. Octet(crc, 1) \in Octets /\ Octet(crc, 0) \in Octets
  BY <1>1, OctetBits
<1>3. /\ seal \in Seq(Octets) /\ Len(seal) = 2
      /\ \A k \in 1 .. 2 : seal[k] = Octet(crc, 2 - k)
  BY <1>2
<1>4. Sealed(body, crc) = body \o seal
  BY DEF Sealed
<1> HIDE DEF seal
<1>5. Field(seal) = crc
  BY <1>1, <1>3, FieldOfOctets
<1>6. SubSeq(body \o seal, Len(body) + 1, Len(body) + 2) = seal
  BY <1>3, AllOfSecond
<1>7. Fits(crc, Sealed(body, crc), Len(body))
  BY <1>4, <1>5, <1>6 DEF Fits
<1>8. /\ body \o seal \in Seq(Octets) /\ Len(body \o seal) = Len(body) + 2
      /\ \A i \in 1 .. Len(body) : (body \o seal)[i] = body[i]
  <2>1. Len(body) \in Nat /\ Len(seal) \in Nat
    BY <1>3, LenProperties
  <2>2. /\ body \o seal \in Seq(Octets) /\ Len(body \o seal) = Len(body) + Len(seal)
        /\ \A i \in 1 .. Len(body) + Len(seal) : (body \o seal)[i] =
             IF i <= Len(body) THEN body[i] ELSE seal[i - Len(body)]
    BY <1>3, ConcatProperties
  <2>3. \A i \in 1 .. Len(body) : i \in 1 .. Len(body) + Len(seal) /\ i <= Len(body)
    BY <2>1
  <2>4. QED
    BY <1>3, <2>2, <2>3
<1>9. SubSeq(body \o seal, 1, Len(body)) = body
  BY <1>3, AllOfFirst
<1>10. \A i \in Nat \ {0}, j \in Nat :
         j <= Len(body) => SubSeq(body \o seal, i, j) = SubSeq(body, i, j)
  BY <1>3, PartOfFirst
<1>11. QED
  BY <1>4, <1>7, <1>8, <1>9, <1>10

LEMMA MagicBytes ==
  Magic \in Seq(Octets) /\ Len(Magic) = 2
<1>1. ToBits(77) \in SUBSET (0 .. 7) /\ ToBits(71) \in SUBSET (0 .. 7)
  <2>1. 77 \in Nat /\ 71 \in Nat /\ 77 < 2 ^ (8 * 1) /\ 71 < 2 ^ (8 * 1) /\ 8 * 1 - 1 = 7
    BY SMTT(30)
  <2>2. /\ ToBits(77) \in SUBSET (0 .. 8 * 1 - 1)
        /\ ToBits(71) \in SUBSET (0 .. 8 * 1 - 1)
    BY <2>1, NumberBits
  <2>3. QED
    BY <2>1, <2>2
<1>2. QED
  BY <1>1 DEF Magic, MAGIC, Octets

\* A part c appended to n bytes a makes m bytes h: where it is, and what stays in front
\* of it.
Appends(h, a, n, c, m) ==
  /\ a \in Seq(Octets) /\ c \in Seq(Octets) /\ h = a \o c
  /\ n \in Nat /\ m \in Nat /\ Len(a) = n /\ n + Len(c) = m

Parts(h, a, n, c, m) ==
  /\ h \in Seq(Octets) /\ Len(h) = m /\ SubSeq(h, n + 1, m) = c
  /\ \A i \in Nat \ {0}, j \in Nat : j <= n => SubSeq(h, i, j) = SubSeq(a, i, j)
  /\ \A i \in 1 .. m : h[i] = IF i <= n THEN a[i] ELSE c[i - n]

LEMMA Appended ==
  ASSUME NEW h, NEW a, NEW n, NEW c, NEW m, Appends(h, a, n, c, m)
  PROVE  Parts(h, a, n, c, m)
<1>1. /\ a \in Seq(Octets) /\ c \in Seq(Octets) /\ h = a \o c
      /\ n \in Nat /\ m \in Nat /\ Len(a) = n /\ Len(a) + Len(c) = m
  BY DEF Appends
<1>2. \A i \in Nat \ {0}, j \in Nat : j <= n => SubSeq(h, i, j) = SubSeq(a, i, j)
  BY <1>1, PartOfFirst
<1>3. SubSeq(h, n + 1, m) = c
  BY <1>1, AllOfSecond
<1>4. /\ h \in Seq(Octets) /\ Len(h) = m
      /\ \A i \in 1 .. m : h[i] = IF i <= n THEN a[i] ELSE c[i - n]
  BY <1>1, ConcatProperties
<1>5. QED
  BY <1>2, <1>3, <1>4 DEF Parts

LEMMA FieldRange ==
  /\ \A x \in 0 .. 255 : x \in Nat /\ x < 2 ^ 8
  /\ \A x \in 0 .. 2 ^ 24 - 1 : x \in Nat /\ x < 2 ^ 24
  /\ \A x \in 0 .. 2 ^ 16 - 1 :
       x \in Nat /\ \A y \in 0 .. x : y \in Nat /\ y <= x /\ y < 2 ^ 16
<1>1. \A x \in 0 .. 255 : x \in Nat /\ x < 2 ^ 8
  BY SMTT(30)
<1>2. \A x \in 0 .. 2 ^ 24 - 1 : x \in Nat /\ x < 2 ^ 24
  BY SMTT(30)
<1>3. \A x \in 0 .. 2 ^ 16 - 1 :
        x \in Nat /\ \A y \in 0 .. x : y \in Nat /\ y <= x /\ y < 2 ^ 16
  BY SMTT(30)
<1>4. QED
  BY <1>1, <1>2, <1>3

\* protocol_task() reads of a command what _build_packet() has written.
LEMMA CommandRoundTrip ==
  ASSUME NEW r \in Requests
  PROVE  /\ BuildPacket(r) \in Seq(Octets)
         /\ Parsed(BuildPacket(r)) = [status |-> STATUS.OK, request |-> r]
<1> DEFINE cmd == Number(r.cmd, 1)
           addr == Number(r.addr, 3)
           len == Number(r.len, 2)
           data == Split(r.data)
           L == Len(r.data)
<1>1. /\ r = [cmd |-> r.cmd, addr |-> r.addr, len |-> r.len, data |-> r.data]
      /\ r.cmd \in Nat /\ r.cmd < 2 ^ 8
      /\ r.addr \in Nat /\ r.addr < 2 ^ 24
      /\ r.len \in Nat /\ r.len < 2 ^ 16 /\ r.len <= MAX_WORDS_PER_CMD
      /\ r.data \in Seq(SUBSET Width) /\ L = (IF r.cmd = CMD_PROGRAM THEN r.len ELSE 0)
      /\ MAX_WORDS_PER_CMD \in Nat
  <2>1. /\ r \in [cmd : 0 .. 255, addr : 0 .. 2 ^ 24 - 1, len : 0 .. MAX_WORDS_PER_CMD,
                  data : Seq(SUBSET Width)]
        /\ MAX_WORDS_PER_CMD \in 0 .. 2 ^ 16 - 1
        /\ L = (IF r.cmd = CMD_PROGRAM THEN r.len ELSE 0)
    BY PacketAssumption
  <2> HIDE DEF L
  <2>2. /\ r = [cmd |-> r.cmd, addr |-> r.addr, len |-> r.len, data |-> r.data]
        /\ r.cmd \in 0 .. 255 /\ r.addr \in 0 .. 2 ^ 24 - 1 /\ r.len \in 0 .. MAX_WORDS_PER_CMD
        /\ r.data \in Seq(SUBSET Width)
    BY <2>1
  <2>3. r.cmd \in Nat /\ r.cmd < 2 ^ 8 /\ r.addr \in Nat /\ r.addr < 2 ^ 24
    BY <2>2, FieldRange
  <2>4. r.len \in Nat /\ r.len < 2 ^ 16 /\ r.len <= MAX_WORDS_PER_CMD /\ MAX_WORDS_PER_CMD \in Nat
    BY <2>1, <2>2, FieldRange
  <2>5. QED
    BY <2>1, <2>2, <2>3, <2>4
<1>2. /\ cmd \in Seq(Octets) /\ Len(cmd) = 1 /\ ToNumber(cmd[1]) = r.cmd
      /\ addr \in Seq(Octets) /\ Len(addr) = 3 /\ ToNumber(Field(addr)) = r.addr
      /\ len \in Seq(Octets) /\ Len(len) = 2 /\ ToNumber(Field(len)) = r.len
  <2>1. 2 ^ (8 * 1) = 2 ^ 8 /\ 2 ^ (8 * 2) = 2 ^ 16 /\ 2 ^ (8 * 3) = 2 ^ 24
    OBVIOUS
  <2>2. cmd \in Seq(Octets) /\ Len(cmd) = 1
    BY <1>1, <2>1, NumberField
  <2>3. addr \in Seq(Octets) /\ Len(addr) = 3 /\ ToNumber(Field(addr)) = r.addr
    BY <1>1, <2>1, NumberField
  <2>4. len \in Seq(Octets) /\ Len(len) = 2 /\ ToNumber(Field(len)) = r.len
    BY <1>1, <2>1, NumberField
  <2>5. ToNumber(cmd[1]) = r.cmd
    BY <1>1, ByteNumber
  <2>6. QED
    BY <2>2, <2>3, <2>4, <2>5
<1>3. data \in Seq(Octets) /\ Len(data) = 2 * L /\ L \in Nat /\ Joined(data) = r.data
  BY <1>1, SplitBytes, SplitRoundTrip, LenProperties
<1> DEFINE H1 == Magic \o cmd
           H2 == H1 \o addr
           H3 == H2 \o len
           body == H3 \o data
           p == Sealed(body, crc16_host(body))
           end == 8 + 2 * L
<1>4. BuildPacket(r) = p
  BY DEF BuildPacket
<1> HIDE DEF cmd, addr, len, data, L
<1>5. /\ H1 \in Seq(Octets) /\ Len(H1) = 3 /\ SubSeq(H1, 1, 2) = Magic /\ H1[3] = cmd[1]
  <2>1. Appends(H1, Magic, 2, cmd, 3)
    BY <1>2, MagicBytes DEF Appends
  <2> HIDE DEF H1
  <2>2. Parts(H1, Magic, 2, cmd, 3)
    BY <2>1, Appended
  <2>3. /\ H1 \in Seq(Octets) /\ Len(H1) = 3
        /\ \A i \in Nat \ {0}, j \in Nat : j <= 2 => SubSeq(H1, i, j) = SubSeq(Magic, i, j)
        /\ \A i \in 1 .. 3 : H1[i] = IF i <= 2 THEN Magic[i] ELSE cmd[i - 2]
    BY <2>2 DEF Parts
  <2>4. SubSeq(H1, 1, 2) = Magic
    BY <2>3, MagicBytes, SubSeqFull
  <2>5. H1[3] = cmd[3 - 2] /\ 3 - 2 = 1
    BY <2>3
  <2>6. QED
    BY <2>3, <2>4, <2>5
<1> HIDE DEF H1
<1>6. /\ H2 \in Seq(Octets) /\ Len(H2) = 6 /\ SubSeq(H2, 1, 2) = Magic /\ H2[3] = cmd[1]
      /\ SubSeq(H2, 4, 6) = addr
  <2>1. Appends(H2, H1, 3, addr, 6)
    BY <1>2, <1>5 DEF Appends
  <2> HIDE DEF H2
  <2>2. Parts(H2, H1, 3, addr, 6)
    BY <2>1, Appended
  <2>3. /\ H2 \in Seq(Octets) /\ Len(H2) = 6 /\ SubSeq(H2, 3 + 1, 6) = addr
        /\ \A i \in Nat \ {0}, j \in Nat : j <= 3 => SubSeq(H2, i, j) = SubSeq(H1, i, j)
        /\ \A i \in 1 .. 6 : H2[i] = IF i <= 3 THEN H1[i] ELSE addr[i - 3]
    BY <2>2 DEF Parts
  <2>4. SubSeq(H2, 1, 2) = SubSeq(H1, 1, 2) /\ H2[3] = H1[3] /\ SubSeq(H2, 4, 6) = addr
    BY <2>3
  <2>5. QED
    BY <1>5, <2>3, <2>4
<1> HIDE DEF H2
<1>7. /\ H3 \in Seq(Octets) /\ Len(H3) = 8 /\ SubSeq(H3, 1, 2) = Magic /\ H3[3] = cmd[1]
      /\ SubSeq(H3, 4, 6) = addr /\ SubSeq(H3, 7, 8) = len
  <2>1. Appends(H3, H2, 6, len, 8)
    BY <1>2, <1>6 DEF Appends
  <2> HIDE DEF H3
  <2>2. Parts(H3, H2, 6, len, 8)
    BY <2>1, Appended
  <2>3. /\ H3 \in Seq(Octets) /\ Len(H3) = 8 /\ SubSeq(H3, 6 + 1, 8) = len
        /\ \A i \in Nat \ {0}, j \in Nat : j <= 6 => SubSeq(H3, i, j) = SubSeq(H2, i, j)
        /\ \A i \in 1 .. 8 : H3[i] = IF i <= 6 THEN H2[i] ELSE len[i - 6]
    BY <2>2 DEF Parts
  <2>4. /\ SubSeq(H3, 1, 2) = SubSeq(H2, 1, 2) /\ H3[3] = H2[3]
        /\ SubSeq(H3, 4, 6) = SubSeq(H2, 4, 6) /\ SubSeq(H3, 7, 8) = len
    BY <2>3
  <2>5. QED
    BY <1>6, <2>3, <2>4
<1> HIDE DEF H3
<1>8. /\ body \in Seq(Octets) /\ Len(body) = end /\ SubSeq(body, 1, 2) = Magic
      /\ body[3] = cmd[1] /\ SubSeq(body, 4, 6) = addr /\ SubSeq(body, 7, 8) = len
      /\ SubSeq(body, 9, end) = data
  <2>1. Appends(body, H3, 8, data, end) /\ end \in Nat /\ end >= 8
    BY <1>3, <1>7 DEF Appends
  <2> HIDE DEF body, end
  <2>2. Parts(body, H3, 8, data, end)
    BY <2>1, Appended
  <2>3. /\ body \in Seq(Octets) /\ Len(body) = end /\ SubSeq(body, 8 + 1, end) = data
        /\ \A i \in Nat \ {0}, j \in Nat : j <= 8 => SubSeq(body, i, j) = SubSeq(H3, i, j)
        /\ \A i \in 1 .. end : body[i] = IF i <= 8 THEN H3[i] ELSE data[i - 8]
    BY <2>2 DEF Parts
  <2>4. /\ SubSeq(body, 1, 2) = SubSeq(H3, 1, 2) /\ body[3] = H3[3]
        /\ SubSeq(body, 4, 6) = SubSeq(H3, 4, 6) /\ SubSeq(body, 7, 8) = SubSeq(H3, 7, 8)
        /\ SubSeq(body, 9, end) = data
    BY <2>1, <2>3
  <2>5. QED
    BY <1>7, <2>3, <2>4
<1>9. end \in Nat /\ end >= 8
  BY <1>3
<1> HIDE DEF body, end
<1>10. crc16_host(body) \in Registers /\ crc16_firmware(body) = crc16_host(body)
  BY <1>8, ChecksumsAgree
<1>11. /\ p \in Seq(Octets) /\ Len(p) = end + 2 /\ SubSeq(p, 1, 2) = Magic
       /\ p[3] = cmd[1] /\ SubSeq(p, 4, 6) = addr /\ SubSeq(p, 7, 8) = len
       /\ SubSeq(p, 9, end) = data /\ SubSeq(p, 1, end) = body
       /\ Fits(crc16_host(body), p, end)
  <2> HIDE DEF p
  <2>1. /\ p \in Seq(Octets) /\ Len(p) = end + 2 /\ SubSeq(p, 1, end) = body
        /\ Fits(crc16_host(body), p, end)
        /\ \A i \in Nat \ {0}, j \in Nat : j <= end => SubSeq(p, i, j) = SubSeq(body, i, j)
        /\ \A i \in 1 .. end : p[i] = body[i]
    <3>1. p = Sealed(body, crc16_host(body)) /\ Len(body) = end
      BY <1>8 DEF p
    <3>2. /\ Sealed(body, crc16_host(body)) \in Seq(Octets)
          /\ Len(Sealed(body, crc16_host(body))) = Len(body) + 2
          /\ SubSeq(Sealed(body, crc16_host(body)), 1, Len(body)) = body
          /\ Fits(crc16_host(body), Sealed(body, crc16_host(body)), Len(body))
          /\ \A i \in Nat \ {0}, j \in Nat : j <= Len(body) =>
               SubSeq(Sealed(body, crc16_host(body)), i, j) = SubSeq(body, i, j)
          /\ \A i \in 1 .. Len(body) : Sealed(body, crc16_host(body))[i] = body[i]
      BY <1>8, <1>10, SealedBody
    <3>3. QED
      BY <3>1, <3>2
  <2>2. /\ SubSeq(p, 1, 2) = SubSeq(body, 1, 2) /\ p[3] = body[3]
        /\ SubSeq(p, 4, 6) = SubSeq(body, 4, 6) /\ SubSeq(p, 7, 8) = SubSeq(body, 7, 8)
        /\ SubSeq(p, 9, end) = SubSeq(body, 9, end)
    BY <1>9, <2>1
  <2>3. QED
    BY <1>8, <2>1, <2>2
<1> HIDE DEF p
<1>12. 8 + (IF r.cmd = CMD_PROGRAM THEN 2 * r.len ELSE 0) = end
  BY <1>1 DEF end
<1>13. Parsed(p) = [status |-> STATUS.OK,
                    request |-> [cmd |-> r.cmd, addr |-> r.addr, len |-> r.len,
                                 data |-> r.data]]
  <2>1. ~(r.len > MAX_WORDS_PER_CMD) /\ ~(Len(p) < end + 2)
    <3>1. ~(r.len > MAX_WORDS_PER_CMD)
      BY <1>1
    <3>2. ~(Len(p) < end + 2)
      BY <1>9, <1>11
    <3>3. QED
      BY <3>1, <3>2
  <2>2. QED
    BY <1>2, <1>3, <1>10, <1>11, <1>12, <2>1 DEF Parsed
<1>14. QED
  BY <1>1, <1>4, <1>11, <1>13

\* What send_response() is called with.
Answers == {a \in [status : 0 .. 255, data : Seq(SUBSET Width)] : Len(a.data) <= MAX_WORDS_PER_CMD}

\* _recv_response() reads of an answer what send_response() has written.
LEMMA AnswerRoundTrip ==
  ASSUME NEW a \in Answers
  PROVE  SendResponse(a) \in Seq(Octets) /\ RecvResponse(SendResponse(a)) = a
<1> DEFINE L == Len(a.data)
           status == Number(a.status, 1)
           len == Number(L, 2)
           data == Split(a.data)
<1>1. /\ a = [status |-> a.status, data |-> a.data]
      /\ a.status \in Nat /\ a.status < 2 ^ 8
      /\ L \in Nat /\ L < 2 ^ 16 /\ a.data \in Seq(SUBSET Width)
  <2>1. /\ a \in [status : 0 .. 255, data : Seq(SUBSET Width)] /\ L <= MAX_WORDS_PER_CMD
        /\ MAX_WORDS_PER_CMD \in 0 .. 2 ^ 16 - 1
    BY PacketAssumption DEF Answers
  <2>2. /\ a = [status |-> a.status, data |-> a.data] /\ a.status \in 0 .. 255
        /\ a.data \in Seq(SUBSET Width)
    BY <2>1
  <2>3. L \in Nat
    BY <2>2, LenProperties
  <2> HIDE DEF L
  <2>4. MAX_WORDS_PER_CMD \in Nat
    BY <2>1, FieldRange
  <2>5. L \in 0 .. MAX_WORDS_PER_CMD
    BY <2>1, <2>3, <2>4
  <2>6. QED
    BY <2>1, <2>2, <2>3, <2>5, FieldRange
<1>2. /\ status \in Seq(Octets) /\ Len(status) = 1 /\ ToNumber(status[1]) = a.status
      /\ len \in Seq(Octets) /\ Len(len) = 2 /\ ToNumber(Field(len)) = L
  <2>1. 2 ^ (8 * 1) = 2 ^ 8 /\ 2 ^ (8 * 2) = 2 ^ 16
    OBVIOUS
  <2>2. status \in Seq(Octets) /\ Len(status) = 1
    BY <1>1, <2>1, NumberField
  <2>3. len \in Seq(Octets) /\ Len(len) = 2 /\ ToNumber(Field(len)) = L
    <3> HIDE DEF L
    <3>1. QED
      BY <1>1, <2>1, NumberField
  <2>4. ToNumber(status[1]) = a.status
    BY <1>1, ByteNumber
  <2>5. QED
    BY <2>2, <2>3, <2>4
<1>3. data \in Seq(Octets) /\ Len(data) = 2 * L /\ Joined(data) = a.data
  BY <1>1, SplitBytes, SplitRoundTrip
<1> DEFINE H1 == Magic \o status
           H2 == H1 \o len
           body == H2 \o data
           p == Sealed(body, crc16_firmware(body))
           end == 5 + 2 * L
<1>4. SendResponse(a) = p
  BY DEF SendResponse
<1> HIDE DEF status, len, data, L
<1>5. /\ H1 \in Seq(Octets) /\ Len(H1) = 3 /\ SubSeq(H1, 1, 2) = Magic /\ H1[3] = status[1]
  <2>1. Appends(H1, Magic, 2, status, 3)
    BY <1>2, MagicBytes DEF Appends
  <2> HIDE DEF H1
  <2>2. Parts(H1, Magic, 2, status, 3)
    BY <2>1, Appended
  <2>3. /\ H1 \in Seq(Octets) /\ Len(H1) = 3
        /\ \A i \in Nat \ {0}, j \in Nat : j <= 2 => SubSeq(H1, i, j) = SubSeq(Magic, i, j)
        /\ \A i \in 1 .. 3 : H1[i] = IF i <= 2 THEN Magic[i] ELSE status[i - 2]
    BY <2>2 DEF Parts
  <2>4. SubSeq(H1, 1, 2) = Magic
    BY <2>3, MagicBytes, SubSeqFull
  <2>5. H1[3] = status[3 - 2] /\ 3 - 2 = 1
    BY <2>3
  <2>6. QED
    BY <2>3, <2>4, <2>5
<1> HIDE DEF H1
<1>6. /\ H2 \in Seq(Octets) /\ Len(H2) = 5 /\ SubSeq(H2, 1, 2) = Magic /\ H2[3] = status[1]
      /\ SubSeq(H2, 4, 5) = len
  <2>1. Appends(H2, H1, 3, len, 5)
    BY <1>2, <1>5 DEF Appends
  <2> HIDE DEF H2
  <2>2. Parts(H2, H1, 3, len, 5)
    BY <2>1, Appended
  <2>3. /\ H2 \in Seq(Octets) /\ Len(H2) = 5 /\ SubSeq(H2, 3 + 1, 5) = len
        /\ \A i \in Nat \ {0}, j \in Nat : j <= 3 => SubSeq(H2, i, j) = SubSeq(H1, i, j)
        /\ \A i \in 1 .. 5 : H2[i] = IF i <= 3 THEN H1[i] ELSE len[i - 3]
    BY <2>2 DEF Parts
  <2>4. SubSeq(H2, 1, 2) = SubSeq(H1, 1, 2) /\ H2[3] = H1[3] /\ SubSeq(H2, 4, 5) = len
    BY <2>3
  <2>5. QED
    BY <1>5, <2>3, <2>4
<1> HIDE DEF H2
<1>7. /\ body \in Seq(Octets) /\ Len(body) = end /\ SubSeq(body, 1, 2) = Magic
      /\ body[3] = status[1] /\ SubSeq(body, 4, 5) = len /\ SubSeq(body, 6, end) = data
  <2>1. Appends(body, H2, 5, data, end) /\ end \in Nat /\ end >= 5
    BY <1>1, <1>3, <1>6 DEF Appends
  <2> HIDE DEF body, end
  <2>2. Parts(body, H2, 5, data, end)
    BY <2>1, Appended
  <2>3. /\ body \in Seq(Octets) /\ Len(body) = end /\ SubSeq(body, 5 + 1, end) = data
        /\ \A i \in Nat \ {0}, j \in Nat : j <= 5 => SubSeq(body, i, j) = SubSeq(H2, i, j)
        /\ \A i \in 1 .. end : body[i] = IF i <= 5 THEN H2[i] ELSE data[i - 5]
    BY <2>2 DEF Parts
  <2>4. /\ SubSeq(body, 1, 2) = SubSeq(H2, 1, 2) /\ body[3] = H2[3]
        /\ SubSeq(body, 4, 5) = SubSeq(H2, 4, 5) /\ SubSeq(body, 6, end) = data
    BY <2>1, <2>3
  <2>5. QED
    BY <1>6, <2>3, <2>4
<1>8. end \in Nat /\ end >= 5
  BY <1>1
<1> HIDE DEF body
<1>9. crc16_firmware(body) \in Registers /\ crc16_firmware(body) = crc16_host(body)
  BY <1>7, ChecksumsAgree
<1>10. /\ p \in Seq(Octets) /\ Len(p) = end + 2 /\ SubSeq(p, 1, 2) = Magic
       /\ p[3] = status[1] /\ SubSeq(p, 4, 5) = len /\ SubSeq(p, 6, end) = data
       /\ SubSeq(p, 1, end) = body /\ Fits(crc16_firmware(body), p, end)
  <2> HIDE DEF p, end
  <2>1. /\ p \in Seq(Octets) /\ Len(p) = end + 2 /\ SubSeq(p, 1, end) = body
        /\ Fits(crc16_firmware(body), p, end)
        /\ \A i \in Nat \ {0}, j \in Nat : j <= end => SubSeq(p, i, j) = SubSeq(body, i, j)
        /\ \A i \in 1 .. end : p[i] = body[i]
    <3>1. p = Sealed(body, crc16_firmware(body)) /\ Len(body) = end
      BY <1>7 DEF p
    <3>2. /\ Sealed(body, crc16_firmware(body)) \in Seq(Octets)
          /\ Len(Sealed(body, crc16_firmware(body))) = Len(body) + 2
          /\ SubSeq(Sealed(body, crc16_firmware(body)), 1, Len(body)) = body
          /\ Fits(crc16_firmware(body), Sealed(body, crc16_firmware(body)), Len(body))
          /\ \A i \in Nat \ {0}, j \in Nat : j <= Len(body) =>
               SubSeq(Sealed(body, crc16_firmware(body)), i, j) = SubSeq(body, i, j)
          /\ \A i \in 1 .. Len(body) : Sealed(body, crc16_firmware(body))[i] = body[i]
      BY <1>7, <1>9, SealedBody
    <3>3. QED
      BY <3>1, <3>2
  <2>2. /\ SubSeq(p, 1, 2) = SubSeq(body, 1, 2) /\ p[3] = body[3]
        /\ SubSeq(p, 4, 5) = SubSeq(body, 4, 5) /\ SubSeq(p, 6, end) = SubSeq(body, 6, end)
    BY <1>8, <2>1
  <2>3. QED
    BY <1>7, <2>1, <2>2
<1> HIDE DEF p
<1>11. RecvResponse(p) = [status |-> a.status, data |-> a.data]
  <2>1. ~(Len(p) < end + 2)
    <3> HIDE DEF end
    <3>1. QED
      BY <1>8, <1>10
  <2>2. QED
    BY <1>2, <1>3, <1>9, <1>10, <2>1 DEF RecvResponse
<1>12. QED
  BY <1>1, <1>4, <1>10, <1>11

-----------------------------------------------------------------------------
(* The invariant.                                                          *)

PacketInv ==
  /\ request \in Requests /\ wire \in Seq(Octets)
  /\ phase = "in" => reply \in Answers
  /\ flips = {} => /\ phase = "out" => wire = BuildPacket(request)
                   /\ phase = "in" => wire = SendResponse(reply)

\* Whatever arrives, a command that is carried out asks for no more than the buffer holds.
LEMMA ParsedBounds ==
  ASSUME NEW bytes, Parsed(bytes) # None
  PROVE  /\ Parsed(bytes).status \in 0 .. 255
         /\ Parsed(bytes).status = STATUS.OK =>
              Parsed(bytes).request.len \in 0 .. MAX_WORDS_PER_CMD
<1> DEFINE len == ToNumber(Field(SubSeq(bytes, 7, 8)))
           end == 8 + IF ToNumber(bytes[3]) = CMD_PROGRAM THEN 2 * len ELSE 0
           cmd == [cmd |-> ToNumber(bytes[3]), addr |-> ToNumber(Field(SubSeq(bytes, 4, 6))),
                   len |-> len, data |-> Joined(SubSeq(bytes, 9, end))]
<1>1. len \in Nat
  BY NumberSteps
<1>2. MAX_WORDS_PER_CMD \in Nat
  BY FieldRange, PacketAssumption
<1>3. \/ Parsed(bytes) = Failed(STATUS.ERROR)
      \/ Parsed(bytes) = Failed(STATUS.CRC_ERROR)
      \/ Parsed(bytes) = [status |-> STATUS.OK, request |-> cmd] /\ ~(len > MAX_WORDS_PER_CMD)
  BY DEF Parsed
<1>4. cmd.len = len
  OBVIOUS
<1> HIDE DEF cmd, len
<1>5. STATUS.OK = 0 /\ STATUS.ERROR = 1 /\ STATUS.CRC_ERROR = 3
  BY DEF STATUS
<1>6. CASE Parsed(bytes) = Failed(STATUS.ERROR)
  BY <1>5, <1>6 DEF Failed
<1>7. CASE Parsed(bytes) = Failed(STATUS.CRC_ERROR)
  BY <1>5, <1>7 DEF Failed
<1>8. CASE Parsed(bytes) = [status |-> STATUS.OK, request |-> cmd] /\ ~(len > MAX_WORDS_PER_CMD)
  <2>1. Parsed(bytes).status = 0 /\ Parsed(bytes).request = cmd
    BY <1>5, <1>8
  <2>2. len \in 0 .. MAX_WORDS_PER_CMD
    BY <1>1, <1>2, <1>8
  <2>3. QED
    BY <1>4, <2>1, <2>2
<1>9. QED
  BY <1>3, <1>6, <1>7, <1>8

LEMMA PacketInit ==
  ASSUME Init
  PROVE  PacketInv
BY CommandRoundTrip DEF Init, PacketInv

LEMMA PacketStep ==
  ASSUME PacketInv, [Next]_vars
  PROVE  PacketInv'
<1>1. CASE Flip
  <2>1. PICK n \in DOMAIN wire, b \in 0 .. 7 :
          /\ wire' = [wire EXCEPT ![n] = SymDiff(@, {b})]
          /\ flips' = flips \cup {8 * n + b}
    BY <1>1 DEF Flip
  <2>2. wire \in Seq(Octets) /\ n \in 1 .. Len(wire) /\ wire[n] \in Octets
    BY LenProperties, ElementOfSeq DEF PacketInv
  <2>3. SymDiff(wire[n], {b}) \in Octets
    BY <2>2 DEF SymDiff, Octets
  <2>4. wire' \in Seq(Octets)
    BY <2>1, <2>2, <2>3, ExceptSeq
  <2>5. QED
    BY <1>1, <2>1, <2>4 DEF PacketInv, Flip
<1>2. CASE ProtocolTask
  <2>1. CASE got' = None
    BY <1>2, <2>1, EmptySeq DEF ProtocolTask, PacketInv
  <2>2. CASE got' # None
    <3>1. reply' \in Answers
      <4> DEFINE data == IF got'.status = STATUS.OK /\ got'.request.cmd = CMD_READ
                         THEN SubSeq(FlashWords, 1, got'.request.len) ELSE <<>>
      <4>1. got' = Parsed(wire) /\ reply' = [status |-> got'.status, data |-> data]
        BY <1>2, <2>2 DEF ProtocolTask
      <4>2. /\ got'.status \in 0 .. 255
            /\ got'.status = STATUS.OK => got'.request.len \in 0 .. MAX_WORDS_PER_CMD
        BY <2>2, <4>1, ParsedBounds
      <4>3. MAX_WORDS_PER_CMD \in Nat
        BY FieldRange, PacketAssumption
      <4>4. ASSUME NEW n \in 0 .. MAX_WORDS_PER_CMD
            PROVE  /\ SubSeq(FlashWords, 1, n) \in Seq(SUBSET Width)
                   /\ Len(SubSeq(FlashWords, 1, n)) = n
        <5> DEFINE l == Len(FlashWords)
        <5>1. /\ FlashWords \in Seq(SUBSET Width) /\ l \in Nat
              /\ n \in Int /\ n <= l
          <6>1. FlashWords \in Seq(SUBSET Width) /\ l \in Nat /\ l >= MAX_WORDS_PER_CMD
            BY LenProperties, PacketAssumption
          <6> HIDE DEF l
          <6>2. QED
            BY <4>3, <6>1
        <5>2. \A i \in 1 .. n : FlashWords[i] \in SUBSET Width
          BY <5>1, ElementOfSeq
        <5>3. /\ SubSeq(FlashWords, 1, n) \in Seq(SUBSET Width)
              /\ Len(SubSeq(FlashWords, 1, n)) = IF 1 <= n THEN n - 1 + 1 ELSE 0
          BY <5>1, <5>2, SubSeqProperties
        <5>4. QED
          BY <4>3, <5>3
      <4>5. data \in Seq(SUBSET Width) /\ Len(data) <= MAX_WORDS_PER_CMD
        <5>1. CASE got'.status = STATUS.OK /\ got'.request.cmd = CMD_READ
          <6>1. got'.request.len \in 0 .. MAX_WORDS_PER_CMD
            BY <4>2, <5>1
          <6> DEFINE n == got'.request.len
          <6>2. data = SubSeq(FlashWords, 1, n)
            BY <5>1
          <6> HIDE DEF n, data
          <6>3. n \in 0 .. MAX_WORDS_PER_CMD
            BY <6>1 DEF n
          <6>4. QED
            BY <4>3, <4>4, <6>2, <6>3
        <5>2. CASE ~(got'.status = STATUS.OK /\ got'.request.cmd = CMD_READ)
          <6>1. data = <<>>
            BY <5>2
          <6> HIDE DEF data
          <6>2. data \in Seq(SUBSET Width) /\ Len(data) = 0
            BY <6>1, EmptySeq
          <6>3. QED
            BY <4>3, <6>2
        <5>3. QED
          BY <5>1, <5>2
      <4> HIDE DEF data
      <4>6. QED
        BY <4>1, <4>2, <4>5 DEF Answers
    <3>2. SendResponse(reply') \in Seq(Octets)
      BY <3>1, AnswerRoundTrip
    <3>3. /\ wire' = SendResponse(reply') /\ phase' = "in" /\ request' = request
      BY <1>2, <2>2 DEF ProtocolTask
    <3>4. QED
      BY <3>1, <3>2, <3>3 DEF PacketInv
  <2>3. QED
    BY <2>1, <2>2
<1>3. CASE Receive
  BY <1>3, EmptySeq DEF Receive, PacketInv
<1>4. CASE NextCall
  BY <1>4, CommandRoundTrip DEF NextCall, PacketInv
<1>5. CASE UNCHANGED vars
  BY <1>5 DEF vars, PacketInv
<1>6. QED
  BY <1>1, <1>2, <1>3, <1>4, <1>5 DEF Next

LEMMA PacketInvariance == Spec => []PacketInv
<1>1. Init => PacketInv
  BY PacketInit
<1>2. PacketInv /\ [Next]_vars => PacketInv'
  BY PacketStep
<1>3. QED
  BY <1>1, <1>2, PTL DEF Spec

\* For every request, every contents of the flash and every length: a packet no bit of
\* which has flipped is taken for what it was, a command by protocol_task() as an answer by
\* _recv_response(): the places, the widths and the byte orders of all fields, the payload
\* and the checksum are the same on both sides (meggy_flash.py:224-262;
\* protocol.c:101-182).
THEOREM FormatsAgree == Spec => []Intact
<1>1. PacketInv => Intact
  BY CommandRoundTrip, AnswerRoundTrip DEF PacketInv, Intact
<1>2. QED
  BY <1>1, PacketInvariance, PTL

-----------------------------------------------------------------------------
(* The checksum is a remainder.                                            *)

\* One term of the division.
Divided(p, top) == IF top \in p THEN SymDiff(p, Shifted(Poly \cup {16}, top - 16)) ELSE p

LEMMA DividedBits ==
  ASSUME NEW p \in SUBSET Int, NEW top \in Int
  PROVE  /\ Divided(p, top) \in SUBSET Int
         /\ \A e \in Int : e \in Divided(p, top) <=>
              ~(e \in p <=> (top \in p /\ e - (top - 16) \in {16, 12, 5, 0}))
<1> DEFINE d == top - 16
<1>1. d \in Int /\ Poly \cup {16} = {16, 12, 5, 0}
  BY DEF Poly
<1> HIDE DEF d
<1>2. /\ Shifted({16, 12, 5, 0}, d) \in SUBSET Int
      /\ \A e \in Int : e \in Shifted({16, 12, 5, 0}, d) <=> e - d \in {16, 12, 5, 0}
  <2>1. {16, 12, 5, 0} \in SUBSET Int
    OBVIOUS
  <2>2. QED
    BY <1>1, <2>1, ShiftedBits
<1>3. Divided(p, top) = IF top \in p THEN SymDiff(p, Shifted({16, 12, 5, 0}, d)) ELSE p
  BY <1>1 DEF Divided, d
<1>4. QED
  BY <1>2, <1>3 DEF SymDiff, d

LEMMA DivisionSteps ==
  ASSUME NEW n \in Nat, NEW p \in SUBSET Int
  PROVE  \E left \in [0 .. n -> SUBSET Int] :
           /\ Remainder(p, n + 15) = left[n] /\ left[0] = p
           /\ \A k \in 1 .. n : left[k] = Divided(left[k - 1], n + 16 - k)
<1> DEFINE Next1(k, d) == Divided(d, n + 16 - k)
           G == [k \in 1 .. n |-> [d \in SUBSET Int |-> Next1(k, d)]]
           Is(f) == f = [k \in 0 .. n |-> IF k = 0 THEN p ELSE Next1(k, f[k - 1])]
           c == CHOOSE f : Is(f)
<1>1. Remainder(p, n + 15) = c[n]
  <2>1. (n + 15) - 15 = n /\ \A k \in 0 .. n : (n + 15) + 1 - k = n + 16 - k
    OBVIOUS
  <2> DEFINE Was(f) == f = [k \in 0 .. (n + 15) - 15 |->
                              IF k = 0 THEN p ELSE Divided(f[k - 1], (n + 15) + 1 - k)]
  <2>2. Remainder(p, n + 15) = (CHOOSE f : Was(f))[(n + 15) - 15]
    BY DEF Remainder, Divided
  <2>3. ASSUME NEW f PROVE Was(f) <=> Is(f)
    BY <2>1
  <2>4. (CHOOSE f : Was(f)) = c
    BY <2>3
  <2>5. QED
    BY <2>1, <2>2, <2>4
<1>2. \A k \in 1 .. n, d \in SUBSET Int : Next1(k, d) \in SUBSET Int
  <2>1. \A k \in 1 .. n : n + 16 - k \in Int
    OBVIOUS
  <2>2. QED
    BY <2>1, DividedBits
<1>3. \A k \in 1 .. n, d \in SUBSET Int : G[k][d] = Next1(k, d)
  OBVIOUS
<1> HIDE DEF G, Next1
<1>4. PICK f \in [0 .. n -> SUBSET Int] : Steps(f, p, G, n)
  <2>1. Closed(SUBSET Int, G, n)
    BY <1>2, <1>3 DEF Closed
  <2>2. QED
    BY <2>1, Recursion
<1>5. \A k \in 0 .. n : k # 0 => k \in 1 .. n /\ k - 1 \in 0 .. n
  OBVIOUS
<1>6. \A k \in 0 .. n : f[k] = IF k = 0 THEN p ELSE Next1(k, f[k - 1])
  BY <1>3, <1>4, <1>5 DEF Steps
<1>7. Is(f)
  BY <1>6
<1>8. Is(c)
  BY <1>7
<1> HIDE DEF c
<1>9. /\ \A k \in 0 .. n : c[k] = IF k = 0 THEN p ELSE Next1(k, c[k - 1])
      /\ c = [k \in 0 .. n |-> c[k]]
  BY <1>8
<1>10. \A k \in 0 .. n : c[k] \in SUBSET Int
  <2> DEFINE S == {k \in 0 .. n : c[k] \in SUBSET Int}
  <2>1. 0 \in S
    <3>1. 0 \in 0 .. n
      OBVIOUS
    <3>2. c[0] = IF 0 = 0 THEN p ELSE Next1(0, c[0 - 1])
      BY <1>9, <3>1
    <3>3. c[0] = p
      BY <3>2
    <3>4. QED
      BY <3>1, <3>3
  <2>2. ASSUME NEW k \in 1 .. n, k - 1 \in S PROVE k \in S
    <3>1. k \in 0 .. n /\ k # 0 /\ c[k - 1] \in SUBSET Int
      BY <2>2
    <3>2. c[k] = Next1(k, c[k - 1])
      BY <1>9, <3>1
    <3>3. QED
      BY <1>2, <3>1, <3>2
  <2> HIDE DEF S
  <2>3. \A k \in 0 .. n : k \in S
    BY <2>1, <2>2, Kept
  <2>4. QED
    BY <2>3 DEF S
<1>11. c \in [0 .. n -> SUBSET Int]
  BY <1>9, <1>10
<1>12. c[0] = p /\ \A k \in 1 .. n : c[k] = Next1(k, c[k - 1])
  <2>1. 0 \in 0 .. n /\ \A k \in 1 .. n : k \in 0 .. n /\ k # 0
    OBVIOUS
  <2>2. QED
    BY <1>9, <2>1
<1>13. QED
  BY <1>1, <1>11, <1>12 DEF Next1

\* What the division has left of a message M: the register, its lowest bit at term m, and
\* of the message the l bits that have not entered it.
LeftOf(p, M, crc, m, l) ==
  \A e \in Int : e \in p <=> ~(e - m \in crc <=> (e - 16 \in M /\ e - 16 < l))

\* One shift of the register is one term of the division.
LEMMA ShiftDivides ==
  ASSUME NEW M, NEW p \in SUBSET Int, NEW crc \in Registers, NEW m \in Nat, NEW l \in Nat,
         l < m, LeftOf(p, M, crc, m, l)
  PROVE  LeftOf(Divided(p, m + 15), M, ShiftC[crc], m - 1, l)
<1> DEFINE q == Divided(p, m + 15)
           t == 15 \in crc
<1>1. \A e \in Int : e \in p <=> ~(e - m \in crc <=> (e - 16 \in M /\ e - 16 < l))
  BY DEF LeftOf
<1>2. m + 15 \in p <=> t
  <2>1. m + 15 \in Int /\ (m + 15) - m = 15 /\ ~((m + 15) - 16 < l)
    OBVIOUS
  <2>2. QED
    BY <1>1, <2>1
<1>3. \A e \in Int : e \in q <=> ~(e \in p <=> (t /\ e - (m - 1) \in {16, 12, 5, 0}))
  <2>1. m + 15 \in Int /\ (m + 15) - 16 = m - 1
    OBVIOUS
  <2>2. QED
    BY <1>2, <2>1, DividedBits
<1>4. \A e \in Int : e \in ShiftC[crc] <=>
        ~((e - 1 \in crc /\ e - 1 # 15) <=> (t /\ e \in {12, 5, 0}))
  <2>1. crc \in SUBSET Int /\ \A e \in crc : e \in 0 .. 15
    BY DEF Registers, Width
  <2>2. \A e \in Int : e \in Shifted(crc, 1) <=> e - 1 \in crc
    BY <2>1, ShiftedBits
  <2>3. \A e \in Int : e \in Shifted(crc, 1) \cap Width <=> e - 1 \in crc /\ e - 1 # 15
    BY <2>1, <2>2 DEF Width
  <2>4. ShiftC[crc] = IF t THEN SymDiff(Shifted(crc, 1) \cap Width, {12, 5, 0})
                      ELSE Shifted(crc, 1) \cap Width
    BY DEF ShiftC, Registers, Poly
  <2>5. QED
    BY <2>3, <2>4 DEF SymDiff
<1> HIDE DEF q, t
<1>5. ASSUME NEW e \in Int
      PROVE  e \in q <=> ~(e - (m - 1) \in ShiftC[crc] <=> (e - 16 \in M /\ e - 16 < l))
  <2> DEFINE f == e - (m - 1)
  <2>1. f \in Int /\ f - 1 = e - m
    OBVIOUS
  <2>2. f \in ShiftC[crc] <=> ~((e - m \in crc /\ e - m # 15) <=> (t /\ f \in {12, 5, 0}))
    BY <1>4, <2>1
  <2>3. e \in q <=> ~(e \in p <=> (t /\ f \in {16, 12, 5, 0}))
    BY <1>3
  <2>4. e - m = 15 <=> f = 16
    OBVIOUS
  <2>5. e - m = 15 => (e - m \in crc <=> t)
    BY DEF t
  <2>6. e \in p <=> ~(e - m \in crc <=> (e - 16 \in M /\ e - 16 < l))
    BY <1>1
  <2> DEFINE inCrc == e - m \in crc
             rest == e - 16 \in M /\ e - 16 < l
             top == f = 16
             low == f \in {12, 5, 0}
  <2>7. /\ f \in {16, 12, 5, 0} <=> top \/ low
        /\ ~(top /\ low)
    OBVIOUS
  <2> HIDE DEF f, inCrc, rest, top, low
  <2>8. /\ f \in ShiftC[crc] <=> ~((inCrc /\ ~top) <=> (t /\ low))
        /\ e \in q <=> ~(e \in p <=> (t /\ (top \/ low)))
        /\ top => (inCrc <=> t)
        /\ e \in p <=> ~(inCrc <=> rest)
    BY <2>2, <2>3, <2>4, <2>5, <2>6, <2>7 DEF inCrc, rest, top, low
  <2>9. e \in q <=> ~(f \in ShiftC[crc] <=> rest)
    BY <2>7, <2>8
  <2>10. QED
    BY <2>9 DEF f, rest
<1>6. QED
  BY <1>5 DEF LeftOf, q

\* A byte that enters the register is taken off the message.
LEMMA EnteringByte ==
  ASSUME NEW M \in SUBSET Int, NEW p \in SUBSET Int, NEW crc \in Registers,
         NEW byte \in Octets, NEW l \in Nat, LeftOf(p, M, crc, l, l),
         \A i \in l - 8 .. l - 1 : i \in M <=> i - (l - 8) \in byte
  PROVE  LeftOf(p, M, Entered(crc, byte), l, l - 8)
<1>1. ASSUME NEW e \in Int
      PROVE  e \in p <=> ~(e - l \in Entered(crc, byte) <=> (e - 16 \in M /\ e - 16 < l - 8))
  <2>1. e \in p <=> ~(e - l \in crc <=> (e - 16 \in M /\ e - 16 < l))
    BY DEF LeftOf
  <2>2. e - l \in Entered(crc, byte) <=> ~(e - l \in crc <=> (e - l) - 8 \in byte)
    BY EnteredType
  <2>3. (e - l) - 8 = (e - 16) - (l - 8) /\ e - 16 \in Int
    OBVIOUS
  <2>4. CASE e - 16 \in l - 8 .. l - 1
    <3>1. e - 16 \in M <=> (e - l) - 8 \in byte
      BY <2>3, <2>4
    <3>2. e - 16 < l /\ ~(e - 16 < l - 8)
      BY <2>4
    <3>3. QED
      BY <2>1, <2>2, <3>1, <3>2
  <2>5. CASE e - 16 \notin l - 8 .. l - 1
    <3>1. (e - l) - 8 \notin 0 .. 7
      BY <2>5
    <3>2. (e - l) - 8 \notin byte
      BY <3>1 DEF Octets
    <3>3. e - 16 < l <=> e - 16 < l - 8
      BY <2>5
    <3>4. QED
      BY <2>1, <2>2, <3>2, <3>3
  <2>6. QED
    BY <2>4, <2>5
<1>2. QED
  BY <1>1 DEF LeftOf

\* Which byte a bit of a message is in.
LEMMA MessageBits ==
  ASSUME NEW bytes \in Seq(Octets)
  PROVE  /\ Field(bytes) \in SUBSET (0 .. 8 * Len(bytes) - 1)
         /\ \A n \in 1 .. Len(bytes) :
              \A i \in 8 * (Len(bytes) - n) .. 8 * (Len(bytes) - n) + 7 :
                i \in Field(bytes) <=> i - 8 * (Len(bytes) - n) \in bytes[n]
<1> DEFINE N == Len(bytes)
<1>1. N \in Nat /\ \A n \in 1 .. N : bytes[n] \in Octets
  BY LenProperties, ElementOfSeq
<1>2. /\ Field(bytes) \in SUBSET Nat
      /\ \A e \in Int : e \in Field(bytes) <=> \E n \in 1 .. N : e - 8 * (N - n) \in bytes[n]
  BY FieldBits
<1> HIDE DEF N
<1>3. \A e \in Int, n \in 1 .. N : e - 8 * (N - n) \in bytes[n] => e - 8 * (N - n) \in 0 .. 7
  BY <1>1 DEF Octets
<1>4. ASSUME NEW e \in Field(bytes) PROVE e \in 0 .. 8 * N - 1
  <2>1. e \in Int /\ e \in Nat
    BY <1>2
  <2>2. PICK n \in 1 .. N : e - 8 * (N - n) \in bytes[n]
    BY <1>2, <2>1
  <2>3. e - 8 * (N - n) \in 0 .. 7
    BY <1>3, <2>1, <2>2
  <2>4. e < 8 * N
    BY <1>1, <2>1, <2>3
  <2>5. QED
    BY <1>1, <2>1, <2>4
<1>5. ASSUME NEW n \in 1 .. N, NEW i \in 8 * (N - n) .. 8 * (N - n) + 7
      PROVE  i \in Field(bytes) <=> i - 8 * (N - n) \in bytes[n]
  <2>1. i \in Int
    BY <1>1
  <2>2. ASSUME NEW k \in 1 .. N, i - 8 * (N - k) \in bytes[k] PROVE k = n
    <3>1. i - 8 * (N - k) \in 0 .. 7
      BY <1>3, <2>1, <2>2
    <3>2. QED
      BY <1>1, <3>1
  <2>3. QED
    BY <1>2, <2>1, <2>2
<1>6. QED
  BY <1>4, <1>5 DEF N

\* Where the b-th shift of a byte is.
LEMMA StepNumbers ==
  ASSUME NEW n \in Nat, NEW k \in Nat, k + 8 <= n, NEW b \in 1 .. 8
  PROVE  /\ n - k - (b - 1) \in Nat /\ n - k - 8 \in Nat /\ n - k - 8 < n - k - (b - 1)
         /\ n - k - (b - 1) - 1 = n - k - b /\ n - k - (b - 1) + 15 = n + 16 - (k + b)
         /\ k + b \in 1 .. n /\ (k + b) - 1 = k + (b - 1) /\ (k + b) - 1 \in 0 .. n
         /\ b - 1 \in 0 .. 8
OBVIOUS

\* Eight shifts are eight terms.
LEMMA ByteDivides ==
  ASSUME NEW M \in SUBSET Int, NEW n \in Nat, NEW left \in [0 .. n -> SUBSET Int],
         NEW k \in Nat, k + 8 <= n,
         \A j \in 1 .. n : left[j] = Divided(left[j - 1], n + 16 - j),
         NEW crc \in Registers, LeftOf(left[k], M, crc, n - k, n - k - 8)
  PROVE  LeftOf(left[k + 8], M, Through(ShiftC, crc), n - k - 8, n - k - 8)
<1>1. PICK bit \in [0 .. 8 -> Registers] :
        /\ Through(ShiftC, crc) = bit[8] /\ bit[0] = crc
        /\ \A b \in 1 .. 8 : bit[b] = ShiftC[bit[b - 1]]
  BY ShiftsAgree, ThroughSteps
<1> DEFINE l == n - k - 8
           Good(b) == LeftOf(left[k + b], M, bit[b], n - k - b, l)
           S == {b \in 0 .. 8 : Good(b)}
<1>2. 0 \in S
  <2>1. k + 0 = k /\ n - k - 0 = n - k
    OBVIOUS
  <2>2. Good(0)
    BY <1>1, <2>1
  <2>3. QED
    BY <2>2
<1>3. ASSUME NEW b \in 1 .. 8, b - 1 \in S PROVE b \in S
  <2> DEFINE m == n - k - (b - 1)
             j == k + b
             p == left[k + (b - 1)]
  <2>1. /\ m \in Nat /\ l \in Nat /\ l < m /\ m - 1 = n - k - b /\ m + 15 = n + 16 - j
        /\ j \in 1 .. n /\ j - 1 = k + (b - 1) /\ j - 1 \in 0 .. n /\ b - 1 \in 0 .. 8
    BY StepNumbers
  <2>2. p \in SUBSET Int /\ bit[b - 1] \in Registers
    BY <2>1
  <2>3. LeftOf(p, M, bit[b - 1], m, l)
    BY <1>3
  <2>4. left[j] = Divided(p, m + 15)
    <3>1. left[j] = Divided(left[j - 1], n + 16 - j)
      BY <2>1
    <3>2. QED
      BY <2>1, <3>1
  <2>5. bit[b] = ShiftC[bit[b - 1]]
    BY <1>1
  <2> HIDE DEF m, l, p, j
  <2>6. LeftOf(Divided(p, m + 15), M, ShiftC[bit[b - 1]], m - 1, l)
    BY <2>1, <2>2, <2>3, ShiftDivides
  <2>7. Good(b)
    BY <2>1, <2>4, <2>5, <2>6 DEF j
  <2>8. QED
    BY <2>7
<1> HIDE DEF S
<1>4. 8 \in S
  BY <1>2, <1>3, Kept
<1>5. LeftOf(left[k + 8], M, bit[8], n - k - 8, n - k - 8)
  BY <1>4 DEF S
<1>6. QED
  BY <1>1, <1>5

\* The text that is divided: the message and, on its first bits, the register's ones.
Text(bytes) == SymDiff(Shifted(Field(bytes), 16), Shifted(Width, 8 * Len(bytes)))

\* For every message: what the loops over bytes and bits leave in the register is the
\* remainder of the long division.
LEMMA CrcDivides ==
  ASSUME NEW bytes \in Seq(Octets)
  PROVE  crc16_firmware(bytes) = Remainder(Text(bytes), 8 * Len(bytes) + 15)
<1> DEFINE N == Len(bytes)
           n == 8 * N
           M == Field(bytes)
           text == Text(bytes)
<1>1. N \in Nat /\ n \in Nat /\ \A j \in 1 .. N : bytes[j] \in Octets
  BY LenProperties, ElementOfSeq
<1>2. /\ M \in SUBSET (0 .. n - 1)
      /\ \A j \in 1 .. N : \A i \in 8 * (N - j) .. 8 * (N - j) + 7 :
           i \in M <=> i - 8 * (N - j) \in bytes[j]
  BY MessageBits
<1>3. PICK feed \in [0 .. N -> Registers] :
        /\ Crc(ShiftC, bytes) = feed[N] /\ feed[0] = Width
        /\ \A j \in 1 .. N : feed[j] = Through(ShiftC, Entered(feed[j - 1], bytes[j]))
  BY ShiftsAgree, CrcSteps
<1> HIDE DEF N, M
<1>4. M \in SUBSET Int /\ \A i \in M : i \in 0 .. n - 1
  BY <1>1, <1>2
<1>5. /\ text \in SUBSET Int
      /\ \A e \in Int : e \in text <=> ~(e - 16 \in M <=> e - n \in Width)
  <2>1. Width \in SUBSET Int /\ n \in Int
    BY <1>1 DEF Width
  <2> HIDE DEF n
  <2>2. /\ Shifted(M, 16) \in SUBSET Int /\ Shifted(Width, n) \in SUBSET Int
        /\ \A e \in Int : e \in Shifted(M, 16) <=> e - 16 \in M
        /\ \A e \in Int : e \in Shifted(Width, n) <=> e - n \in Width
    <3>1. /\ Shifted(M, 16) \in SUBSET Int
          /\ \A e \in Int : e \in Shifted(M, 16) <=> e - 16 \in M
      BY <1>4, ShiftedBits
    <3>2. /\ Shifted(Width, n) \in SUBSET Int
          /\ \A e \in Int : e \in Shifted(Width, n) <=> e - n \in Width
      BY <2>1, ShiftedBits
    <3>3. QED
      BY <3>1, <3>2
  <2>3. text = SymDiff(Shifted(M, 16), Shifted(Width, n))
    BY DEF Text, M, n, N
  <2> HIDE DEF text
  <2>4. QED
    BY <2>2, <2>3 DEF SymDiff
<1> HIDE DEF text
<1>6. PICK left \in [0 .. n -> SUBSET Int] :
        /\ Remainder(text, n + 15) = left[n] /\ left[0] = text
        /\ \A k \in 1 .. n : left[k] = Divided(left[k - 1], n + 16 - k)
  BY <1>1, <1>5, DivisionSteps
<1> DEFINE Good(j) == LeftOf(left[8 * j], M, feed[j], n - 8 * j, n - 8 * j)
           S == {j \in 0 .. N : Good(j)}
<1>7. 0 \in S
  <2>1. n - 8 * 0 = n /\ 8 * 0 = 0 /\ \A e \in Int : e - 16 \in Int /\ e - n \in Int
    BY <1>1
  <2>2. \A e \in Int : e - 16 \in M => e - 16 < n
    BY <1>1, <1>4
  <2>3. Good(0)
    BY <1>3, <1>5, <1>6, <2>1, <2>2 DEF LeftOf
  <2>4. QED
    BY <1>1, <2>3
<1>8. ASSUME NEW j \in 1 .. N, j - 1 \in S PROVE j \in S
  <2> DEFINE k == 8 * (j - 1)
             l == n - k
             crc == Entered(feed[j - 1], bytes[j])
  <2>1. /\ k \in Nat /\ k + 8 <= n /\ k + 8 = 8 * j /\ l \in Nat /\ l - 8 = 8 * (N - j)
        /\ l - 8 = n - 8 * j /\ k \in 0 .. n /\ j - 1 \in 0 .. N
        /\ l - 1 = 8 * (N - j) + 7
    BY <1>1
  <2>2. left[k] \in SUBSET Int /\ feed[j - 1] \in Registers /\ bytes[j] \in Octets
    BY <1>1, <2>1
  <2>3. crc \in Registers
    BY <2>2, EnteredType
  <2>4. LeftOf(left[k], M, feed[j - 1], l, l)
    BY <1>8
  <2>5. \A i \in l - 8 .. l - 1 : i \in M <=> i - (l - 8) \in bytes[j]
    BY <1>2, <2>1
  <2>6. LeftOf(left[k], M, crc, l, l - 8)
    <3> HIDE DEF l, k
    <3>1. QED
      BY <1>4, <2>1, <2>2, <2>4, <2>5, EnteringByte
  <2>7. LeftOf(left[k + 8], M, Through(ShiftC, crc), n - k - 8, n - k - 8)
    <3>1. LeftOf(left[k], M, crc, n - k, n - k - 8)
      BY <2>6
    <3> HIDE DEF crc, k, n
    <3>2. QED
      BY <1>1, <1>4, <1>6, <2>1, <2>3, <3>1, ByteDivides
  <2>8. feed[j] = Through(ShiftC, crc) /\ n - k - 8 = n - 8 * j
    BY <1>3, <2>1
  <2>9. Good(j)
    BY <2>1, <2>7, <2>8
  <2>10. QED
    BY <2>9
<1> HIDE DEF S
<1>9. N \in S
  <2>1. \A j \in 0 .. N : j \in S
    <3> HIDE DEF n
    <3>1. QED
      BY <1>1, <1>7, <1>8, Kept
  <2>2. QED
    BY <1>1, <2>1
<1>10. LeftOf(left[n], M, feed[N], 0, 0)
  <2>1. n - 8 * N = 0
    BY <1>1
  <2>2. QED
    BY <1>9, <2>1 DEF S
<1>11. left[n] = feed[N]
  <2>0. n \in 0 .. n /\ N \in 0 .. N
    BY <1>1
  <2>1. left[n] \in SUBSET Int /\ feed[N] \in SUBSET Int
    <3>1. feed[N] \in Registers
      BY <2>0, <1>3
    <3>2. \A r \in Registers : \A e \in r : e \in Int
      BY DEF Registers, Width
    <3>3. left[n] \in SUBSET Int
      BY <2>0, <1>6
    <3>4. QED
      BY <3>1, <3>2, <3>3
  <2>2. \A e \in Int : ~(e - 16 \in M /\ e - 16 < 0) /\ e - 0 = e
    BY <1>4
  <2>3. \A e \in Int : e \in left[n] <=> e \in feed[N]
    BY <1>10, <2>2 DEF LeftOf
  <2>4. QED
    BY <2>1, <2>3
<1>12. QED
  BY <1>3, <1>6, <1>11 DEF crc16_firmware, text, n, N

\* For every sequence of bytes on the line, of any length and however many of its bits have
\* flipped: both sides' CRC is the remainder of the message and the register's initial
\* ones, times x^16, by x^16 + x^12 + x^5 + 1 (protocol.c:8, meggy_flash.py:102).
THEOREM ChecksumIsRemainder == Spec => []CrcIsRemainder
<1>1. ASSUME NEW bytes \in Seq(Octets)
      PROVE  {crc16_firmware(bytes), crc16_host(bytes)} =
               {Remainder(Text(bytes), 8 * Len(bytes) + 15)}
  BY CrcDivides, ChecksumsAgree
<1>2. PacketInv => CrcIsRemainder
  BY <1>1 DEF PacketInv, CrcIsRemainder, Text
<1>3. QED
  BY <1>2, PacketInvariance, PTL
=============================================================================

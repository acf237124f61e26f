--------------------------- MODULE FlashBusProofs ---------------------------
(***************************************************************************)
(* What FlashBus promises, for any width of the address, any buffers and   *)
(* any host.                                                               *)
(*                                                                         *)
(* A handler is a sequence of register writes, put together from those of  *)
(* the C functions.  Its effect is a walk: the states of the registers     *)
(* before the first write, between any two, and after the last.  A triple  *)
(* says of a sequence that it has a walk from every state of one set to a  *)
(* state of another, through states that keep the promises; triples are    *)
(* put together as the sequences are.                                      *)
(***************************************************************************)
EXTENDS FlashBus, SequenceTheorems, WellFoundedInduction, TLAPS

-----------------------------------------------------------------------------
(* Loops: what FlattenSeq() builds.                                        *)

LEMMA SetInduction ==
  ASSUME NEW S, 0 \in S, \A n \in Nat : n \in S => n + 1 \in S
  PROVE  Nat \subseteq S
<1> DEFINE R == OpToRel(<, Nat)
           T == {n \in Nat : n \notin S}
<1>1. IsWellFoundedOn(R, Nat)
  BY NatLessThanWellFounded
<1>2. \A x, y \in Nat : x < y => <<x, y>> \in R
  BY DEF OpToRel
<1>3. SUFFICES ASSUME T # {} PROVE FALSE
  OBVIOUS
<1> HIDE DEF R
<1>4. PICK x \in T : \A y \in T : ~ (<<y, x>> \in R)
  BY <1>1, <1>3, WFMin
<1>5. x \in Nat /\ x # 0 /\ x - 1 \in Nat /\ x - 1 < x
  BY <1>4
<1>6. <<x - 1, x>> \in R
  BY <1>2, <1>5
<1>7. x - 1 \notin T
  BY <1>4, <1>6
<1>8. QED
  BY <1>4, <1>5, <1>7

\* The sequences FlattenSeq() has put together after each block.
Flattens(f, seqs, n) ==
  f = [i \in 1 .. n |-> IF i = 1 THEN seqs[i] ELSE f[i - 1] \o seqs[i]]

LEMMA FlattenExists ==
  ASSUME NEW seqs
  PROVE  \A n \in Nat : \E f : Flattens(f, seqs, n)
<1> DEFINE S == {n \in Nat : \E f : Flattens(f, seqs, n)}
<1>1. 0 \in S
  <2>1. Flattens([i \in 1 .. 0 |-> 0], seqs, 0)
    BY DEF Flattens
  <2>2. QED
    BY <2>1
<1>2. ASSUME NEW n \in Nat, n \in S PROVE n + 1 \in S
  <2>1. PICK f : Flattens(f, seqs, n)
    BY <1>2
  <2> DEFINE g == [i \in 1 .. n + 1 |-> IF i = 1 THEN seqs[i] ELSE f[i - 1] \o seqs[i]]
  <2>2. \A i \in 1 .. n : f[i] = IF i = 1 THEN seqs[i] ELSE f[i - 1] \o seqs[i]
    BY <2>1 DEF Flattens
  <2>3. \A i \in 1 .. n : g[i] = f[i]
    BY <2>2
  <2>4. \A i \in 1 .. n + 1 : g[i] = IF i = 1 THEN seqs[i] ELSE g[i - 1] \o seqs[i]
    <3>1. \A i \in 1 .. n + 1 : i # 1 => i - 1 \in 1 .. n
      OBVIOUS
    <3>2. QED
      BY <2>3, <3>1
  <2> HIDE DEF g
  <2>5. DOMAIN g = 1 .. n + 1 /\ g = [i \in 1 .. n + 1 |-> g[i]]
    BY DEF g
  <2>6. g = [i \in 1 .. n + 1 |-> IF i = 1 THEN seqs[i] ELSE g[i - 1] \o seqs[i]]
    BY <2>4, <2>5
  <2>7. Flattens(g, seqs, n + 1)
    BY <2>6 DEF Flattens
  <2>8. QED
    BY <2>7
<1>3. QED
  BY <1>1, <1>2, SetInduction

LEMMA FlattenIs ==
  ASSUME NEW seqs, NEW n \in Nat \ {0}, Len(seqs) = n
  PROVE  \E f : /\ FlattenSeq(seqs) = f[n] /\ f[1] = seqs[1]
                /\ \A i \in 2 .. n : f[i] = f[i - 1] \o seqs[i]
<1>1. PICK f : Flattens(f, seqs, n)
  BY FlattenExists
<1> DEFINE c == CHOOSE g : g = [i \in 1 .. Len(seqs) |->
                                  IF i = 1 THEN seqs[i] ELSE g[i - 1] \o seqs[i]]
<1>2. Flattens(c, seqs, n)
  BY <1>1 DEF Flattens
<1>3. FlattenSeq(seqs) = c[n]
  BY DEF FlattenSeq
<1> HIDE DEF c
<1>4. \A i \in 1 .. n : c[i] = IF i = 1 THEN seqs[i] ELSE c[i - 1] \o seqs[i]
  BY <1>2 DEF Flattens
<1>5. c[1] = seqs[1]
  BY <1>4
<1>6. \A i \in 2 .. n : c[i] = c[i - 1] \o seqs[i]
  <2>1. \A i \in 2 .. n : i \in 1 .. n /\ i # 1
    OBVIOUS
  <2>2. QED
    BY <1>4, <2>1
<1>7. QED
  BY <1>3, <1>5, <1>6

-----------------------------------------------------------------------------
(* Walks and triples.                                                      *)

States ==
  [ddr : [Groups -> BOOLEAN], port : [Pins -> Nat], irq : BOOLEAN,
   latched : Seq(Nat \X Nat), sampled : Seq(Nat)]
Ops ==
  [set : {"ddr"}, to : UNION {[G -> BOOLEAN] : G \in SUBSET Groups}]
    \cup [set : {"port"}, to : UNION {[D -> Nat] : D \in SUBSET Pins}]
    \cup [set : {"irq"}, to : BOOLEAN] \cup {Sample}

Level(st, pin) == IF st.ddr[pin] THEN st.port[pin] ELSE 1
At(st) == st.port["low"] + ADDR_LOW * st.port["high"]

\* What Execute does to the registers and the history.
After(st, op) ==
  LET d == IF op.set = "ddr" THEN Onto(st.ddr, op.to) ELSE st.ddr
      p == IF op.set = "port" THEN Onto(st.port, op.to) ELSE st.port
  IN  [ddr |-> d, port |-> p,
       irq |-> IF op.set = "irq" THEN op.to ELSE st.irq,
       latched |-> IF Level(st, "we") = 0 /\ (IF d["we"] THEN p["we"] ELSE 1) = 1
                   THEN Append(st.latched, <<At(st), st.port["data"]>>) ELSE st.latched,
       sampled |-> IF op.set = "sample" THEN Append(st.sampled, At(st)) ELSE st.sampled]

\* What every state is to keep, in a handler with these cycles; and what every write.
Good(cycles, st) ==
  /\ Level(st, "we") = 0 =>
       ~st.irq /\ st.ddr["data"] /\ st.ddr["addr"] /\ st.ddr["F"] /\ st.port["oe"] = 1
  /\ st.ddr["data"] => st.port["oe"] = 1
  /\ Level(st, "rst") = 0 => cycles.name \in {"read", "flashReset"}
  /\ cycles.name = "erase" /\ st.latched # <<>> => Level(st, "buf") # 1
  /\ cycles.name = "program" /\ st.latched \notin {<<>>, cycles.writes} => Level(st, "buf") # 1
  /\ IsPrefix(st.latched, cycles.writes) /\ IsPrefix(st.sampled, cycles.reads)
Allowed(st, op) ==
  op.set = "sample" =>
    /\ st.ddr["F"] /\ st.port["oe"] = 0 /\ Level(st, "we") = 1 /\ Level(st, "rst") = 1
    /\ st.ddr["addr"] /\ ~st.ddr["data"]

Walk(cycles, s, q) ==
  /\ q \in Seq(States) /\ Len(q) = Len(s) + 1
  /\ \A i \in 1 .. Len(q) : Good(cycles, q[i])
  /\ \A i \in 1 .. Len(s) : Allowed(q[i], s[i]) /\ q[i + 1] = After(q[i], s[i])
Triple(cycles, P, s, Q) ==
  /\ s \in Seq(Ops)
  /\ \A st \in P : \E q : Walk(cycles, s, q) /\ q[1] = st /\ q[Len(q)] \in Q

\* No write at all.
LEMMA Skip ==
  ASSUME NEW cycles, NEW P, \A st \in P : st \in States /\ Good(cycles, st)
  PROVE  Triple(cycles, P, <<>>, P)
<1>1. <<>> \in Seq(Ops) /\ Len(<<>>) = 0
  BY EmptySeq
<1>2. ASSUME NEW st \in P PROVE Walk(cycles, <<>>, <<st>>) /\ Len(<<st>>) = 1
  <2>1. <<st>> \in Seq(States) /\ Len(<<st>>) = 1
    OBVIOUS
  <2>2. QED
    BY <1>1, <2>1 DEF Walk
<1>3. QED
  BY <1>1, <1>2 DEF Triple

\* One write.
LEMMA Write ==
  ASSUME NEW cycles, NEW P, NEW op \in Ops, NEW Q,
         \A st \in P : /\ st \in States /\ Good(cycles, st) /\ Allowed(st, op)
                       /\ After(st, op) \in States /\ Good(cycles, After(st, op))
                       /\ After(st, op) \in Q
  PROVE  Triple(cycles, P, <<op>>, Q)
<1>1. <<op>> \in Seq(Ops) /\ Len(<<op>>) = 1
  OBVIOUS
<1>2. ASSUME NEW st \in P
      PROVE  /\ Walk(cycles, <<op>>, <<st, After(st, op)>>)
             /\ Len(<<st, After(st, op)>>) = 2 /\ After(st, op) \in Q
  <2> DEFINE q == <<st, After(st, op)>>
  <2>1. q \in Seq(States) /\ Len(q) = 2 /\ q[1] = st /\ q[2] = After(st, op)
    OBVIOUS
  <2>2. \A i \in 1 .. 2 : Good(cycles, q[i])
    BY <2>1
  <2> HIDE DEF q
  <2>3. Walk(cycles, <<op>>, q)
    BY <1>1, <2>1, <2>2 DEF Walk
  <2>4. QED
    BY <2>1, <2>3 DEF q
<1>3. QED
  BY <1>1, <1>2 DEF Triple

\* One sequence after the other.
LEMMA Then ==
  ASSUME NEW cycles, NEW P, NEW Q, NEW R, NEW s, NEW t,
         Triple(cycles, P, s, Q), Triple(cycles, Q, t, R)
  PROVE  Triple(cycles, P, s \o t, R)
<1>1. /\ s \in Seq(Ops) /\ t \in Seq(Ops) /\ Len(s) \in Nat /\ Len(t) \in Nat
      /\ s \o t \in Seq(Ops) /\ Len(s \o t) = Len(s) + Len(t)
      /\ \A i \in 1 .. Len(s) + Len(t) : (s \o t)[i] = IF i <= Len(s) THEN s[i] ELSE t[i - Len(s)]
  BY ConcatProperties, LenProperties DEF Triple
<1>2. ASSUME NEW st \in P
      PROVE  \E q : Walk(cycles, s \o t, q) /\ q[1] = st /\ q[Len(q)] \in R
  <2>1. PICK q1 : Walk(cycles, s, q1) /\ q1[1] = st /\ q1[Len(q1)] \in Q
    BY DEF Triple
  <2>2. PICK q2 : Walk(cycles, t, q2) /\ q2[1] = q1[Len(q1)] /\ q2[Len(q2)] \in R
    BY <2>1 DEF Triple
  <2>3. /\ q1 \in Seq(States) /\ Len(q1) = Len(s) + 1
        /\ q2 \in Seq(States) /\ Len(q2) = Len(t) + 1
    BY <2>1, <2>2 DEF Walk
  <2> DEFINE n == Len(s) + Len(t) + 1
             q == [i \in 1 .. n |-> IF i <= Len(s) + 1 THEN q1[i] ELSE q2[i - Len(s)]]
  <2>4. \A i \in 1 .. n : /\ i <= Len(s) + 1 => i \in 1 .. Len(q1)
                          /\ i > Len(s) => i - Len(s) \in 1 .. Len(q2)
    BY <1>1, <2>3
  <2>5. \A i \in 1 .. n : q[i] \in States
    BY <2>3, <2>4, ElementOfSeq
  <2>6. q \in Seq(States)
    BY <1>1, <2>5, SeqDef
  <2>7. Len(q) = n
    BY <1>1, <2>6, LenProperties
  <2>8. \A i \in 1 .. Len(s) + 1 : q[i] = q1[i]
    BY <1>1
  <2>9. \A i \in Len(s) + 1 .. n : q[i] = q2[i - Len(s)]
    BY <1>1, <2>2, <2>3
  <2> HIDE DEF q
  <2>10. \A i \in 1 .. n : Good(cycles, q[i])
    <3>1. ASSUME NEW i \in 1 .. n, i <= Len(s) + 1 PROVE Good(cycles, q[i])
      BY <2>1, <2>4, <2>8, <3>1 DEF Walk
    <3>2. ASSUME NEW i \in 1 .. n, i > Len(s) + 1 PROVE Good(cycles, q[i])
      <4>1. i \in Len(s) + 1 .. n /\ i - Len(s) \in 1 .. Len(q2)
        BY <1>1, <2>4, <3>2
      <4>2. QED
        BY <2>2, <2>9, <4>1 DEF Walk
    <3>3. QED
      BY <1>1, <3>1, <3>2
  <2>11. ASSUME NEW i \in 1 .. Len(s) + Len(t)
         PROVE  Allowed(q[i], (s \o t)[i]) /\ q[i + 1] = After(q[i], (s \o t)[i])
    <3>1. CASE i <= Len(s)
      <4>1. i \in 1 .. Len(s) /\ q[i] = q1[i] /\ q[i + 1] = q1[i + 1] /\ (s \o t)[i] = s[i]
        BY <1>1, <2>8, <3>1
      <4>2. QED
        BY <2>1, <4>1 DEF Walk
    <3>2. CASE i > Len(s)
      <4>1. i - Len(s) \in 1 .. Len(t) /\ (s \o t)[i] = t[i - Len(s)]
        BY <1>1, <3>2
      <4>2. q[i] = q2[i - Len(s)] /\ q[i + 1] = q2[i - Len(s) + 1]
        <5>1. /\ i \in Len(s) + 1 .. n /\ i + 1 \in Len(s) + 1 .. n
              /\ i + 1 - Len(s) = i - Len(s) + 1
          BY <1>1, <3>2
        <5>2. QED
          BY <2>9, <5>1
      <4>3. QED
        BY <2>2, <4>1, <4>2 DEF Walk
    <3>3. QED
      BY <1>1, <3>1, <3>2
  <2>12. Walk(cycles, s \o t, q)
    BY <1>1, <2>6, <2>7, <2>10, <2>11 DEF Walk
  <2>13. q[1] = st /\ q[Len(q)] \in R
    <3>1. 1 \in 1 .. Len(s) + 1 /\ n \in Len(s) + 1 .. n /\ n - Len(s) = Len(t) + 1
      BY <1>1
    <3>2. q[1] = q1[1] /\ q[n] = q2[Len(t) + 1]
      BY <2>8, <2>9, <3>1
    <3>3. QED
      BY <2>1, <2>2, <2>3, <2>7, <3>2
  <2>14. QED
    BY <2>12, <2>13
<1>3. QED
  BY <1>1, <1>2 DEF Triple

LEMMA DdrOp ==
  ASSUME NEW G \in SUBSET Groups, NEW f \in [G -> BOOLEAN]
  PROVE  /\ [set |-> "ddr", to |-> f] \in Ops
         /\ \A st : Allowed(st, [set |-> "ddr", to |-> f])
BY DEF Ops, Allowed

LEMMA PortOp ==
  ASSUME NEW D \in SUBSET Pins, NEW v \in [D -> Nat]
  PROVE  Port(v) \in Ops /\ \A st : Allowed(st, Port(v))
BY DEF Ops, Allowed, Port

\* What becomes of a state when directions, or pins, are written.
Turned(st, a, G, out) ==
  /\ a \in States /\ a.port = st.port /\ a.irq = st.irq
  /\ a.latched = st.latched /\ a.sampled = st.sampled
  /\ \A g \in Groups : a.ddr[g] = IF g \in G THEN out ELSE st.ddr[g]
Set(st, a, D, v) ==
  /\ a \in States /\ a.ddr = st.ddr /\ a.irq = st.irq
  /\ a.latched = st.latched /\ a.sampled = st.sampled
  /\ \A p \in Pins : a.port[p] = IF p \in D THEN v[p] ELSE st.port[p]

\* Writes while /WE is high.
LEMMA DdrFrom ==
  ASSUME NEW st \in States, Level(st, "we") = 1, NEW G \in SUBSET Groups, NEW f \in [G -> BOOLEAN]
  PROVE  LET a == After(st, [set |-> "ddr", to |-> f]) IN
         /\ a \in States /\ a.port = st.port /\ a.irq = st.irq
         /\ a.latched = st.latched /\ a.sampled = st.sampled
         /\ \A g \in Groups : a.ddr[g] = IF g \in G THEN f[g] ELSE st.ddr[g]
<1> DEFINE d == Onto(st.ddr, f)
           a == After(st, [set |-> "ddr", to |-> f])
<1>1. d \in [Groups -> BOOLEAN] /\ \A g \in Groups : d[g] = IF g \in G THEN f[g] ELSE st.ddr[g]
  BY DEF Onto, States
<1> HIDE DEF d
<1>2. a = [ddr |-> d, port |-> st.port, irq |-> st.irq, latched |-> st.latched,
           sampled |-> st.sampled]
  BY DEF After, d
<1>3. a \in States
  BY <1>1, <1>2 DEF States
<1>4. QED
  BY <1>1, <1>2, <1>3

LEMMA PortFrom ==
  ASSUME NEW st \in States, Level(st, "we") = 1, NEW D \in SUBSET Pins, NEW v \in [D -> Nat]
  PROVE  Set(st, After(st, Port(v)), D, v)
<1> DEFINE r == Onto(st.port, v)
           a == After(st, Port(v))
<1>1. r \in [Pins -> Nat] /\ \A p \in Pins : r[p] = IF p \in D THEN v[p] ELSE st.port[p]
  BY DEF Onto, States
<1> HIDE DEF r
<1>2. a = [ddr |-> st.ddr, port |-> r, irq |-> st.irq, latched |-> st.latched,
           sampled |-> st.sampled]
  BY DEF After, Port, r
<1>3. a \in States
  BY <1>1, <1>2 DEF States
<1>4. QED
  BY <1>1, <1>2, <1>3 DEF Set

\* A write between two sets of good states, the first with /WE high.
LEMMA CalmPort ==
  ASSUME NEW cycles, NEW D, NEW v \in [D -> Nat], D \subseteq Pins, NEW P, NEW Q,
         \A st \in P : st \in States /\ Level(st, "we") = 1 /\ Good(cycles, st),
         \A st \in Q : Good(cycles, st),
         \A st \in P : \A a : Set(st, a, D, v) => a \in Q
  PROVE  Triple(cycles, P, <<Port(v)>>, Q)
<1>1. Port(v) \in Ops /\ \A st : Allowed(st, Port(v))
  BY PortOp
<1>2. \A st \in P : Set(st, After(st, Port(v)), D, v)
  BY PortFrom
<1>3. \A st \in P : After(st, Port(v)) \in States
  BY <1>2 DEF Set
<1>4. QED
  BY <1>1, <1>2, <1>3, Write

LEMMA CalmPin ==
  ASSUME NEW cycles, NEW pin \in Pins, NEW x \in Nat, NEW P, NEW Q,
         \A st \in P : st \in States /\ Level(st, "we") = 1 /\ Good(cycles, st),
         \A st \in Q : Good(cycles, st),
         \A st \in P : \A a : Set(st, a, {pin}, [q \in {pin} |-> x]) => a \in Q
  PROVE  Triple(cycles, P, <<Pin(pin, x)>>, Q)
<1>1. {pin} \subseteq Pins /\ [q \in {pin} |-> x] \in [{pin} -> Nat]
  OBVIOUS
<1>2. QED
  BY <1>1, CalmPort DEF Pin

LEMMA CalmDdr ==
  ASSUME NEW cycles, NEW G, NEW out \in BOOLEAN, G \subseteq Groups, NEW P, NEW Q,
         \A st \in P : st \in States /\ Level(st, "we") = 1 /\ Good(cycles, st),
         \A st \in Q : Good(cycles, st),
         \A st \in P : \A a : Turned(st, a, G, out) => a \in Q
  PROVE  Triple(cycles, P, <<Ddr(G, out)>>, Q)
<1>1. /\ Ddr(G, out) = [set |-> "ddr", to |-> [g \in G |-> out]]
      /\ [g \in G |-> out] \in [G -> BOOLEAN]
  BY DEF Ddr
<1>2. Ddr(G, out) \in Ops /\ \A st : Allowed(st, Ddr(G, out))
  BY <1>1, DdrOp
<1>3. \A st \in P : Turned(st, After(st, Ddr(G, out)), G, out)
  BY <1>1, DdrFrom DEF Turned
<1>4. \A st \in P : After(st, Ddr(G, out)) \in States
  BY <1>3 DEF Turned
<1>5. QED
  BY <1>2, <1>3, <1>4, Write

-----------------------------------------------------------------------------
(* The quiet bus: /WE and /RST are held high, and with the data lines driven PF3 has
   not been told to pull /OE low.  With b set, Gary is shut out. *)

Quiet(b, l, s) ==
  {st \in States :
     /\ st.ddr["we"] /\ st.port["we"] = 1 /\ st.ddr["rst"] /\ st.port["rst"] = 1
     /\ st.ddr["data"] => st.port["oe"] = 1
     /\ b => st.ddr["buf"] /\ st.port["buf"] = 0
     /\ st.latched = l /\ st.sampled = s}

\* In a handler with these cycles, those seen so far may be l and s.
Fits(cycles, b, l, s) ==
  /\ b \in BOOLEAN /\ l \in Seq(Nat \X Nat) /\ s \in Seq(Nat)
  /\ cycles.writes \in Seq(Nat \X Nat) /\ cycles.reads \in Seq(Nat)
  /\ cycles.name = "erase" /\ l # <<>> => b
  /\ cycles.name = "program" /\ l \notin {<<>>, cycles.writes} => b
  /\ IsPrefix(l, cycles.writes) /\ IsPrefix(s, cycles.reads)

LEMMA QuietGood ==
  ASSUME NEW cycles, NEW b, NEW l, NEW s, Fits(cycles, b, l, s), NEW st \in Quiet(b, l, s)
  PROVE  Good(cycles, st)
<1>1. Level(st, "we") = 1 /\ Level(st, "rst") = 1
  BY DEF Quiet, Level
<1>2. b => Level(st, "buf") = 0
  BY DEF Quiet, Level
<1>3. st.latched = l /\ st.sampled = s /\ (st.ddr["data"] => st.port["oe"] = 1)
  BY DEF Quiet
<1>4. QED
  BY <1>1, <1>2, <1>3 DEF Good, Fits

LEMMA QuietStates ==
  ASSUME NEW cycles, NEW b, NEW l, NEW s, Fits(cycles, b, l, s), NEW st \in Quiet(b, l, s)
  PROVE  st \in States /\ Level(st, "we") = 1 /\ Good(cycles, st)
<1>1. st \in States /\ Level(st, "we") = 1
  BY DEF Quiet, Level
<1>2. QED
  BY <1>1, QuietGood

LEMMA Weaken ==
  ASSUME NEW cycles, NEW P, NEW PP, PP \subseteq P, NEW Q, NEW QQ, Q \subseteq QQ, NEW s,
         Triple(cycles, P, s, Q)
  PROVE  Triple(cycles, PP, s, QQ)
<1>1. s \in Seq(Ops)
  BY DEF Triple
<1>2. ASSUME NEW st \in PP
      PROVE  \E q : Walk(cycles, s, q) /\ q[1] = st /\ q[Len(q)] \in QQ
  BY DEF Triple
<1>3. QED
  BY <1>1, <1>2 DEF Triple

\* A sequence that is written out is its writes, one after the other.
LEMMA Pairs ==
  ASSUME NEW o1, NEW o2
  PROVE  <<o1, o2>> = <<o1>> \o <<o2>>
<1>1. <<o1>> \in Seq({o1, o2}) /\ <<o2>> \in Seq({o1, o2}) /\ Len(<<o1>>) = 1 /\ Len(<<o2>>) = 1
  OBVIOUS
<1>2. /\ Len(<<o1>> \o <<o2>>) = 2 /\ <<o1>> \o <<o2>> \in Seq({o1, o2})
      /\ (<<o1>> \o <<o2>>)[1] = o1 /\ (<<o1>> \o <<o2>>)[2] = o2
  BY <1>1, ConcatProperties
<1>3. <<o1, o2>> \in Seq({o1, o2}) /\ Len(<<o1, o2>>) = 2
  OBVIOUS
<1>4. \A i \in 1 .. 2 : (<<o1>> \o <<o2>>)[i] = <<o1, o2>>[i]
  BY <1>2
<1>5. QED
  BY <1>2, <1>3, <1>4, SeqEqual

LEMMA Two ==
  ASSUME NEW cycles, NEW o1, NEW o2, NEW P, NEW Q, NEW R,
         Triple(cycles, P, <<o1>>, Q), Triple(cycles, Q, <<o2>>, R)
  PROVE  Triple(cycles, P, <<o1, o2>>, R)
<1>1. Triple(cycles, P, <<o1>> \o <<o2>>, R)
  BY Then
<1>2. <<o1, o2>> = <<o1>> \o <<o2>>
  BY Pairs
<1>3. QED
  BY <1>1, <1>2, Zenon

LEMMA Three ==
  ASSUME NEW cycles, NEW o1, NEW o2, NEW o3, NEW P, NEW Q, NEW R,
         Triple(cycles, P, <<o1, o2>>, Q), Triple(cycles, Q, <<o3>>, R)
  PROVE  Triple(cycles, P, <<o1, o2, o3>>, R)
<1>1. Triple(cycles, P, <<o1, o2>> \o <<o3>>, R)
  BY Then
<1>2. <<o1, o2, o3>> = <<o1, o2>> \o <<o3>>
  OBVIOUS
<1>3. QED
  BY <1>1, <1>2, Zenon

LEMMA Four ==
  ASSUME NEW cycles, NEW o1, NEW o2, NEW o3, NEW o4, NEW P, NEW Q, NEW R,
         Triple(cycles, P, <<o1, o2>>, Q), Triple(cycles, Q, <<o3, o4>>, R)
  PROVE  Triple(cycles, P, <<o1, o2, o3, o4>>, R)
<1>1. Triple(cycles, P, <<o1, o2>> \o <<o3, o4>>, R)
  BY Then
<1>2. <<o1, o2, o3, o4>> = <<o1, o2>> \o <<o3, o4>>
  OBVIOUS
<1>3. QED
  BY <1>1, <1>2, Zenon

LEMMA Six ==
  ASSUME NEW cycles, NEW o1, NEW o2, NEW o3, NEW o4, NEW o5, NEW o6, NEW P, NEW Q, NEW R,
         Triple(cycles, P, <<o1, o2, o3, o4>>, Q), Triple(cycles, Q, <<o5, o6>>, R)
  PROVE  Triple(cycles, P, <<o1, o2, o3, o4, o5, o6>>, R)
<1>1. Triple(cycles, P, <<o1, o2, o3, o4>> \o <<o5, o6>>, R)
  BY Then
<1>2. <<o1, o2, o3, o4, o5, o6>> = <<o1, o2, o3, o4>> \o <<o5, o6>>
  OBVIOUS
<1>3. QED
  BY <1>1, <1>2, Zenon

LEMMA Seven ==
  ASSUME NEW cycles, NEW o1, NEW o2, NEW o3, NEW o4, NEW o5, NEW o6, NEW o7,
         NEW P, NEW Q, NEW R,
         Triple(cycles, P, <<o1, o2, o3, o4>>, Q), Triple(cycles, Q, <<o5, o6, o7>>, R)
  PROVE  Triple(cycles, P, <<o1, o2, o3, o4, o5, o6, o7>>, R)
<1>1. Triple(cycles, P, <<o1, o2, o3, o4>> \o <<o5, o6, o7>>, R)
  BY Then
<1>2. <<o1, o2, o3, o4, o5, o6, o7>> = <<o1, o2, o3, o4>> \o <<o5, o6, o7>>
  OBVIOUS
<1>3. QED
  BY <1>1, <1>2, Zenon

-----------------------------------------------------------------------------
(* The C functions.                                                        *)

\* The AVR drives the address and holds /OE high; drives the data as well; or has
\* left the data to the flash, with /OE high, or low; or has left the bus.
Addressed(b, l, s) == {st \in Quiet(b, l, s) : st.ddr["addr"] /\ st.ddr["F"] /\ st.port["oe"] = 1}
Driven(b, l, s) == {st \in Addressed(b, l, s) : st.ddr["data"]}
Ready(b, l, s) == {st \in Addressed(b, l, s) : ~st.ddr["data"]}
Reading(b, l, s) ==
  {st \in Quiet(b, l, s) :
     st.ddr["addr"] /\ st.ddr["F"] /\ ~st.ddr["data"] /\ st.port["oe"] = 0}
Free(b, l, s) ==
  {st \in Quiet(b, l, s) : ~st.ddr["data"] /\ ~st.ddr["addr"] /\ ~st.ddr["F"]}

LEMMA Modes ==
  ASSUME NEW b, NEW l, NEW s
  PROVE  /\ Driven(b, l, s) \subseteq Addressed(b, l, s)
         /\ Ready(b, l, s) \subseteq Addressed(b, l, s)
         /\ Addressed(b, l, s) \subseteq Quiet(b, l, s)
         /\ Reading(b, l, s) \subseteq Quiet(b, l, s)
         /\ Free(b, l, s) \subseteq Quiet(b, l, s)
         /\ Quiet(b, l, s) \subseteq Quiet(FALSE, l, s)
         /\ Quiet(b, l, s) \subseteq States
BY DEF Driven, Ready, Addressed, Reading, Free, Quiet

LEMMA DdrWrite ==
  ASSUME NEW cycles, NEW b, NEW l, NEW s, Fits(cycles, b, l, s),
         NEW G, NEW out \in BOOLEAN, G \subseteq Groups,
         NEW P, P \subseteq Quiet(b, l, s), NEW Q, Q \subseteq Quiet(b, l, s),
         \A st \in P : \A a : Turned(st, a, G, out) => a \in Q
  PROVE  Triple(cycles, P, <<Ddr(G, out)>>, Q)
<1>1. /\ \A st \in P : st \in States /\ Level(st, "we") = 1 /\ Good(cycles, st)
      /\ \A st \in Q : Good(cycles, st)
  BY QuietStates
<1>2. QED
  BY <1>1, CalmDdr

LEMMA PortWrite ==
  ASSUME NEW cycles, NEW b, NEW l, NEW s, Fits(cycles, b, l, s),
         NEW D, NEW v \in [D -> Nat], D \subseteq Pins,
         NEW P, P \subseteq Quiet(b, l, s), NEW Q, Q \subseteq Quiet(b, l, s),
         \A st \in P : \A a : Set(st, a, D, v) => a \in Q
  PROVE  Triple(cycles, P, <<Port(v)>>, Q)
<1>1. /\ \A st \in P : st \in States /\ Level(st, "we") = 1 /\ Good(cycles, st)
      /\ \A st \in Q : Good(cycles, st)
  BY QuietStates
<1>2. QED
  BY <1>1, CalmPort

LEMMA PinWrite ==
  ASSUME NEW cycles, NEW b, NEW l, NEW s, Fits(cycles, b, l, s),
         NEW pin \in Pins, NEW x \in Nat,
         NEW P, P \subseteq Quiet(b, l, s), NEW Q, Q \subseteq Quiet(b, l, s),
         \A st \in P : \A a : Set(st, a, {pin}, [q \in {pin} |-> x]) => a \in Q
  PROVE  Triple(cycles, P, <<Pin(pin, x)>>, Q)
<1>1. {pin} \subseteq Pins /\ [q \in {pin} |-> x] \in [{pin} -> Nat]
  OBVIOUS
<1>2. QED
  BY <1>1, PortWrite DEF Pin

LEMMA AddrBusOutput ==
  ASSUME NEW cycles, NEW b, NEW l, NEW s, Fits(cycles, b, l, s)
  PROVE  Triple(cycles, Quiet(b, l, s), addr_bus_output, Addressed(b, l, s))
<1> DEFINE P0 == Quiet(b, l, s)
           P1 == {st \in P0 : st.ddr["addr"]}
           P2 == {st \in P0 : st.ddr["addr"] /\ st.ddr["F"]}
           P3 == Addressed(b, l, s)
           v == [q \in {"oe", "high"} |-> IF q = "oe" THEN 1 ELSE 0]
<1>1. \A st \in P0 : \A a : Turned(st, a, {"addr"}, TRUE) => a \in P1
  BY DEF Quiet, Groups, Turned
<1>2. \A st \in P1 : \A a : Turned(st, a, {"F"}, TRUE) => a \in P2
  BY DEF Quiet, Groups, Turned
<1>3. \A st \in P2 : \A a : Set(st, a, {"oe", "high"}, v) => a \in P3
  BY DEF Quiet, Addressed, Pins, Set
<1>4. /\ P0 \subseteq Quiet(b, l, s) /\ P1 \subseteq Quiet(b, l, s)
      /\ P2 \subseteq Quiet(b, l, s) /\ P3 \subseteq Quiet(b, l, s)
  BY Modes
<1>5. v \in [{"oe", "high"} -> Nat] /\ {"oe", "high"} \subseteq Pins /\ PortF(1) = Port(v)
  BY DEF Pins, PortF
<1>6. {"addr"} \subseteq Groups /\ {"F"} \subseteq Groups /\ "we" \notin {"addr"} /\ "we" \notin {"F"}
  BY DEF Groups
<1> HIDE DEF P0, P1, P2, P3, v
<1>7. Triple(cycles, P0, <<Ddr({"addr"}, TRUE)>>, P1)
  BY <1>1, <1>4, <1>6, DdrWrite
<1>8. Triple(cycles, P1, <<Ddr({"F"}, TRUE)>>, P2)
  BY <1>2, <1>4, <1>6, DdrWrite
<1>9. Triple(cycles, P2, <<PortF(1)>>, P3)
  BY <1>3, <1>4, <1>5, PortWrite
<1>10. QED
  BY <1>7, <1>8, <1>9, Two, Three DEF addr_bus_output, P0, P3

LEMMA DataBusOutput ==
  ASSUME NEW cycles, NEW b, NEW l, NEW s, Fits(cycles, b, l, s)
  PROVE  Triple(cycles, Addressed(b, l, s), data_bus_output, Driven(b, l, s))
<1>1. \A st \in Addressed(b, l, s) : \A a : Turned(st, a, {"data"}, TRUE) => a \in Driven(b, l, s)
  BY DEF Quiet, Addressed, Driven, Groups, Turned
<1>2. Addressed(b, l, s) \subseteq Quiet(b, l, s) /\ Driven(b, l, s) \subseteq Quiet(b, l, s)
  BY Modes
<1>3. {"data"} \subseteq Groups /\ "we" \notin {"data"}
  BY DEF Groups
<1>4. QED
  BY <1>1, <1>2, <1>3, DdrWrite DEF data_bus_output

LEMMA DataBusInput ==
  ASSUME NEW cycles, NEW b, NEW l, NEW s, Fits(cycles, b, l, s)
  PROVE  Triple(cycles, Addressed(b, l, s), data_bus_input, Ready(b, l, s))
<1>1. \A st \in Addressed(b, l, s) : \A a : Turned(st, a, {"data"}, FALSE) => a \in Ready(b, l, s)
  BY DEF Quiet, Addressed, Ready, Groups, Turned
<1>2. \A st \in Ready(b, l, s) : \A a :
        Set(st, a, {"data"}, [q \in {"data"} |-> 0]) => a \in Ready(b, l, s)
  BY DEF Quiet, Addressed, Ready, Pins, Set
<1>3. Addressed(b, l, s) \subseteq Quiet(b, l, s) /\ Ready(b, l, s) \subseteq Quiet(b, l, s)
  BY Modes
<1>4. {"data"} \subseteq Groups /\ "we" \notin {"data"} /\ "data" \in Pins
  BY DEF Groups, Pins
<1>5. Triple(cycles, Addressed(b, l, s), <<Ddr({"data"}, FALSE)>>, Ready(b, l, s))
  BY <1>1, <1>3, <1>4, DdrWrite
<1>6. Triple(cycles, Ready(b, l, s), <<Pin("data", 0)>>, Ready(b, l, s))
  BY <1>2, <1>3, <1>4, PinWrite
<1>7. QED
  BY <1>5, <1>6, Two DEF data_bus_input

\* The address of a word, on the lines.
AtAddress(M, wa) ==
  {st \in M : st.port["low"] = wa % ADDR_LOW
                /\ st.port["high"] = (wa \div ADDR_LOW) % ADDR_HIGH}

LEMMA SetAddress ==
  ASSUME NEW cycles, NEW b, NEW l, NEW s, Fits(cycles, b, l, s), NEW wa \in Nat,
         NEW M \in {Driven(b, l, s), Ready(b, l, s), Reading(b, l, s)}
  PROVE  Triple(cycles, M, set_address(wa), AtAddress(M, wa))
<1> DEFINE x == wa % ADDR_LOW
           y == (wa \div ADDR_LOW) % ADDR_HIGH
           M1 == {st \in M : st.port["low"] = x}
           M2 == AtAddress(M, wa)
<1>1. x \in Nat /\ y \in Nat
  <2>1. wa \div ADDR_LOW \in Nat
    BY AddressAssumption
  <2>2. QED
    BY <2>1, AddressAssumption
<1>2. M2 = {st \in M : st.port["low"] = x /\ st.port["high"] = y}
  BY DEF AtAddress
<1>3. set_address(wa) = <<Pin("low", x), Pin("high", y)>>
  BY DEF set_address
<1> HIDE DEF x, y
<1>4. \A st \in M : \A a : Set(st, a, {"low"}, [q \in {"low"} |-> x]) => a \in M1
  BY DEF Quiet, Addressed, Driven, Ready, Reading, Pins, Set
<1> HIDE DEF M2
<1>5. \A st \in M1 : \A a : Set(st, a, {"high"}, [q \in {"high"} |-> y]) => a \in M2
  BY <1>2 DEF Quiet, Addressed, Driven, Ready, Reading, Pins, Set
<1>6. M \subseteq Quiet(b, l, s) /\ M1 \subseteq Quiet(b, l, s) /\ M2 \subseteq Quiet(b, l, s)
  BY <1>2, Modes
<1>7. "low" \in Pins /\ "high" \in Pins
  BY DEF Pins
<1> HIDE DEF M1
<1>8. Triple(cycles, M, <<Pin("low", x)>>, M1)
  BY <1>1, <1>4, <1>6, <1>7, PinWrite
<1>9. Triple(cycles, M1, <<Pin("high", y)>>, M2)
  BY <1>1, <1>5, <1>6, <1>7, PinWrite
<1>10. QED
  BY <1>3, <1>8, <1>9, Two DEF M2

-----------------------------------------------------------------------------
(* Addresses and write cycles.                                            *)

\* What the pins say of an address is the address on this bus.
LEMMA ModIs ==
  ASSUME NEW x \in Nat, NEW m \in Nat \ {0}, NEW k \in Nat, NEW z \in Nat, z < m, x = m * k + z
  PROVE  x % m = z
<1> DEFINE q == x \div m
           r == x % m
<1>1. q \in Nat /\ r \in Nat /\ r < m /\ x = m * q + r
  OBVIOUS
<1> HIDE DEF q, r
<1>2. m * q + r = m * k + z
  BY <1>1
<1>3. ASSUME q < k PROVE FALSE
  <2>1. PICK d \in Nat : k = q + 1 + d
    <3>1. k - q - 1 \in Nat /\ k = q + 1 + (k - q - 1)
      BY <1>1, <1>3
    <3>2. QED
      BY <3>1
  <2>2. m * k = m * q + m + m * d /\ m * d \in Nat /\ m * q \in Nat
    BY <2>1, <1>1
  <2>3. QED
    BY <1>1, <1>2, <2>2
<1>4. ASSUME k < q PROVE FALSE
  <2>1. PICK d \in Nat : q = k + 1 + d
    <3>1. q - k - 1 \in Nat /\ q = k + 1 + (q - k - 1)
      BY <1>1, <1>4
    <3>2. QED
      BY <3>1
  <2>2. m * q = m * k + m + m * d /\ m * d \in Nat /\ m * k \in Nat
    BY <2>1, <1>1
  <2>3. QED
    BY <1>1, <1>2, <2>2
<1>5. q = k
  BY <1>1, <1>3, <1>4
<1>6. r = z
  <2>1. m * k \in Nat
    OBVIOUS
  <2>2. QED
    BY <1>1, <1>2, <1>5, <2>1
<1>7. QED
  BY <1>6 DEF r

LEMMA SplitAddress ==
  ASSUME NEW wa \in Nat
  PROVE  /\ BusAddress(wa) = (wa % ADDR_LOW) + ADDR_LOW * ((wa \div ADDR_LOW) % ADDR_HIGH)
         /\ BusAddress(wa) \in Nat
<1> DEFINE L == ADDR_LOW
           H == ADDR_HIGH
           q == wa \div L
           r == wa % L
           k == q \div H
           t == q % H
<1>1. L \in Nat \ {0} /\ H \in Nat \ {0}
  BY AddressAssumption
<1>2. q \in Nat /\ r \in Nat /\ r < L /\ wa = L * q + r
  BY <1>1
<1> HIDE DEF q, r
<1>3. k \in Nat /\ t \in Nat /\ t < H /\ q = H * k + t
  BY <1>1, <1>2
<1> HIDE DEF k, t, L, H
<1>4. L * H \in Nat \ {0} /\ L * t + r \in Nat
  BY <1>1, <1>2, <1>3
<1>5. wa = (L * H) * k + (L * t + r)
  <2>1. L * q = L * (H * k) + L * t
    BY <1>1, <1>2, <1>3
  <2>2. L * (H * k) = (L * H) * k
    BY <1>1, <1>3
  <2>3. L * (H * k) \in Nat /\ L * t \in Nat
    BY <1>1, <1>3
  <2>4. QED
    BY <1>2, <2>1, <2>2, <2>3
<1>6. L * t + r < L * H
  <2>1. PICK d \in Nat : H = t + 1 + d
    <3>1. H - t - 1 \in Nat /\ H = t + 1 + (H - t - 1)
      BY <1>1, <1>3
    <3>2. QED
      BY <3>1
  <2>2. L * H = L * t + L + L * d /\ L * d \in Nat /\ L * t \in Nat
    BY <1>1, <1>3, <2>1
  <2>3. QED
    BY <1>1, <1>2, <2>2
<1>7. wa % (L * H) = L * t + r
  BY <1>3, <1>4, <1>5, <1>6, ModIs
<1>8. L * t \in Nat
  BY <1>1, <1>3
<1>9. BusAddress(wa) = r + L * t
  BY <1>2, <1>7, <1>8 DEF BusAddress, L, H
<1>10. QED
  BY <1>4, <1>9, <1>8, <1>2 DEF L, H, q, r, k, t

Masked(st, a, on) ==
  /\ a \in States /\ a.ddr = st.ddr /\ a.port = st.port /\ a.irq = on
  /\ a.latched = st.latched /\ a.sampled = st.sampled

\* cli() and sei().
LEMMA IrqWrite ==
  ASSUME NEW cycles, NEW b, NEW l, NEW s, Fits(cycles, b, l, s), NEW on \in BOOLEAN,
         NEW P, P \subseteq Quiet(b, l, s), NEW Q, Q \subseteq Quiet(b, l, s),
         \A st \in P : \A a : Masked(st, a, on) => a \in Q
  PROVE  Triple(cycles, P, <<Irq(on)>>, Q)
<1>1. Irq(on) \in Ops /\ \A st : Allowed(st, Irq(on))
  BY DEF Irq, Ops, Allowed
<1>2. ASSUME NEW st \in P PROVE Masked(st, After(st, Irq(on)), on)
  <2>1. st \in States /\ Level(st, "we") = 1 /\ st.ddr["we"] /\ st.port["we"] = 1
    BY DEF Quiet, Level
  <2>2. After(st, Irq(on)) =
          [ddr |-> st.ddr, port |-> st.port, irq |-> on, latched |-> st.latched,
           sampled |-> st.sampled]
    BY <2>1 DEF After, Irq
  <2>3. After(st, Irq(on)) \in States
    BY <2>1, <2>2 DEF States
  <2>4. QED
    BY <2>2, <2>3 DEF Masked
<1>3. \A st \in P : After(st, Irq(on)) \in States /\ After(st, Irq(on)) \in Q
  BY <1>2 DEF Masked
<1>4. /\ \A st \in P : st \in States /\ Good(cycles, st)
      /\ \A st \in Q : Good(cycles, st)
  BY QuietStates
<1>5. QED
  BY <1>1, <1>3, <1>4, Write

\* The chip is being written to: /WE is low.
Pulse(b, l, s, wa, cmd) ==
  {st \in States :
     /\ st.ddr["we"] /\ st.port["we"] = 0 /\ st.ddr["rst"] /\ st.port["rst"] = 1 /\ ~st.irq
     /\ st.ddr["addr"] /\ st.ddr["F"] /\ st.port["oe"] = 1 /\ st.ddr["data"]
     /\ b => st.ddr["buf"] /\ st.port["buf"] = 0
     /\ st.latched = l /\ st.sampled = s
     /\ At(st) = BusAddress(wa) /\ st.port["data"] = cmd}

LEMMA PulseGood ==
  ASSUME NEW cycles, NEW b, NEW l, NEW s, Fits(cycles, b, l, s), NEW wa, NEW cmd,
         NEW st \in Pulse(b, l, s, wa, cmd)
  PROVE  Good(cycles, st)
<1>1. Level(st, "rst") = 1
  BY DEF Pulse, Level
<1>2. b => Level(st, "buf") = 0
  BY DEF Pulse, Level
<1>3. /\ ~st.irq /\ st.ddr["data"] /\ st.ddr["addr"] /\ st.ddr["F"] /\ st.port["oe"] = 1
      /\ st.latched = l /\ st.sampled = s
  BY DEF Pulse
<1>4. QED
  BY <1>1, <1>2, <1>3 DEF Good, Fits

\* What is driven just before the pulse.
Armed(b, l, s, wa, cmd) ==
  {st \in Driven(b, l, s) : At(st) = BusAddress(wa) /\ st.port["data"] = cmd}

LEMMA WriteCycle ==
  ASSUME NEW cycles, NEW b, NEW l, NEW s, NEW wa \in Nat, NEW cmd \in Nat,
         Fits(cycles, b, l, s), Fits(cycles, b, Append(l, W(wa, cmd)), s)
  PROVE  Triple(cycles, Armed(b, l, s, wa, cmd), <<Irq(FALSE), WE_LOW, WE_HIGH, Irq(TRUE)>>,
                Driven(b, Append(l, W(wa, cmd)), s))
<1> DEFINE P0 == Armed(b, l, s, wa, cmd)
           P1 == {st \in P0 : ~st.irq}
           P2 == Pulse(b, l, s, wa, cmd)
           ll == Append(l, W(wa, cmd))
           P3 == Driven(b, ll, s)
<1>1. P0 \subseteq Quiet(b, l, s) /\ P1 \subseteq Quiet(b, l, s) /\ P3 \subseteq Quiet(b, ll, s)
  BY Modes DEF Armed
<1>2. \A st \in P0 : \A a : Masked(st, a, FALSE) => a \in P1
  BY DEF Armed, Driven, Addressed, Quiet, Masked, At
<1>3. \A st \in P3 : \A a : Masked(st, a, TRUE) => a \in P3
  BY DEF Driven, Addressed, Quiet, Masked, At
<1>4. /\ l \in Seq(Nat \X Nat) /\ s \in Seq(Nat) /\ W(wa, cmd) = <<BusAddress(wa), cmd>>
      /\ W(wa, cmd) \in Nat \X Nat /\ ll \in Seq(Nat \X Nat)
  <2>1. l \in Seq(Nat \X Nat) /\ s \in Seq(Nat)
    BY DEF Fits
  <2>2. W(wa, cmd) = <<BusAddress(wa), cmd>> /\ W(wa, cmd) \in Nat \X Nat
    BY SplitAddress DEF W
  <2>3. QED
    BY <2>1, <2>2, AppendProperties
<1>5. /\ WE_LOW \in Ops /\ WE_HIGH \in Ops
      /\ \A st : Allowed(st, WE_LOW) /\ Allowed(st, WE_HIGH)
  <2>1. {"we"} \subseteq Pins /\ [q \in {"we"} |-> 0] \in [{"we"} -> Nat]
        /\ [q \in {"we"} |-> 1] \in [{"we"} -> Nat]
    BY DEF Pins
  <2>2. QED
    BY <2>1, PortOp DEF WE_LOW, WE_HIGH, Pin
<1>6. ASSUME NEW st \in P1 PROVE After(st, WE_LOW) \in P2
  <2>1. st \in States /\ Level(st, "we") = 1 /\ st.latched = l /\ st.sampled = s
    BY <1>1 DEF Quiet, Level
  <2>2. {"we"} \in SUBSET Pins /\ [q \in {"we"} |-> 0] \in [{"we"} -> Nat]
        /\ WE_LOW = Port([q \in {"we"} |-> 0])
    BY DEF Pins, WE_LOW, Pin
  <2> DEFINE a == After(st, WE_LOW)
  <2>3. /\ a \in States /\ a.ddr = st.ddr /\ a.irq = st.irq /\ a.latched = l /\ a.sampled = s
        /\ \A p \in Pins : a.port[p] = IF p \in {"we"} THEN [q \in {"we"} |-> 0][p] ELSE st.port[p]
    BY <2>1, <2>2, PortFrom DEF Set
  <2>4. /\ a.port["we"] = 0 /\ a.port["rst"] = st.port["rst"] /\ a.port["oe"] = st.port["oe"]
        /\ a.port["data"] = st.port["data"] /\ a.port["low"] = st.port["low"]
        /\ a.port["high"] = st.port["high"] /\ a.port["buf"] = st.port["buf"]
    BY <2>3 DEF Pins
  <2> HIDE DEF a
  <2>5. QED
    BY <2>3, <2>4 DEF Pulse, Armed, Driven, Addressed, Quiet, At, a
<1>7. ASSUME NEW st \in P2 PROVE After(st, WE_HIGH) \in P3
  <2> DEFINE a == After(st, WE_HIGH)
             r == Onto(st.port, [q \in {"we"} |-> 1])
  <2>1. st \in States /\ st.ddr["we"] /\ st.port["we"] = 0 /\ Level(st, "we") = 0
        /\ st.port \in [Pins -> Nat] /\ st.latched = l /\ st.sampled = s
        /\ At(st) = BusAddress(wa) /\ st.port["data"] = cmd
    BY DEF Pulse, Level, States
  <2>2. r \in [Pins -> Nat] /\ \A p \in Pins : r[p] = IF p = "we" THEN 1 ELSE st.port[p]
    BY <2>1 DEF Onto
  <2> HIDE DEF r
  <2>3. r["we"] = 1
    BY <2>2 DEF Pins
  <2>4. a = [ddr |-> st.ddr, port |-> r, irq |-> st.irq, latched |-> ll, sampled |-> st.sampled]
    <3>1. WE_HIGH.set = "port" /\ WE_HIGH.to = [q \in {"we"} |-> 1]
      BY DEF WE_HIGH, Pin, Port
    <3>2. Append(st.latched, <<At(st), st.port["data"]>>) = ll
      BY <1>4, <2>1
    <3> HIDE DEF ll
    <3>3. QED
      BY <2>1, <2>3, <3>1, <3>2 DEF After, r
  <2> HIDE DEF a
  <2>5. a \in States
    BY <1>4, <2>1, <2>2, <2>4 DEF States
  <2>6. /\ r["we"] = 1 /\ r["rst"] = st.port["rst"] /\ r["oe"] = st.port["oe"]
        /\ r["buf"] = st.port["buf"]
    BY <2>2 DEF Pins
  <2> HIDE DEF ll
  <2>7. QED
    BY <2>4, <2>5, <2>6 DEF Pulse, Driven, Addressed, Quiet, a
<1>8. P1 \subseteq States /\ P2 \subseteq States /\ P3 \subseteq States
  BY <1>1, Modes DEF Pulse
<1>9. \A st \in P1 : Good(cycles, st)
  BY <1>1, QuietGood
<1>10. \A st \in P2 : Good(cycles, st)
  BY PulseGood
<1> HIDE DEF ll
<1>11. \A st \in P3 : Good(cycles, st)
  BY <1>1, QuietGood DEF ll
<1> HIDE DEF P0, P1, P2, P3
<1>12. Triple(cycles, P0, <<Irq(FALSE)>>, P1)
  BY <1>1, <1>2, IrqWrite
<1>13. Triple(cycles, P1, <<WE_LOW>>, P2)
  BY <1>5, <1>6, <1>8, <1>9, <1>10, Write
<1>14. Triple(cycles, P2, <<WE_HIGH>>, P3)
  BY <1>5, <1>7, <1>8, <1>10, <1>11, Write
<1>15. Triple(cycles, P3, <<Irq(TRUE)>>, P3)
  BY <1>1, <1>3, IrqWrite DEF ll
<1>16. Triple(cycles, P0, <<Irq(FALSE), WE_LOW>>, P2)
  BY <1>12, <1>13, Two
<1>17. Triple(cycles, P2, <<WE_HIGH, Irq(TRUE)>>, P3)
  BY <1>14, <1>15, Two
<1>18. Triple(cycles, P0, <<Irq(FALSE), WE_LOW, WE_HIGH, Irq(TRUE)>>, P3)
  BY <1>16, <1>17, Four
<1>19. QED
  BY <1>18 DEF P0, P3, ll

LEMMA FlashCmd ==
  ASSUME NEW cycles, NEW b, NEW l, NEW s, NEW wa \in Nat, NEW cmd \in Nat,
         Fits(cycles, b, l, s), Fits(cycles, b, Append(l, W(wa, cmd)), s)
  PROVE  Triple(cycles, Quiet(b, l, s), flash_cmd(wa, cmd), Driven(b, Append(l, W(wa, cmd)), s))
<1> DEFINE Q0 == Quiet(b, l, s)
           Q1 == Addressed(b, l, s)
           Q2 == Driven(b, l, s)
           Q3 == AtAddress(Q2, wa)
           Q4 == Armed(b, l, s, wa, cmd)
           Q5 == Driven(b, Append(l, W(wa, cmd)), s)
<1>1. Triple(cycles, Q0, addr_bus_output, Q1)
  BY AddrBusOutput
<1>2. Triple(cycles, Q1, data_bus_output, Q2)
  BY DataBusOutput
<1>3. Triple(cycles, Q2, <<OE_HIGH>>, Q2)
  <2>1. "oe" \in Pins /\ 1 \in Nat /\ Q2 \subseteq Quiet(b, l, s)
    BY Modes DEF Pins
  <2>2. \A st \in Q2 : \A a : Set(st, a, {"oe"}, [q \in {"oe"} |-> 1]) => a \in Q2
    BY DEF Quiet, Addressed, Driven, Pins, Set
  <2>3. QED
    BY <2>1, <2>2, PinWrite DEF OE_HIGH
<1>4. Triple(cycles, Q2, set_address(wa), Q3)
  BY SetAddress
<1>5. Triple(cycles, Q3, write_data(cmd), Q4)
  <2>1. "data" \in Pins /\ Q3 \subseteq Quiet(b, l, s) /\ Q4 \subseteq Quiet(b, l, s)
    BY Modes DEF Pins, AtAddress, Armed
  <2>2. BusAddress(wa) = (wa % ADDR_LOW) + ADDR_LOW * ((wa \div ADDR_LOW) % ADDR_HIGH)
    BY SplitAddress
  <2> DEFINE x == wa % ADDR_LOW
             y == (wa \div ADDR_LOW) % ADDR_HIGH
  <2> HIDE DEF x, y
  <2>3. /\ BusAddress(wa) = x + ADDR_LOW * y
        /\ AtAddress(Q2, wa) = {st \in Q2 : st.port["low"] = x /\ st.port["high"] = y}
    BY <2>2 DEF x, y, AtAddress
  <2>4. \A st \in Q3 : \A a : Set(st, a, {"data"}, [q \in {"data"} |-> cmd]) => a \in Q2
    BY DEF Quiet, Addressed, Driven, Pins, Set, AtAddress
  <2>5. ASSUME NEW st \in Q3, NEW a, Set(st, a, {"data"}, [q \in {"data"} |-> cmd])
        PROVE  At(a) = BusAddress(wa) /\ a.port["data"] = cmd
    <3>1. a.port["low"] = st.port["low"] /\ a.port["high"] = st.port["high"] /\ a.port["data"] = cmd
      BY <2>5 DEF Set, Pins
    <3>2. st.port["low"] = x /\ st.port["high"] = y
      BY <2>3
    <3>3. QED
      BY <2>3, <3>1, <3>2 DEF At
  <2>6. \A st \in Q3 : \A a : Set(st, a, {"data"}, [q \in {"data"} |-> cmd]) => a \in Q4
    BY <2>4, <2>5 DEF Armed
  <2> HIDE DEF Q3, Q4
  <2>7. QED
    BY <2>1, <2>6, PinWrite DEF write_data
<1>6. Triple(cycles, Q4, <<Irq(FALSE), WE_LOW, WE_HIGH, Irq(TRUE)>>, Q5)
  BY WriteCycle
<1> HIDE DEF Q0, Q1, Q2, Q3, Q4, Q5
<1>7. Triple(cycles, Q0, addr_bus_output \o data_bus_output, Q2)
  BY <1>1, <1>2, Then
<1>8. Triple(cycles, Q0, addr_bus_output \o data_bus_output \o <<OE_HIGH>>, Q2)
  BY <1>3, <1>7, Then
<1>9. Triple(cycles, Q0, addr_bus_output \o data_bus_output \o <<OE_HIGH>> \o set_address(wa), Q3)
  BY <1>4, <1>8, Then
<1>10. Triple(cycles, Q0, addr_bus_output \o data_bus_output \o <<OE_HIGH>> \o set_address(wa)
                            \o write_data(cmd), Q4)
  BY <1>5, <1>9, Then
<1>11. Triple(cycles, Q0, flash_cmd(wa, cmd), Q5)
  BY <1>6, <1>10, Then DEF flash_cmd
<1>12. QED
  BY <1>11 DEF Q0, Q5

\* Prefixes: the cycles seen so far begin those of the command.
LEMMA PrefixOfConcat ==
  ASSUME NEW S, NEW l \in Seq(S), NEW m \in Seq(S), NEW w \in Seq(S)
  PROVE  /\ IsPrefix(l, l \o m)
         /\ IsPrefix(l \o m, w) => IsPrefix(l, w)
<1>1. /\ Len(l) \in Nat /\ Len(m) \in Nat /\ Len(w) \in Nat /\ l \o m \in Seq(S)
      /\ Len(l \o m) = Len(l) + Len(m)
  BY ConcatProperties, LenProperties
<1>2. SubSeq(l, 1, Len(l)) = l
  BY SubSeqFull
<1>3. SubSeq(l \o m, 1, Len(l)) = l
  <2>1. \A i \in 1 .. Len(l) : (l \o m)[i] = l[i]
    BY <1>1, ConcatProperties
  <2>2. /\ SubSeq(l \o m, 1, Len(l)) \in Seq(S)
        /\ Len(SubSeq(l \o m, 1, Len(l))) = Len(l)
        /\ \A i \in 1 .. Len(l) : SubSeq(l \o m, 1, Len(l))[i] = (l \o m)[i]
    BY <1>1
  <2>3. QED
    BY <2>1, <2>2, SeqEqual
<1>4. IsPrefix(l, l \o m)
  BY <1>1, <1>2, <1>3 DEF IsPrefix
<1>5. ASSUME IsPrefix(l \o m, w) PROVE IsPrefix(l, w)
  <2>1. Len(l) + Len(m) <= Len(w)
    BY <1>1, <1>5 DEF IsPrefix
  <2>2. l \o m = SubSeq(w, 1, Len(l) + Len(m))
    BY <1>1, <1>5, SubSeqFull DEF IsPrefix
  <2>3. \A i \in 1 .. Len(l) : w[i] = l[i]
    <3>1. \A i \in 1 .. Len(l) + Len(m) : (l \o m)[i] = w[i]
      BY <1>1, <2>1, <2>2
    <3>2. \A i \in 1 .. Len(l) : (l \o m)[i] = l[i]
      BY <1>1, ConcatProperties
    <3>3. QED
      BY <1>1, <3>1, <3>2
  <2>4. /\ SubSeq(w, 1, Len(l)) \in Seq(S)
        /\ Len(SubSeq(w, 1, Len(l))) = Len(l)
        /\ \A i \in 1 .. Len(l) : SubSeq(w, 1, Len(l))[i] = w[i]
    BY <1>1, <2>1
  <2>5. SubSeq(w, 1, Len(l)) = l
    BY <2>3, <2>4, SeqEqual
  <2>6. QED
    BY <1>1, <1>2, <2>1, <2>5 DEF IsPrefix
<1>6. QED
  BY <1>4, <1>5

\* What fits with some cycles more fits without them.
LEMMA Earlier ==
  ASSUME NEW cycles, NEW b, NEW l \in Seq(Nat \X Nat), NEW m \in Seq(Nat \X Nat), NEW s,
         Fits(cycles, b, l \o m, s), b \/ cycles.name # "program"
  PROVE  Fits(cycles, b, l, s)
<1>1. IsPrefix(l, cycles.writes)
  BY PrefixOfConcat DEF Fits
<1>2. l # <<>> => l \o m # <<>>
  <2>1. Len(l \o m) = Len(l) + Len(m) /\ Len(l) \in Nat /\ Len(m) \in Nat
    BY ConcatProperties, LenProperties
  <2>2. l \o m = <<>> => Len(l \o m) = 0
    BY EmptySeq
  <2>3. Len(l) = 0 => l = <<>>
    BY EmptySeq
  <2>4. QED
    BY <2>1, <2>2, <2>3
<1>3. QED
  BY <1>1, <1>2 DEF Fits

\* ops makes the chip see the write cycles ws, after any that fit before them.
Issues(cycles, b, s, ops, ws) ==
  /\ ws \in Seq(Nat \X Nat)
  /\ \A l \in Seq(Nat \X Nat) :
       Fits(cycles, b, l \o ws, s) /\ (b \/ cycles.name # "program") =>
         Triple(cycles, Quiet(b, l, s), ops, Quiet(b, l \o ws, s))

LEMMA Cycle ==
  ASSUME NEW wa \in Nat, NEW cmd \in Nat
  PROVE  /\ W(wa, cmd) \in Nat \X Nat /\ <<W(wa, cmd)>> \in Seq(Nat \X Nat)
         /\ \A l \in Seq(Nat \X Nat) : Append(l, W(wa, cmd)) = l \o <<W(wa, cmd)>>
<1>1. W(wa, cmd) \in Nat \X Nat
  BY SplitAddress DEF W
<1>2. <<W(wa, cmd)>> \in Seq(Nat \X Nat)
  BY <1>1
<1>3. \A l \in Seq(Nat \X Nat) : Append(l, W(wa, cmd)) = l \o <<W(wa, cmd)>>
  BY <1>1, AppendIsConcat
<1>4. QED
  BY <1>1, <1>2, <1>3

LEMMA CmdDriven ==
  ASSUME NEW cycles, NEW b, NEW s, NEW wa \in Nat, NEW cmd \in Nat, NEW l \in Seq(Nat \X Nat),
         Fits(cycles, b, l \o <<W(wa, cmd)>>, s), b \/ cycles.name # "program"
  PROVE  Triple(cycles, Quiet(b, l, s), flash_cmd(wa, cmd), Driven(b, l \o <<W(wa, cmd)>>, s))
<1>1. /\ <<W(wa, cmd)>> \in Seq(Nat \X Nat)
      /\ Append(l, W(wa, cmd)) = l \o <<W(wa, cmd)>>
  BY Cycle
<1>2. Fits(cycles, b, l, s)
  BY <1>1, Earlier
<1>3. QED
  BY <1>1, <1>2, FlashCmd

\* flash_cmd(), and the sequences made of it.
LEMMA IssueCmd ==
  ASSUME NEW cycles, NEW b, NEW s, NEW wa \in Nat, NEW cmd \in Nat
  PROVE  Issues(cycles, b, s, flash_cmd(wa, cmd), <<W(wa, cmd)>>)
<1>1. <<W(wa, cmd)>> \in Seq(Nat \X Nat)
  BY Cycle
<1>2. ASSUME NEW l \in Seq(Nat \X Nat), Fits(cycles, b, l \o <<W(wa, cmd)>>, s),
             b \/ cycles.name # "program"
      PROVE  Triple(cycles, Quiet(b, l, s), flash_cmd(wa, cmd), Quiet(b, l \o <<W(wa, cmd)>>, s))
  <2> DEFINE ll == l \o <<W(wa, cmd)>>
  <2>1. Triple(cycles, Quiet(b, l, s), flash_cmd(wa, cmd), Driven(b, ll, s))
    BY <1>2, CmdDriven
  <2>2. Driven(b, ll, s) \subseteq Quiet(b, ll, s)
    BY Modes
  <2> HIDE DEF ll
  <2>3. Triple(cycles, Quiet(b, l, s), flash_cmd(wa, cmd), Quiet(b, ll, s))
    BY <2>1, <2>2, Weaken
  <2>4. QED
    BY <2>3 DEF ll
<1>3. QED
  BY <1>1, <1>2 DEF Issues

LEMMA IssueThen ==
  ASSUME NEW cycles, NEW b, NEW s, NEW o1, NEW w1, NEW o2, NEW w2,
         Issues(cycles, b, s, o1, w1), Issues(cycles, b, s, o2, w2)
  PROVE  Issues(cycles, b, s, o1 \o o2, w1 \o w2)
<1>1. w1 \in Seq(Nat \X Nat) /\ w2 \in Seq(Nat \X Nat) /\ w1 \o w2 \in Seq(Nat \X Nat)
  BY ConcatProperties DEF Issues
<1>2. ASSUME NEW l \in Seq(Nat \X Nat), Fits(cycles, b, l \o (w1 \o w2), s),
             b \/ cycles.name # "program"
      PROVE  Triple(cycles, Quiet(b, l, s), o1 \o o2, Quiet(b, l \o (w1 \o w2), s))
  <2>1. l \o w1 \in Seq(Nat \X Nat) /\ l \o (w1 \o w2) = (l \o w1) \o w2
    <3> DEFINE C == Nat \X Nat
    <3>1. l \in Seq(C) /\ w1 \in Seq(C) /\ w2 \in Seq(C)
      BY <1>1
    <3> HIDE DEF C
    <3>2. l \o w1 \in Seq(C)
      BY <3>1, ConcatProperties
    <3>3. (l \o w1) \o w2 = l \o (w1 \o w2)
      BY <3>1, ConcatAssociative, SMTT(20)
    <3>4. QED
      BY <3>2, <3>3 DEF C
  <2>2. Fits(cycles, b, (l \o w1) \o w2, s)
    BY <1>2, <2>1
  <2>3. Fits(cycles, b, l \o w1, s)
    BY <1>1, <1>2, <2>1, <2>2, Earlier
  <2>4. Triple(cycles, Quiet(b, l, s), o1, Quiet(b, l \o w1, s))
    BY <1>2, <2>3 DEF Issues
  <2>5. Triple(cycles, Quiet(b, l \o w1, s), o2, Quiet(b, (l \o w1) \o w2, s))
    BY <1>2, <2>1, <2>2 DEF Issues
  <2>6. QED
    BY <2>1, <2>4, <2>5, Then
<1>3. QED
  BY <1>1, <1>2 DEF Issues

LEMMA Unlock ==
  ASSUME NEW cycles, NEW b, NEW s
  PROVE  /\ X555 \in Nat /\ X2AA \in Nat
         /\ Issues(cycles, b, s, unlock, AmdUnlock)
<1>1. X555 \in Nat /\ X2AA \in Nat /\ AA \in Nat
  BY AddressAssumption DEF X555, X2AA, AA
<1>2. Issues(cycles, b, s, flash_cmd(X555, AA), <<W(X555, AA)>>)
  BY <1>1, IssueCmd
<1>3. Issues(cycles, b, s, flash_cmd(X2AA, 85), <<W(X2AA, 85)>>)
  BY <1>1, IssueCmd
<1>4. Issues(cycles, b, s, unlock, <<W(X555, AA)>> \o <<W(X2AA, 85)>>)
  BY <1>2, <1>3, IssueThen DEF unlock
<1>5. AmdUnlock = <<W(X555, AA)>> \o <<W(X2AA, 85)>>
  BY Pairs DEF AmdUnlock
<1>6. QED
  BY <1>1, <1>4, <1>5

-----------------------------------------------------------------------------
(* The C functions that write several registers.                          *)

\* flash_bus_release(): from any quiet state, the bus is released.
LEMMA BusRelease ==
  ASSUME NEW cycles, NEW b, NEW l, NEW s, Fits(cycles, b, l, s)
  PROVE  Triple(cycles, Quiet(b, l, s), flash_bus_release, Free(b, l, s))
<1> DEFINE P0 == Quiet(b, l, s)
           P1 == {st \in P0 : ~st.ddr["data"]}
           P2 == {st \in P1 : ~st.ddr["addr"]}
           P3 == {st \in P2 : ~st.ddr["F"]}
           v == [q \in {"oe", "high"} |-> IF q = "oe" THEN 0 ELSE 0]
           w == [q \in {"we", "rst"} |-> 1]
<1>1. \A st \in P0 : \A a : Turned(st, a, {"data"}, FALSE) => a \in P1
  BY DEF Quiet, Groups, Turned
<1>2. \A st \in P1 : \A a : Set(st, a, {"data"}, [q \in {"data"} |-> 0]) => a \in P1
  BY DEF Quiet, Pins, Set
<1>3. \A st \in P1 : \A a : Turned(st, a, {"addr"}, FALSE) => a \in P2
  BY DEF Quiet, Groups, Turned
<1>4. \A st \in P2 : \A a : Set(st, a, {"low"}, [q \in {"low"} |-> 0]) => a \in P2
  BY DEF Quiet, Pins, Set
<1>5. \A st \in P2 : \A a : Turned(st, a, {"F"}, FALSE) => a \in P3
  BY DEF Quiet, Groups, Turned
<1>6. \A st \in P3 : \A a : Set(st, a, {"oe", "high"}, v) => a \in P3
  BY DEF Quiet, Pins, Set
<1>7. \A st \in P3 : \A a : Set(st, a, {"we", "rst"}, w) => a \in P3
  BY DEF Quiet, Pins, Set
<1>8. /\ P0 \subseteq Quiet(b, l, s) /\ P1 \subseteq Quiet(b, l, s)
      /\ P2 \subseteq Quiet(b, l, s) /\ P3 \subseteq Quiet(b, l, s)
  OBVIOUS
<1>9. /\ v \in [{"oe", "high"} -> Nat] /\ {"oe", "high"} \subseteq Pins /\ PortF(0) = Port(v)
      /\ w \in [{"we", "rst"} -> Nat] /\ {"we", "rst"} \subseteq Pins
      /\ "data" \in Pins /\ "low" \in Pins
  BY DEF Pins, PortF
<1>10. /\ {"data"} \subseteq Groups /\ {"addr"} \subseteq Groups /\ {"F"} \subseteq Groups
       /\ "we" \notin {"data"} /\ "we" \notin {"addr"} /\ "we" \notin {"F"}
  BY DEF Groups
<1>11. P3 = Free(b, l, s)
  BY DEF Free
<1>12. flash_bus_release =
         <<Ddr({"data"}, FALSE), Pin("data", 0), Ddr({"addr"}, FALSE), Pin("low", 0),
           Ddr({"F"}, FALSE), PortF(0), Port(w)>>
  BY DEF flash_bus_release
<1> HIDE DEF P0, P1, P2, P3, v, w
<1>13. Triple(cycles, P0, <<Ddr({"data"}, FALSE)>>, P1)
  BY <1>1, <1>8, <1>10, DdrWrite
<1>14. Triple(cycles, P1, <<Pin("data", 0)>>, P1)
  BY <1>2, <1>8, <1>9, PinWrite
<1>15. Triple(cycles, P1, <<Ddr({"addr"}, FALSE)>>, P2)
  BY <1>3, <1>8, <1>10, DdrWrite
<1>16. Triple(cycles, P2, <<Pin("low", 0)>>, P2)
  BY <1>4, <1>8, <1>9, PinWrite
<1>17. Triple(cycles, P2, <<Ddr({"F"}, FALSE)>>, P3)
  BY <1>5, <1>8, <1>10, DdrWrite
<1>18. Triple(cycles, P3, <<PortF(0)>>, P3)
  BY <1>6, <1>8, <1>9, PortWrite
<1>19. Triple(cycles, P3, <<Port(w)>>, P3)
  BY <1>7, <1>8, <1>9, PortWrite
<1>20. Triple(cycles, P0, <<Ddr({"data"}, FALSE), Pin("data", 0)>>, P1)
  BY <1>13, <1>14, Two
<1>21. Triple(cycles, P1, <<Ddr({"addr"}, FALSE), Pin("low", 0)>>, P2)
  BY <1>15, <1>16, Two
<1>22. Triple(cycles, P0,
              <<Ddr({"data"}, FALSE), Pin("data", 0), Ddr({"addr"}, FALSE), Pin("low", 0)>>, P2)
  BY <1>20, <1>21, Four
<1>23. Triple(cycles, P2, <<Ddr({"F"}, FALSE), PortF(0)>>, P3)
  BY <1>17, <1>18, Two
<1>24. Triple(cycles, P2, <<Ddr({"F"}, FALSE), PortF(0), Port(w)>>, P3)
  BY <1>19, <1>23, Three
<1>25. Triple(cycles, P0, flash_bus_release, P3)
  BY <1>12, <1>22, <1>24, Seven
<1>26. QED
  BY <1>11, <1>25 DEF P0

\* Handing the data lines over, whatever drives the other lines.
LEMMA DataAway ==
  ASSUME NEW cycles, NEW b, NEW l, NEW s, Fits(cycles, b, l, s)
  PROVE  Triple(cycles, Quiet(b, l, s), data_bus_input, Quiet(b, l, s))
<1> DEFINE P == Quiet(b, l, s)
<1>1. \A st \in P : \A a : Turned(st, a, {"data"}, FALSE) => a \in P
  BY DEF Quiet, Groups, Turned
<1>2. \A st \in P : \A a : Set(st, a, {"data"}, [q \in {"data"} |-> 0]) => a \in P
  BY DEF Quiet, Pins, Set
<1>3. {"data"} \subseteq Groups /\ "we" \notin {"data"} /\ "data" \in Pins
  BY DEF Groups, Pins
<1>4. P \subseteq Quiet(b, l, s)
  OBVIOUS
<1> HIDE DEF P
<1>5. Triple(cycles, P, <<Ddr({"data"}, FALSE)>>, P)
  BY <1>1, <1>3, <1>4, DdrWrite
<1>6. Triple(cycles, P, <<Pin("data", 0)>>, P)
  BY <1>2, <1>3, <1>4, PinWrite
<1>7. QED
  BY <1>5, <1>6, Two DEF data_bus_input, P

\* Shutting Gary out, and letting him in again.
LEMMA Isolate ==
  ASSUME NEW cycles, NEW l, NEW s, Fits(cycles, FALSE, l, s)
  PROVE  Triple(cycles, Quiet(FALSE, l, s), oe_buf_isolate, Quiet(TRUE, l, s))
<1> DEFINE P0 == Quiet(FALSE, l, s)
           P1 == {st \in P0 : st.ddr["buf"]}
           P2 == Quiet(TRUE, l, s)
<1>1. \A st \in P0 : \A a : Turned(st, a, {"buf"}, TRUE) => a \in P1
  BY DEF Quiet, Groups, Turned
<1>2. \A st \in P1 : \A a : Set(st, a, {"buf"}, [q \in {"buf"} |-> 0]) => a \in P2
  BY DEF Quiet, Pins, Set
<1>3. {"buf"} \subseteq Groups /\ "we" \notin {"buf"} /\ "buf" \in Pins
  BY DEF Groups, Pins
<1>4. /\ P0 \subseteq Quiet(FALSE, l, s) /\ P1 \subseteq Quiet(FALSE, l, s)
      /\ P2 \subseteq Quiet(FALSE, l, s)
  BY Modes
<1> HIDE DEF P0, P1, P2
<1>5. Triple(cycles, P0, <<Ddr({"buf"}, TRUE)>>, P1)
  BY <1>1, <1>3, <1>4, DdrWrite
<1>6. Triple(cycles, P1, <<Pin("buf", 0)>>, P2)
  BY <1>2, <1>3, <1>4, PinWrite
<1>7. QED
  BY <1>5, <1>6, Two DEF oe_buf_isolate, P0, P2

LEMMA Release ==
  ASSUME NEW cycles, NEW l, NEW s, Fits(cycles, FALSE, l, s),
         NEW P \in {Quiet(FALSE, l, s), Free(FALSE, l, s)}
  PROVE  Triple(cycles, P, oe_buf_release, P)
<1>1. \A st \in P : \A a : Turned(st, a, {"buf"}, FALSE) => a \in P
  BY DEF Quiet, Free, Groups, Turned
<1>2. \A st \in P : \A a : Set(st, a, {"buf"}, [q \in {"buf"} |-> 0]) => a \in P
  BY DEF Quiet, Free, Pins, Set
<1>3. {"buf"} \subseteq Groups /\ "we" \notin {"buf"} /\ "buf" \in Pins
  BY DEF Groups, Pins
<1>4. P \subseteq Quiet(FALSE, l, s)
  BY Modes
<1>5. Triple(cycles, P, <<Ddr({"buf"}, FALSE)>>, P)
  BY <1>1, <1>3, <1>4, DdrWrite
<1>6. Triple(cycles, P, <<Pin("buf", 0)>>, P)
  BY <1>2, <1>3, <1>4, PinWrite
<1>7. QED
  BY <1>5, <1>6, Two DEF oe_buf_release

\* The AMD reset.
LEMMA Reset ==
  ASSUME NEW cycles, NEW b, NEW s
  PROVE  /\ Issues(cycles, b, s, flash_cmd(0, 240), AmdReset)
         /\ Issues(cycles, b, s, flash_reset, AmdReset)
<1>1. Issues(cycles, b, s, flash_cmd(0, 240), AmdReset)
  BY IssueCmd DEF AmdReset
<1>2. AmdReset \in Seq(Nat \X Nat)
  BY <1>1 DEF Issues
<1>3. ASSUME NEW l \in Seq(Nat \X Nat), Fits(cycles, b, l \o AmdReset, s),
             b \/ cycles.name # "program"
      PROVE  Triple(cycles, Quiet(b, l, s), flash_reset, Quiet(b, l \o AmdReset, s))
  <2>1. Triple(cycles, Quiet(b, l, s), flash_cmd(0, 240), Quiet(b, l \o AmdReset, s))
    BY <1>1, <1>3 DEF Issues
  <2>2. Triple(cycles, Quiet(b, l \o AmdReset, s), data_bus_input, Quiet(b, l \o AmdReset, s))
    BY <1>3, DataAway
  <2>3. QED
    BY <2>1, <2>2, Then DEF flash_reset
<1>4. QED
  BY <1>1, <1>2, <1>3 DEF Issues

-----------------------------------------------------------------------------
(* Reading.                                                                *)

\* A loop whose i-th round leads from the set M[i - 1] to M[i].
LEMMA Loop ==
  ASSUME NEW cycles, NEW n \in Nat, NEW seqs, Len(seqs) = n, n = 0 => seqs = <<>>,
         NEW M, \A i \in 1 .. n : Triple(cycles, M[i - 1], seqs[i], M[i]),
         \A st \in M[0] : st \in States /\ Good(cycles, st)
  PROVE  Triple(cycles, M[0], FlattenSeq(seqs), M[n])
<1>1. CASE n = 0
  <2>1. FlattenSeq(seqs) = <<>>
    BY <1>1 DEF FlattenSeq
  <2>2. Triple(cycles, M[0], <<>>, M[0])
    BY Skip
  <2>3. QED
    BY <1>1, <2>1, <2>2
<1>2. CASE n # 0
  <2>1. PICK f : /\ FlattenSeq(seqs) = f[n] /\ f[1] = seqs[1]
                 /\ \A i \in 2 .. n : f[i] = f[i - 1] \o seqs[i]
    <3>1. n \in Nat \ {0}
      BY <1>2
    <3>2. QED
      BY <3>1, FlattenIs, Zenon
  <2> DEFINE S == {k \in Nat : k \in 1 .. n => Triple(cycles, M[0], f[k], M[k])}
  <2>2. 0 \in S
    OBVIOUS
  <2>3. ASSUME NEW k \in Nat, k \in S, k + 1 \in 1 .. n
        PROVE  Triple(cycles, M[0], f[k + 1], M[k + 1])
    <3>1. Triple(cycles, M[k], seqs[k + 1], M[k + 1])
      <4>1. k + 1 - 1 = k
        OBVIOUS
      <4>2. QED
        BY <2>3, <4>1
    <3>2. CASE k = 0
      BY <2>1, <3>1, <3>2
    <3>3. CASE k # 0
      <4>1. k \in 1 .. n /\ k + 1 \in 2 .. n /\ k + 1 - 1 = k
        BY <2>3, <3>3
      <4>2. f[k + 1] = f[k] \o seqs[k + 1]
        <5>1. PICK j \in 2 .. n : j = k + 1
          BY <4>1
        <5>2. f[j] = f[j - 1] \o seqs[j]
          BY <2>1
        <5>3. j - 1 = k
          BY <5>1
        <5>4. QED
          BY <5>1, <5>2, <5>3, Zenon
      <4>3. Triple(cycles, M[0], f[k], M[k])
        BY <2>3, <4>1
      <4>4. QED
        BY <3>1, <4>2, <4>3, Then
    <3>4. QED
      BY <3>2, <3>3
  <2>4. ASSUME NEW k \in Nat, k \in S PROVE k + 1 \in S
    <3>1. k + 1 \in Nat
      OBVIOUS
    <3>2. k + 1 \in 1 .. n => Triple(cycles, M[0], f[k + 1], M[k + 1])
      BY <2>3, <2>4
    <3>3. QED
      BY <3>1, <3>2
  <2> HIDE DEF S
  <2>5. Nat \subseteq S
    BY <2>2, <2>4, SetInduction
  <2>6. n \in S /\ n \in 1 .. n
    BY <1>2, <2>5
  <2>7. Triple(cycles, M[0], f[n], M[n])
    BY <2>6 DEF S
  <2>8. QED
    BY <2>1, <2>7
<1>3. QED
  BY <1>1, <1>2

\* Pulling /OE low, for the flash to drive the data lines, and letting go of it.
LEMMA OeWrites ==
  ASSUME NEW cycles, NEW b, NEW l, NEW s, Fits(cycles, b, l, s)
  PROVE  /\ Triple(cycles, Ready(b, l, s), <<OE_LOW>>, Reading(b, l, s))
         /\ Triple(cycles, Reading(b, l, s), <<OE_HIGH>>, Ready(b, l, s))
<1> DEFINE P == Ready(b, l, s)
           R == Reading(b, l, s)
<1>1. \A st \in P : \A a : Set(st, a, {"oe"}, [q \in {"oe"} |-> 0]) => a \in R
  BY DEF Quiet, Addressed, Ready, Reading, Pins, Set
<1>2. \A st \in R : \A a : Set(st, a, {"oe"}, [q \in {"oe"} |-> 1]) => a \in P
  BY DEF Quiet, Addressed, Ready, Reading, Pins, Set
<1>3. P \subseteq Quiet(b, l, s) /\ R \subseteq Quiet(b, l, s) /\ "oe" \in Pins
  BY Modes DEF Pins
<1> HIDE DEF P, R
<1>4. Triple(cycles, P, <<Pin("oe", 0)>>, R)
  BY <1>1, <1>3, PinWrite
<1>5. Triple(cycles, R, <<Pin("oe", 1)>>, P)
  BY <1>2, <1>3, PinWrite
<1>6. QED
  BY <1>4, <1>5 DEF OE_LOW, OE_HIGH, P, R

\* Reading a word.
LEMMA SampleWord ==
  ASSUME NEW cycles, NEW b, NEW l, NEW s, NEW wa \in Nat,
         Fits(cycles, b, l, s), Fits(cycles, b, l, Append(s, BusAddress(wa)))
  PROVE  Triple(cycles, AtAddress(Reading(b, l, s), wa), <<Sample>>,
                Reading(b, l, Append(s, BusAddress(wa))))
<1> DEFINE P == Reading(b, l, s)
           A == AtAddress(P, wa)
           ss == Append(s, BusAddress(wa))
           R == Reading(b, l, ss)
<1>2. Sample \in Ops
  BY DEF Ops
<1>3. A \subseteq P /\ P \subseteq Quiet(b, l, s) /\ Quiet(b, l, s) \subseteq States
  BY Modes DEF AtAddress
<1>4. ss \in Seq(Nat)
  BY DEF Fits
<1>5. \A st \in A : At(st) = BusAddress(wa)
  <2> DEFINE x == wa % ADDR_LOW
             y == (wa \div ADDR_LOW) % ADDR_HIGH
  <2>1. BusAddress(wa) = x + ADDR_LOW * y
    BY SplitAddress
  <2>2. A = {st \in P : st.port["low"] = x /\ st.port["high"] = y}
    BY DEF AtAddress
  <2> HIDE DEF x, y, A, P
  <2>3. QED
    BY <2>1, <2>2 DEF At
<1>6. ASSUME NEW st \in A PROVE Allowed(st, Sample) /\ After(st, Sample) \in R
  <2>1. /\ st \in States /\ Level(st, "we") = 1 /\ Level(st, "rst") = 1
        /\ st.ddr["we"] /\ st.port["we"] = 1 /\ st.latched = l /\ st.sampled = s
        /\ st.ddr["F"] /\ st.port["oe"] = 0 /\ st.ddr["addr"] /\ ~st.ddr["data"]
    BY <1>3 DEF Reading, Quiet, Level
  <2>2. Allowed(st, Sample)
    BY <2>1 DEF Allowed
  <2>3. After(st, Sample) =
          [ddr |-> st.ddr, port |-> st.port, irq |-> st.irq, latched |-> st.latched,
           sampled |-> ss]
    <3>1. Sample.set = "sample" /\ Append(st.sampled, At(st)) = ss
      BY <1>5, <2>1 DEF Sample
    <3> HIDE DEF ss
    <3>2. QED
      BY <2>1, <3>1 DEF After
  <2> HIDE DEF ss
  <2>4. After(st, Sample) \in States
    BY <1>4, <2>1, <2>3 DEF States
  <2>5. st \in Reading(b, l, s)
    BY <1>3
  <2>6. QED
    BY <2>2, <2>3, <2>4, <2>5 DEF Reading, Quiet
<1> HIDE DEF ss
<1>7. R \subseteq Quiet(b, l, ss) /\ R \subseteq States
  BY Modes
<1>8. \A st \in A : Good(cycles, st)
  BY <1>3, QuietGood
<1>9. \A st \in R : Good(cycles, st)
  BY <1>7, QuietGood DEF ss
<1> HIDE DEF A, R, P
<1>10. Triple(cycles, A, <<Sample>>, R)
  BY <1>2, <1>3, <1>6, <1>7, <1>8, <1>9, Write
<1>11. QED
  BY <1>10 DEF A, P, R, ss

LEMMA ReadWord ==
  ASSUME NEW cycles, NEW b, NEW l, NEW s, NEW wa \in Nat,
         Fits(cycles, b, l, s), Fits(cycles, b, l, Append(s, BusAddress(wa)))
  PROVE  Triple(cycles, Reading(b, l, s), set_address(wa) \o <<Sample>>,
                Reading(b, l, Append(s, BusAddress(wa))))
<1>1. Triple(cycles, Reading(b, l, s), set_address(wa), AtAddress(Reading(b, l, s), wa))
  BY SetAddress
<1>2. QED
  BY <1>1, SampleWord, Then

\* read_data() over the words of a buffer.
LEMMA AddressPrefixes ==
  ASSUME NEW wa \in Nat, NEW n \in Nat, NEW i \in 0 .. n
  PROVE  /\ AddressesFrom(wa, i) \in Seq(Nat) /\ Len(AddressesFrom(wa, i)) = i
         /\ IsPrefix(AddressesFrom(wa, i), AddressesFrom(wa, n))
         /\ i # 0 => AddressesFrom(wa, i) = Append(AddressesFrom(wa, i - 1), BusAddress(wa + i - 1))
<1>1. \A k \in Nat : AddressesFrom(wa, k) \in Seq(Nat) /\ Len(AddressesFrom(wa, k)) = k
  <2>1. ASSUME NEW k \in Nat PROVE AddressesFrom(wa, k) \in [1 .. k -> Nat]
    <3>1. \A j \in 1 .. k : BusAddress(wa + j - 1) \in Nat
      <4>1. \A j \in 1 .. k : wa + j - 1 \in Nat
        OBVIOUS
      <4>2. QED
        BY <4>1, SplitAddress
    <3>2. QED
      BY <3>1 DEF AddressesFrom
  <2>2. \A k \in Nat : AddressesFrom(wa, k) \in Seq(Nat) /\ DOMAIN AddressesFrom(wa, k) = 1 .. k
    BY <2>1, SeqDef
  <2>3. QED
    BY <2>2, LenProperties
<1>2. \A k \in Nat : \A j \in 1 .. k : AddressesFrom(wa, k)[j] = BusAddress(wa + j - 1)
  BY DEF AddressesFrom
<1>3. IsPrefix(AddressesFrom(wa, i), AddressesFrom(wa, n))
  <2> DEFINE a == AddressesFrom(wa, i)
             c == AddressesFrom(wa, n)
  <2>1. a \in Seq(Nat) /\ Len(a) = i /\ c \in Seq(Nat) /\ Len(c) = n /\ i \in Nat /\ i <= n
    BY <1>1
  <2>2. \A j \in 1 .. i : a[j] = c[j]
    BY <1>2
  <2> HIDE DEF a, c
  <2>3. SubSeq(a, 1, i) = a
    BY <2>1, SubSeqFull
  <2>4. /\ SubSeq(c, 1, i) \in Seq(Nat) /\ Len(SubSeq(c, 1, i)) = i
        /\ \A j \in 1 .. i : SubSeq(c, 1, i)[j] = c[j]
    BY <2>1
  <2>5. SubSeq(c, 1, i) = a
    BY <2>1, <2>2, <2>4, SeqEqual
  <2>6. QED
    BY <2>1, <2>3, <2>5 DEF IsPrefix, a, c
<1>4. ASSUME i # 0
      PROVE  AddressesFrom(wa, i) = Append(AddressesFrom(wa, i - 1), BusAddress(wa + i - 1))
  <2> DEFINE a == AddressesFrom(wa, i)
             c == AddressesFrom(wa, i - 1)
             x == BusAddress(wa + i - 1)
  <2>1. i - 1 \in Nat /\ wa + i - 1 \in Nat /\ i \in Nat
    BY <1>4
  <2>2. /\ a \in Seq(Nat) /\ Len(a) = i /\ c \in Seq(Nat) /\ Len(c) = i - 1 /\ x \in Nat
    BY <1>1, <2>1, SplitAddress
  <2>3. \A j \in 1 .. i - 1 : a[j] = c[j]
    BY <1>2, <2>1
  <2>4. a[i] = x
    BY <1>2, <1>4
  <2> HIDE DEF a, c, x
  <2>5. Append(c, x) \in Seq(Nat) /\ Len(Append(c, x)) = i
    BY <2>1, <2>2, AppendProperties
  <2>6. \A j \in 1 .. i : a[j] = Append(c, x)[j]
    <3>1. \A j \in 1 .. i - 1 : Append(c, x)[j] = c[j]
      BY <2>1, <2>2, AppendProperties
    <3>2. Append(c, x)[i] = x
      BY <2>1, <2>2, AppendProperties
    <3>3. \A j \in 1 .. i : j \in 1 .. i - 1 \/ j = i
      BY <2>1
    <3>4. QED
      BY <2>3, <2>4, <3>1, <3>2, <3>3
  <2>7. a = Append(c, x)
    BY <2>2, <2>5, <2>6, SeqEqual
  <2>8. QED
    BY <2>7 DEF a, c, x
<1>5. QED
  BY <1>1, <1>3, <1>4

LEMMA ReadWords ==
  ASSUME NEW cycles, NEW b, NEW l, NEW wa \in Nat, NEW n \in Nat,
         Fits(cycles, b, l, <<>>), cycles.reads = AddressesFrom(wa, n)
  PROVE  /\ Fits(cycles, b, l, AddressesFrom(wa, n))
         /\ Triple(cycles, Reading(b, l, <<>>),
                   FlattenSeq([i \in 1 .. n |-> set_address(wa + i - 1) \o <<Sample>>]),
                   Reading(b, l, AddressesFrom(wa, n)))
<1> DEFINE seqs == [i \in 1 .. n |-> set_address(wa + i - 1) \o <<Sample>>]
           M == [i \in 0 .. n |-> Reading(b, l, AddressesFrom(wa, i))]
<1>1. \A i \in 0 .. n : Fits(cycles, b, l, AddressesFrom(wa, i))
  BY AddressPrefixes DEF Fits
<1>2. ASSUME NEW i \in 1 .. n PROVE Triple(cycles, M[i - 1], seqs[i], M[i])
  <2>1. i \in 0 .. n /\ i - 1 \in 0 .. n /\ i # 0 /\ wa + i - 1 \in Nat
    OBVIOUS
  <2>2. AddressesFrom(wa, i) = Append(AddressesFrom(wa, i - 1), BusAddress(wa + i - 1))
    BY <2>1, AddressPrefixes
  <2>3. Triple(cycles, Reading(b, l, AddressesFrom(wa, i - 1)), set_address(wa + i - 1) \o <<Sample>>,
               Reading(b, l, AddressesFrom(wa, i)))
    BY <1>1, <2>1, <2>2, ReadWord
  <2>4. QED
    BY <2>1, <2>3
<1>3. AddressesFrom(wa, 0) = <<>>
  BY AddressPrefixes, EmptySeq
<1>4. M[0] = Reading(b, l, <<>>) /\ M[n] = Reading(b, l, AddressesFrom(wa, n))
  BY <1>3
<1>5. \A st \in M[0] : st \in States /\ Good(cycles, st)
  <2>1. Fits(cycles, b, l, <<>>)
    OBVIOUS
  <2>2. Reading(b, l, <<>>) \subseteq Quiet(b, l, <<>>) /\ Quiet(b, l, <<>>) \subseteq States
    BY Modes
  <2>3. \A st \in Reading(b, l, <<>>) : st \in States /\ Good(cycles, st)
    BY <2>1, <2>2, QuietGood
  <2>4. QED
    BY <1>4, <2>3
<1>6. Len(seqs) = n /\ (n = 0 => seqs = <<>>)
  OBVIOUS
<1> HIDE DEF seqs, M
<1>7. Triple(cycles, M[0], FlattenSeq(seqs), M[n])
  BY <1>2, <1>5, <1>6, Loop
<1>8. n \in 0 .. n
  OBVIOUS
<1>9. QED
  BY <1>1, <1>4, <1>7, <1>8 DEF seqs

\* The reset pulse of flash_hw_reset().
LEMMA RstPulse ==
  ASSUME NEW cycles, NEW l, NEW s, Fits(cycles, FALSE, l, s), cycles.name \in {"read", "flashReset"}
  PROVE  Triple(cycles, Quiet(FALSE, l, s), <<RST_LOW, RST_HIGH>>, Quiet(FALSE, l, s))
<1> DEFINE P == Quiet(FALSE, l, s)
           R == {st \in States : /\ st.ddr["we"] /\ st.port["we"] = 1 /\ st.ddr["rst"]
                                 /\ st.ddr["data"] => st.port["oe"] = 1
                                 /\ st.latched = l /\ st.sampled = s}
<1>1. \A st \in P : \A a : Set(st, a, {"rst"}, [q \in {"rst"} |-> 0]) => a \in R
  BY DEF Quiet, Pins, Set
<1>2. \A st \in R : \A a : Set(st, a, {"rst"}, [q \in {"rst"} |-> 1]) => a \in P
  BY DEF Quiet, Pins, Set
<1>3. \A st \in P : st \in States /\ Level(st, "we") = 1 /\ Good(cycles, st)
  <2>1. \A st \in P : Good(cycles, st)
    BY QuietGood
  <2>2. \A st \in P : st \in States /\ Level(st, "we") = 1
    BY DEF Quiet, Level
  <2>3. QED
    BY <2>1, <2>2
<1>4. \A st \in R : st \in States /\ Level(st, "we") = 1
  BY DEF Level
<1>5. ASSUME NEW st \in R PROVE Good(cycles, st)
  <2>1. st.latched = l /\ st.sampled = s /\ (st.ddr["data"] => st.port["oe"] = 1)
    OBVIOUS
  <2> HIDE DEF R
  <2>2. QED
    BY <1>4, <2>1 DEF Good, Fits
<1>6. "rst" \in Pins
  BY DEF Pins
<1> HIDE DEF P, R
<1>7. Triple(cycles, P, <<Pin("rst", 0)>>, R)
  BY <1>1, <1>3, <1>5, <1>6, CalmPin
<1>8. Triple(cycles, R, <<Pin("rst", 1)>>, P)
  BY <1>2, <1>3, <1>4, <1>5, <1>6, CalmPin
<1>9. QED
  BY <1>7, <1>8, Two DEF RST_LOW, RST_HIGH, P

\* flash_hw_reset(): the pulse, the AMD reset, and the bus released.
LEMMA HwReset ==
  ASSUME NEW cycles, NEW s, Fits(cycles, FALSE, <<>>, s), Fits(cycles, FALSE, AmdReset, s),
         cycles.name \in {"read", "flashReset"}
  PROVE  Triple(cycles, Quiet(FALSE, <<>>, s), flash_hw_reset, Free(FALSE, AmdReset, s))
<1>1. Triple(cycles, Quiet(FALSE, <<>>, s), <<RST_LOW, RST_HIGH>>, Quiet(FALSE, <<>>, s))
  BY RstPulse
<1>2. AmdReset \in Seq(Nat \X Nat) /\ <<>> \o AmdReset = AmdReset /\ <<>> \in Seq(Nat \X Nat)
  BY Reset, ConcatEmptySeq, EmptySeq DEF Issues
<1>3. Triple(cycles, Quiet(FALSE, <<>>, s), flash_cmd(0, 240), Quiet(FALSE, AmdReset, s))
  <2>1. Issues(cycles, FALSE, s, flash_cmd(0, 240), AmdReset)
    BY Reset
  <2>2. QED
    BY <1>2, <2>1 DEF Issues
<1>4. Triple(cycles, Quiet(FALSE, AmdReset, s), flash_bus_release, Free(FALSE, AmdReset, s))
  BY BusRelease
<1>5. Triple(cycles, Quiet(FALSE, <<>>, s), <<RST_LOW, RST_HIGH>> \o flash_cmd(0, 240),
             Quiet(FALSE, AmdReset, s))
  BY <1>1, <1>3, Then, ZenonT(40)
<1>6. QED
  BY <1>4, <1>5, Then, ZenonT(40) DEF flash_hw_reset

-----------------------------------------------------------------------------
(* The handlers.                                                           *)

\* After power-up, and after the low PE5, everything is an input.
Off ==
  {st \in States :
     /\ ~st.ddr["we"] /\ ~st.ddr["rst"] /\ ~st.ddr["data"]
     /\ st.latched = <<>> /\ st.sampled = <<>>}

\* A handler keeps every promise, if it starts with the bus released, and ends so.
Keeps(h, P) ==
  /\ h.cycles.writes \in Seq(Nat \X Nat) /\ h.cycles.reads \in Seq(Nat)
  /\ Triple(h.cycles, P, h.ops, Free(FALSE, h.cycles.writes, h.cycles.reads))
Idle == Free(FALSE, <<>>, <<>>)

\* Before the first cycle, and after the last.
LEMMA TrivialPrefixes ==
  ASSUME NEW S, NEW l \in Seq(S)
  PROVE  IsPrefix(<<>>, l) /\ IsPrefix(l, l)
<1>1. <<>> \in Seq(S)
  BY EmptySeq
<1>2. <<>> \o l = l /\ l \o <<>> = l
  BY ConcatEmptySeq
<1>3. IsPrefix(<<>>, <<>> \o l) /\ IsPrefix(l, l \o <<>>)
  BY <1>1, PrefixOfConcat
<1>4. QED
  BY <1>2, <1>3

LEMMA NoWords ==
  /\ <<>> \in Seq(Nat \X Nat) /\ <<>> \in Seq(Nat) /\ AmdReset \in Seq(Nat \X Nat)
  /\ \A l \in Seq(Nat \X Nat) :
       <<>> \o l = l /\ l \o <<>> = l /\ IsPrefix(<<>>, l) /\ IsPrefix(l, l)
  /\ \A s \in Seq(Nat) : IsPrefix(<<>>, s) /\ IsPrefix(s, s)
<1>1. <<>> \in Seq(Nat \X Nat) /\ <<>> \in Seq(Nat)
  BY EmptySeq
<1>2. AmdReset \in Seq(Nat \X Nat)
  <2>1. Issues(Return.cycles, FALSE, <<>>, flash_cmd(0, 240), AmdReset)
    BY Reset
  <2>2. QED
    BY <2>1 DEF Issues
<1>3. \A l \in Seq(Nat \X Nat) : <<>> \o l = l /\ l \o <<>> = l
  BY ConcatEmptySeq
<1>4. \A l \in Seq(Nat \X Nat) : IsPrefix(<<>>, l) /\ IsPrefix(l, l)
  <2> DEFINE C == Nat \X Nat
  <2> HIDE DEF C
  <2>1. \A l \in Seq(C) : IsPrefix(<<>>, l) /\ IsPrefix(l, l)
    BY TrivialPrefixes
  <2>2. QED
    BY <2>1 DEF C
<1>5. \A s \in Seq(Nat) : IsPrefix(<<>>, s) /\ IsPrefix(s, s)
  BY TrivialPrefixes
<1>6. QED
  BY <1>1, <1>2, <1>3, <1>4, <1>5

\* The first writes of flash_init(): the directions of /WE and /RST are written last.
LEMMA InitPins ==
  ASSUME NEW cycles, Fits(cycles, FALSE, <<>>, <<>>), cycles.name = "main"
  PROVE  Triple(cycles, Off,
           <<Ddr({"addr"}, TRUE), Pin("low", 0), Ddr({"F"}, TRUE), PortF(1),
             Port([q \in {"we", "rst", "buf", "avrReset"} |-> IF q \in {"we", "rst"} THEN 1 ELSE 0]),
             [set |-> "ddr", to |-> [g \in {"we", "rst", "buf", "avrReset"} |-> g \in {"we", "rst"}]]>>,
           Addressed(FALSE, <<>>, <<>>))
<1> DEFINE O1 == {st \in Off : st.ddr["addr"]}
           O2 == {st \in O1 : st.ddr["F"]}
           O3 == {st \in O2 : st.port["oe"] = 1}
           O4 == {st \in O3 : st.port["we"] = 1 /\ st.port["rst"] = 1}
           P == Addressed(FALSE, <<>>, <<>>)
           v == [q \in {"oe", "high"} |-> IF q = "oe" THEN 1 ELSE 0]
           D == {"we", "rst", "buf", "avrReset"}
           w == [q \in D |-> IF q \in {"we", "rst"} THEN 1 ELSE 0]
           f == [g \in D |-> g \in {"we", "rst"}]
           last == [set |-> "ddr", to |-> f]
<1>1. ASSUME NEW st \in Off
      PROVE  st \in States /\ Level(st, "we") = 1 /\ Good(cycles, st)
  <2>1. st \in States /\ Level(st, "we") = 1 /\ Level(st, "rst") = 1 /\ ~st.ddr["data"]
        /\ st.latched = <<>> /\ st.sampled = <<>>
    BY DEF Off, Level
  <2>2. QED
    BY <2>1 DEF Good, Fits
<1>2. \A st \in P : Good(cycles, st)
  BY Modes, QuietGood, ZenonT(40)
<1>3. /\ v \in [{"oe", "high"} -> Nat] /\ {"oe", "high"} \subseteq Pins /\ PortF(1) = Port(v)
      /\ D \subseteq Pins /\ w \in [D -> Nat] /\ D \subseteq Groups
      /\ {"addr"} \subseteq Groups /\ {"F"} \subseteq Groups /\ "low" \in Pins
  BY DEF Pins, PortF, Groups
<1>4. f \in [D -> BOOLEAN] /\ f["we"] /\ f["rst"]
  <2>1. \A g \in D : (g \in {"we", "rst"}) \in BOOLEAN
    OBVIOUS
  <2>2. QED
    BY <2>1
<1>5. \A st \in Off : \A a : Turned(st, a, {"addr"}, TRUE) => a \in O1
  BY DEF Off, Groups, Turned
<1>6. \A st \in O1 : \A a : Set(st, a, {"low"}, [q \in {"low"} |-> 0]) => a \in O1
  BY DEF Off, Pins, Set
<1>7. \A st \in O1 : \A a : Turned(st, a, {"F"}, TRUE) => a \in O2
  BY DEF Off, Groups, Turned
<1>8. \A st \in O2 : \A a : Set(st, a, {"oe", "high"}, v) => a \in O3
  BY DEF Off, Pins, Set
<1>9. \A st \in O3 : \A a : Set(st, a, D, w) => a \in O4
  BY DEF Off, Pins, Set
<1>10. ASSUME NEW st \in O4 PROVE After(st, last) \in P
  <2> DEFINE a == After(st, last)
  <2>1. /\ st \in States /\ ~st.ddr["data"] /\ st.ddr["addr"] /\ st.ddr["F"]
        /\ st.port["oe"] = 1 /\ st.port["we"] = 1 /\ st.port["rst"] = 1
        /\ st.latched = <<>> /\ st.sampled = <<>>
    BY DEF Off
  <2>2. Level(st, "we") = 1 /\ D \in SUBSET Groups
    BY <1>1, <1>3
  <2> HIDE DEF D
  <2>3. /\ a \in States /\ a.port = st.port /\ a.irq = st.irq
        /\ a.latched = st.latched /\ a.sampled = st.sampled
        /\ \A g \in Groups : a.ddr[g] = IF g \in D THEN f[g] ELSE st.ddr[g]
    <3> HIDE DEF f
    <3>1. QED
      BY <1>4, <2>1, <2>2, DdrFrom
  <2> HIDE DEF a, f
  <2>4. a.ddr["we"] /\ a.ddr["rst"] /\ a.ddr["addr"] /\ a.ddr["F"] /\ ~a.ddr["data"]
    BY <1>4, <2>1, <2>3 DEF D, Groups
  <2>5. QED
    BY <2>1, <2>3, <2>4 DEF Addressed, Quiet, a
<1>11. last \in Ops /\ \A st : Allowed(st, last)
  <2>1. D \in SUBSET Groups
    BY <1>3
  <2> HIDE DEF f, D
  <2>2. QED
    BY <1>4, <2>1, DdrOp
<1>12. /\ O1 \subseteq Off /\ O2 \subseteq Off /\ O3 \subseteq Off /\ O4 \subseteq Off
       /\ P \subseteq States
  BY Modes
<1> HIDE DEF O1, O2, O3, O4, P, v, w, f, last, D
<1>13. Triple(cycles, Off, <<Ddr({"addr"}, TRUE)>>, O1)
  BY <1>1, <1>3, <1>5, <1>12, CalmDdr
<1>14. Triple(cycles, O1, <<Pin("low", 0)>>, O1)
  BY <1>1, <1>3, <1>6, <1>12, CalmPin
<1>15. Triple(cycles, O1, <<Ddr({"F"}, TRUE)>>, O2)
  BY <1>1, <1>3, <1>7, <1>12, CalmDdr
<1>16. Triple(cycles, O2, <<PortF(1)>>, O3)
  BY <1>1, <1>3, <1>8, <1>12, CalmPort
<1>17. Triple(cycles, O3, <<Port(w)>>, O4)
  BY <1>1, <1>3, <1>9, <1>12, CalmPort
<1>18. Triple(cycles, O4, <<last>>, P)
  BY <1>1, <1>2, <1>10, <1>11, <1>12, Write
<1>19. Triple(cycles, Off, <<Ddr({"addr"}, TRUE), Pin("low", 0)>>, O1)
  BY <1>13, <1>14, Two
<1>20. Triple(cycles, O1, <<Ddr({"F"}, TRUE), PortF(1)>>, O3)
  BY <1>15, <1>16, Two
<1>21. Triple(cycles, O3, <<Port(w), last>>, P)
  BY <1>17, <1>18, Two
<1>22. Triple(cycles, Off, <<Ddr({"addr"}, TRUE), Pin("low", 0), Ddr({"F"}, TRUE), PortF(1)>>, O3)
  BY <1>19, <1>20, Four
<1>23. Triple(cycles, Off,
              <<Ddr({"addr"}, TRUE), Pin("low", 0), Ddr({"F"}, TRUE), PortF(1), Port(w), last>>, P)
  BY <1>21, <1>22, Six
<1>24. QED
  BY <1>23 DEF P, w, f, last, D

LEMMA PlainFits ==
  ASSUME NEW cycles, cycles.name \notin {"erase", "program"},
         cycles.writes \in Seq(Nat \X Nat), cycles.reads \in Seq(Nat),
         NEW l \in Seq(Nat \X Nat), IsPrefix(l, cycles.writes),
         NEW s \in Seq(Nat), IsPrefix(s, cycles.reads)
  PROVE  Fits(cycles, FALSE, l, s)
BY DEF Fits

\* main(), from power-up; then each of protocol_task()'s handlers.
LEMMA KeepsMain == Keeps(Main, Off)
<1> DEFINE c == Main.cycles
<1>1. c.name = "main" /\ c.writes = AmdReset /\ c.reads = <<>> /\ Main.ops = StartUp
  BY DEF Main, Handler
<1> HIDE DEF c
<1>2. Fits(c, FALSE, <<>>, <<>>) /\ Fits(c, FALSE, AmdReset, <<>>)
  BY <1>1, NoWords, PlainFits
<1> DEFINE pins ==
             <<Ddr({"addr"}, TRUE), Pin("low", 0), Ddr({"F"}, TRUE), PortF(1),
               Port([q \in {"we", "rst", "buf", "avrReset"} |-> IF q \in {"we", "rst"} THEN 1 ELSE 0]),
               [set |-> "ddr", to |-> [g \in {"we", "rst", "buf", "avrReset"} |-> g \in {"we", "rst"}]]>>
           P1 == Addressed(FALSE, <<>>, <<>>)
           P2 == Ready(FALSE, <<>>, <<>>)
           P3 == Quiet(FALSE, <<>>, <<>>)
           P4 == Quiet(FALSE, AmdReset, <<>>)
           P5 == Free(FALSE, AmdReset, <<>>)
<1>3. Triple(c, Off, pins, P1)
  BY <1>1, <1>2, InitPins
<1>4. Triple(c, P1, data_bus_input, P2)
  BY <1>2, DataBusInput
<1>5. Triple(c, P2, <<RST_HIGH>>, P3)
  <2>1. \A st \in P2 : \A a : Set(st, a, {"rst"}, [q \in {"rst"} |-> 1]) => a \in P3
    BY DEF Quiet, Addressed, Ready, Pins, Set
  <2>2. /\ P2 \subseteq Quiet(FALSE, <<>>, <<>>) /\ P3 \subseteq Quiet(FALSE, <<>>, <<>>)
        /\ "rst" \in Pins
    BY Modes DEF Pins
  <2> HIDE DEF P2, P3
  <2>3. QED
    BY <1>2, <2>1, <2>2, PinWrite DEF RST_HIGH
<1>6. Triple(c, P3, flash_cmd(0, 240), P4)
  <2>1. Issues(c, FALSE, <<>>, flash_cmd(0, 240), AmdReset)
    BY Reset
  <2>2. Fits(c, FALSE, <<>> \o AmdReset, <<>>) /\ c.name # "program"
    BY <1>1, <1>2, NoWords
  <2>3. Triple(c, Quiet(FALSE, <<>>, <<>>), flash_cmd(0, 240), Quiet(FALSE, <<>> \o AmdReset, <<>>))
    BY <2>1, <2>2, NoWords DEF Issues
  <2>4. QED
    BY <2>3, NoWords
<1>7. Triple(c, P4, flash_bus_release, P5)
  BY <1>2, BusRelease
<1>8. Triple(c, P5, <<Irq(TRUE)>>, P5)
  <2>1. P5 \subseteq Quiet(FALSE, AmdReset, <<>>)
    BY Modes
  <2>2. \A st \in P5 : \A a : Masked(st, a, TRUE) => a \in P5
    BY DEF Free, Quiet, Masked
  <2> HIDE DEF P5
  <2>3. QED
    BY <1>2, <2>1, <2>2, IrqWrite
<1>9. flash_init = pins \o data_bus_input \o <<RST_HIGH>> \o flash_cmd(0, 240) \o flash_bus_release
  BY DEF flash_init
<1> HIDE DEF P1, P2, P3, P4, P5, pins
<1>10. Triple(c, Off, pins \o data_bus_input, P2)
  BY <1>3, <1>4, Then
<1>11. Triple(c, Off, pins \o data_bus_input \o <<RST_HIGH>>, P3)
  BY <1>5, <1>10, Then
<1>12. Triple(c, Off, pins \o data_bus_input \o <<RST_HIGH>> \o flash_cmd(0, 240), P4)
  BY <1>6, <1>11, Then
<1>13. Triple(c, Off, flash_init, P5)
  BY <1>7, <1>9, <1>12, Then
<1>14. Triple(c, Off, StartUp, P5)
  BY <1>8, <1>13, Then DEF StartUp
<1>15. QED
  BY <1>1, <1>14, NoWords DEF Keeps, c, P5

LEMMA KeepsReturn == Keeps(Return, Idle)
<1>1. Return.ops = <<>> /\ Return.cycles.name = "return"
      /\ Return.cycles.writes = <<>> /\ Return.cycles.reads = <<>>
  BY DEF Return, Handler
<1>2. Fits(Return.cycles, FALSE, <<>>, <<>>)
  BY <1>1, NoWords, PlainFits
<1>3. Idle \subseteq Quiet(FALSE, <<>>, <<>>) /\ Quiet(FALSE, <<>>, <<>>) \subseteq States
  BY Modes DEF Idle
<1>4. \A st \in Idle : st \in States /\ Good(Return.cycles, st)
  BY <1>2, <1>3, QuietGood
<1>5. Triple(Return.cycles, Idle, <<>>, Idle)
  BY <1>4, Skip
<1>6. QED
  BY <1>1, <1>5, NoWords DEF Keeps, Idle

LEMMA KeepsRefuse == Keeps(Refuse, Idle)
<1>1. Refuse.ops = flash_bus_release /\ Refuse.cycles.name = "refuse"
      /\ Refuse.cycles.writes = <<>> /\ Refuse.cycles.reads = <<>>
  BY DEF Refuse, Handler
<1>2. Fits(Refuse.cycles, FALSE, <<>>, <<>>)
  BY <1>1, NoWords, PlainFits
<1>3. Triple(Refuse.cycles, Quiet(FALSE, <<>>, <<>>), flash_bus_release, Idle)
  BY <1>2, BusRelease DEF Idle
<1>4. Idle \subseteq Quiet(FALSE, <<>>, <<>>)
  BY Modes DEF Idle
<1>5. Triple(Refuse.cycles, Idle, flash_bus_release, Idle)
  BY <1>3, <1>4, Weaken
<1>6. QED
  BY <1>1, <1>5, NoWords DEF Keeps, Idle

LEMMA KeepsEraseOver == Keeps(EraseOver, Idle)
<1> DEFINE c == EraseOver.cycles
           Q == Quiet(FALSE, <<>>, <<>>)
           R == Quiet(FALSE, AmdReset, <<>>)
           F == Free(FALSE, AmdReset, <<>>)
<1>1. EraseOver.ops = flash_reset \o oe_buf_release \o flash_bus_release /\ c.name = "eraseOver"
      /\ c.writes = AmdReset /\ c.reads = <<>>
  BY DEF EraseOver, Handler
<1> HIDE DEF c
<1>2. Fits(c, FALSE, <<>>, <<>>) /\ Fits(c, FALSE, AmdReset, <<>>)
  BY <1>1, NoWords, PlainFits
<1>3. Triple(c, Q, flash_reset, R)
  <2>1. Issues(c, FALSE, <<>>, flash_reset, AmdReset)
    BY Reset
  <2>2. Fits(c, FALSE, <<>> \o AmdReset, <<>>) /\ c.name # "program"
    BY <1>1, <1>2, NoWords
  <2>3. Triple(c, Quiet(FALSE, <<>>, <<>>), flash_reset, Quiet(FALSE, <<>> \o AmdReset, <<>>))
    BY <2>1, <2>2, NoWords DEF Issues
  <2>4. QED
    BY <2>3, NoWords
<1>4. Triple(c, R, oe_buf_release, R)
  BY <1>2, Release
<1>5. Triple(c, R, flash_bus_release, F)
  BY <1>2, BusRelease
<1>6. Idle \subseteq Q
  BY Modes DEF Idle
<1> HIDE DEF Q, R, F
<1>7. Triple(c, Q, flash_reset \o oe_buf_release, R)
  BY <1>3, <1>4, Then
<1>8. Triple(c, Q, EraseOver.ops, F)
  BY <1>1, <1>5, <1>7, Then
<1>9. Triple(c, Idle, EraseOver.ops, F)
  BY <1>6, <1>8, Weaken
<1>10. QED
  BY <1>1, <1>9, NoWords DEF Keeps, F, c

LEMMA KeepsAvrReset == Keeps(AvrReset, Idle)
<1> DEFINE c == AvrReset.cycles
           Q == Quiet(FALSE, <<>>, <<>>)
<1>1. AvrReset.ops = flash_bus_release \o oe_buf_release
                       \o <<Ddr({"avrReset"}, TRUE), Pin("avrReset", 0)>>
      /\ c.name = "avrReset" /\ c.writes = <<>> /\ c.reads = <<>>
  BY DEF AvrReset, Handler
<1> HIDE DEF c
<1>2. Fits(c, FALSE, <<>>, <<>>)
  BY <1>1, NoWords, PlainFits
<1>3. Triple(c, Q, flash_bus_release, Idle)
  BY <1>2, BusRelease DEF Idle
<1>4. Triple(c, Idle, oe_buf_release, Idle)
  BY <1>2, Release DEF Idle
<1>5. \A st \in Idle : \A a : Turned(st, a, {"avrReset"}, TRUE) => a \in Idle
  BY DEF Idle, Free, Quiet, Groups, Turned
<1>6. \A st \in Idle : \A a : Set(st, a, {"avrReset"}, [q \in {"avrReset"} |-> 0]) => a \in Idle
  BY DEF Idle, Free, Quiet, Pins, Set
<1>7. {"avrReset"} \subseteq Groups /\ "we" \notin {"avrReset"} /\ "avrReset" \in Pins
  BY DEF Groups, Pins
<1>8. Idle \subseteq Q
  BY Modes DEF Idle
<1>9. Triple(c, Idle, <<Ddr({"avrReset"}, TRUE)>>, Idle)
  BY <1>2, <1>5, <1>7, <1>8, DdrWrite
<1>10. Triple(c, Idle, <<Pin("avrReset", 0)>>, Idle)
  BY <1>2, <1>6, <1>7, <1>8, PinWrite
<1> HIDE DEF Q
<1>11. Triple(c, Idle, <<Ddr({"avrReset"}, TRUE), Pin("avrReset", 0)>>, Idle)
  BY <1>9, <1>10, Two
<1>12. Triple(c, Q, flash_bus_release \o oe_buf_release, Idle)
  BY <1>3, <1>4, Then
<1>13. Triple(c, Q, AvrReset.ops, Idle)
  BY <1>1, <1>11, <1>12, Then
<1>14. Triple(c, Idle, AvrReset.ops, Idle)
  BY <1>8, <1>13, Weaken
<1>15. QED
  BY <1>1, <1>14, NoWords DEF Keeps, Idle, c

LEMMA ReadOps ==
  ASSUME NEW c, NEW wa \in Nat, NEW n \in Nat, c.name \in {"read", "flashReset"},
         c.writes = AmdReset, c.reads = AddressesFrom(wa, n)
  PROVE  /\ c.reads \in Seq(Nat)
         /\ Triple(c, Idle, flash_hw_reset \o flash_read_buffer(wa, n) \o flash_bus_release,
                   Free(FALSE, AmdReset, AddressesFrom(wa, n)))
<1> DEFINE as == AddressesFrom(wa, n)
           words == FlattenSeq([i \in 1 .. n |-> set_address(wa + i - 1) \o <<Sample>>])
           Q == Quiet(FALSE, <<>>, <<>>)
           P1 == Quiet(FALSE, AmdReset, <<>>)
           P2 == Addressed(FALSE, AmdReset, <<>>)
           P3 == Ready(FALSE, AmdReset, <<>>)
           P4 == Reading(FALSE, AmdReset, <<>>)
           P5 == Reading(FALSE, AmdReset, as)
           P6 == Ready(FALSE, AmdReset, as)
           P7 == Quiet(FALSE, AmdReset, as)
           P8 == Free(FALSE, AmdReset, as)
<1>1. as \in Seq(Nat)
  <2>1. n \in 0 .. n
    OBVIOUS
  <2>2. QED
    BY <2>1, AddressPrefixes
<1>2. Fits(c, FALSE, <<>>, <<>>) /\ Fits(c, FALSE, AmdReset, <<>>)
  BY <1>1, NoWords, PlainFits
<1>3. /\ Fits(c, FALSE, AmdReset, as)
      /\ Triple(c, P4, words, P5)
  BY <1>2, ReadWords
<1>4. Triple(c, Q, flash_hw_reset, P1)
  <2>1. Triple(c, Q, flash_hw_reset, Free(FALSE, AmdReset, <<>>))
    BY <1>2, HwReset
  <2>2. Free(FALSE, AmdReset, <<>>) \subseteq P1
    BY Modes
  <2> HIDE DEF Q, P1
  <2>3. QED
    BY <2>1, <2>2, Weaken
<1>5. Triple(c, P1, addr_bus_output, P2)
  BY <1>2, AddrBusOutput
<1>6. Triple(c, P2, <<WE_HIGH>>, P2)
  <2>1. \A st \in P2 : \A a : Set(st, a, {"we"}, [q \in {"we"} |-> 1]) => a \in P2
    BY DEF Quiet, Addressed, Pins, Set
  <2>2. P2 \subseteq Quiet(FALSE, AmdReset, <<>>) /\ "we" \in Pins
    BY Modes DEF Pins
  <2> HIDE DEF P2
  <2>3. QED
    BY <1>2, <2>1, <2>2, PinWrite DEF WE_HIGH
<1>7. Triple(c, P2, data_bus_input, P3)
  BY <1>2, DataBusInput
<1>8. Triple(c, P3, set_address(wa), P3)
  <2>1. Triple(c, P3, set_address(wa), AtAddress(P3, wa))
    BY <1>2, SetAddress
  <2>2. AtAddress(P3, wa) \subseteq P3
    BY DEF AtAddress
  <2> HIDE DEF P3
  <2>3. QED
    BY <2>1, <2>2, Weaken
<1>9. Triple(c, P3, <<OE_LOW>>, P4)
  BY <1>2, OeWrites
<1>10. Triple(c, P5, <<OE_HIGH>>, P6)
  BY <1>3, OeWrites
<1>11. Triple(c, P6, data_bus_input, P7)
  <2>1. Triple(c, P7, data_bus_input, P7)
    BY <1>3, DataAway
  <2>2. P6 \subseteq P7
    BY Modes
  <2> HIDE DEF P6, P7
  <2>3. QED
    BY <2>1, <2>2, Weaken
<1>12. Triple(c, P7, flash_bus_release, P8)
  BY <1>3, BusRelease
<1>13. Idle \subseteq Q
  BY Modes DEF Idle
<1>14. flash_read_buffer(wa, n) =
         addr_bus_output \o <<WE_HIGH>> \o data_bus_input \o set_address(wa) \o <<OE_LOW>>
           \o words \o <<OE_HIGH>> \o data_bus_input
  BY DEF flash_read_buffer
<1> HIDE DEF Q, P1, P2, P3, P4, P5, P6, P7, P8, words
<1>15. Triple(c, P1, addr_bus_output \o <<WE_HIGH>>, P2)
  BY <1>5, <1>6, Then
<1>16. Triple(c, P1, addr_bus_output \o <<WE_HIGH>> \o data_bus_input, P3)
  BY <1>7, <1>15, Then
<1>17. Triple(c, P1, addr_bus_output \o <<WE_HIGH>> \o data_bus_input \o set_address(wa), P3)
  BY <1>8, <1>16, Then
<1>18. Triple(c, P1, addr_bus_output \o <<WE_HIGH>> \o data_bus_input \o set_address(wa)
                       \o <<OE_LOW>>, P4)
  BY <1>9, <1>17, Then
<1>19. Triple(c, P1, addr_bus_output \o <<WE_HIGH>> \o data_bus_input \o set_address(wa)
                       \o <<OE_LOW>> \o words, P5)
  BY <1>3, <1>18, Then
<1>20. Triple(c, P1, addr_bus_output \o <<WE_HIGH>> \o data_bus_input \o set_address(wa)
                       \o <<OE_LOW>> \o words \o <<OE_HIGH>>, P6)
  BY <1>10, <1>19, Then
<1>21. Triple(c, P1, flash_read_buffer(wa, n), P7)
  BY <1>11, <1>14, <1>20, Then
<1>22. Triple(c, Q, flash_hw_reset \o flash_read_buffer(wa, n), P7)
  BY <1>4, <1>21, Then
<1>23. Triple(c, Q, flash_hw_reset \o flash_read_buffer(wa, n) \o flash_bus_release, P8)
  BY <1>12, <1>22, Then
<1>24. Triple(c, Idle, flash_hw_reset \o flash_read_buffer(wa, n) \o flash_bus_release, P8)
  BY <1>13, <1>23, Weaken
<1>25. QED
  BY <1>1, <1>24 DEF P8

LEMMA KeepsRead ==
  ASSUME NEW wa \in Nat, NEW n \in Nat
  PROVE  Keeps(Read(wa, n), Idle)
<1> DEFINE h == Read(wa, n)
<1>1. /\ h.ops = flash_hw_reset \o flash_read_buffer(wa, n) \o flash_bus_release
      /\ h.cycles.name = "read" /\ h.cycles.writes = AmdReset
      /\ h.cycles.reads = AddressesFrom(wa, n)
  BY DEF Read, Handler
<1> HIDE DEF h
<1>2. /\ h.cycles.reads \in Seq(Nat)
      /\ Triple(h.cycles, Idle, h.ops, Free(FALSE, AmdReset, AddressesFrom(wa, n)))
  BY <1>1, ReadOps
<1>3. QED
  BY <1>1, <1>2, NoWords DEF Keeps, h

LEMMA KeepsFlashReset == Keeps(FlashReset, Idle)
<1> DEFINE h == FlashReset
<1>1. /\ h.ops = flash_hw_reset \o flash_read_buffer(0, 2) \o flash_bus_release
      /\ h.cycles.name = "flashReset" /\ h.cycles.writes = AmdReset
      /\ h.cycles.reads = AddressesFrom(0, 2)
  BY DEF FlashReset, Read, Handler
<1> HIDE DEF h
<1>2. /\ h.cycles.reads \in Seq(Nat)
      /\ Triple(h.cycles, Idle, h.ops, Free(FALSE, AmdReset, AddressesFrom(0, 2)))
  BY <1>1, ReadOps
<1>3. QED
  BY <1>1, <1>2, NoWords DEF Keeps, h

LEMMA KeepsIdentify == Keeps(Identify, Idle)
<1> DEFINE c == Identify.cycles
           u == AmdUnlock \o <<W(X555, 144)>>
           w == u \o AmdReset
           C == Nat \X Nat
           Q == Quiet(FALSE, <<>>, <<>>)
           P1 == Quiet(FALSE, AmdUnlock, <<>>)
           P2 == Driven(FALSE, u, <<>>)
           P3 == Ready(FALSE, u, <<>>)
           P4 == Reading(FALSE, u, <<>>)
           P5 == AtAddress(P4, 0)
           P6 == Reading(FALSE, u, <<0>>)
           P7 == AtAddress(P6, 1)
           P8 == Reading(FALSE, u, <<0, 1>>)
           P9 == Ready(FALSE, u, <<0, 1>>)
           P10 == Quiet(FALSE, u, <<0, 1>>)
           P11 == Quiet(FALSE, w, <<0, 1>>)
           P12 == Free(FALSE, w, <<0, 1>>)
<1>1. Identify.ops = flash_read_id \o flash_bus_release /\ c.name = "identify"
      /\ c.writes = w /\ c.reads = <<0, 1>>
  BY DEF Identify, Handler
<1>2. /\ AmdUnlock \in Seq(C) /\ <<W(X555, 144)>> \in Seq(C) /\ AmdReset \in Seq(C)
      /\ u \in Seq(C) /\ w \in Seq(C)
  <2>1. AmdUnlock \in Seq(C) /\ AmdReset \in Seq(C) /\ <<W(X555, 144)>> \in Seq(C)
    <3>1. Issues(c, FALSE, <<>>, unlock, AmdUnlock)
      BY Unlock
    <3>2. <<W(X555, 144)>> \in Seq(C)
      <4>1. X555 \in Nat /\ 144 \in Nat
        BY Unlock
      <4>2. QED
        BY <4>1, Cycle
    <3>3. QED
      BY <3>1, <3>2, NoWords DEF Issues
  <2> HIDE DEF C
  <2>2. u \in Seq(C)
    BY <2>1, ConcatProperties
  <2>3. QED
    BY <2>1, <2>2, ConcatProperties
<1>3. IsPrefix(AmdUnlock, w) /\ IsPrefix(u, w) /\ IsPrefix(w, w) /\ IsPrefix(<<>>, w)
  <2> HIDE DEF C
  <2>1. IsPrefix(u, w)
    <3> HIDE DEF u
    <3>1. QED
      BY <1>2, PrefixOfConcat
  <2>2. IsPrefix(AmdUnlock, w)
    <3> DEFINE k == <<W(X555, 144)>>
    <3> HIDE DEF w
    <3>1. IsPrefix(AmdUnlock \o k, w)
      BY <2>1
    <3>2. AmdUnlock \in Seq(C) /\ k \in Seq(C) /\ w \in Seq(C)
      BY <1>2
    <3> HIDE DEF k
    <3>3. QED
      BY <3>1, <3>2, PrefixOfConcat
  <2>3. QED
    BY <1>2, <2>1, <2>2, TrivialPrefixes
<1>4. /\ <<0>> \in Seq(Nat) /\ <<0, 1>> \in Seq(Nat)
      /\ <<0>> = Append(<<>>, BusAddress(0)) /\ <<0, 1>> = Append(<<0>>, BusAddress(1))
      /\ IsPrefix(<<>>, <<0, 1>>) /\ IsPrefix(<<0>>, <<0, 1>>) /\ IsPrefix(<<0, 1>>, <<0, 1>>)
  <2>1. BusAddress(0) = 0 /\ BusAddress(1) = 1
    <3> DEFINE m == ADDR_LOW * ADDR_HIGH
    <3>1. m \in Nat /\ m > 1
      <4>1. ADDR_LOW \in Nat /\ ADDR_LOW >= 2 /\ ADDR_HIGH \in Nat /\ ADDR_HIGH >= 1
        BY AddressAssumption
      <4>2. PICK d \in Nat : ADDR_HIGH = 1 + d
        <5>1. ADDR_HIGH - 1 \in Nat /\ ADDR_HIGH = 1 + (ADDR_HIGH - 1)
          BY <4>1
        <5>2. QED
          BY <5>1
      <4>3. m = ADDR_LOW + ADDR_LOW * d /\ ADDR_LOW * d \in Nat
        BY <4>1, <4>2
      <4>4. QED
        BY <4>1, <4>3
    <3> HIDE DEF m
    <3>2. 0 % m = 0 /\ 1 % m = 1
      BY <3>1
    <3>3. QED
      BY <3>2 DEF BusAddress, m
  <2>2. <<0>> \in Seq(Nat) /\ <<0, 1>> \in Seq(Nat) /\ <<1>> \in Seq(Nat)
    OBVIOUS
  <2>3. <<0>> = Append(<<>>, 0) /\ <<0, 1>> = Append(<<0>>, 1)
    OBVIOUS
  <2>4. <<0, 1>> = <<0>> \o <<1>>
    OBVIOUS
  <2>5. IsPrefix(<<0>>, <<0>> \o <<1>>)
    BY <2>2, PrefixOfConcat
  <2>6. QED
    BY <2>1, <2>2, <2>3, <2>4, <2>5, TrivialPrefixes
<1>5. /\ Fits(c, FALSE, <<>>, <<>>) /\ Fits(c, FALSE, AmdUnlock, <<>>) /\ Fits(c, FALSE, u, <<>>)
      /\ Fits(c, FALSE, u, <<0>>) /\ Fits(c, FALSE, u, <<0, 1>>) /\ Fits(c, FALSE, w, <<0, 1>>)
  <2> HIDE DEF c, u, w
  <2>1. c.name \notin {"erase", "program"} /\ c.writes \in Seq(Nat \X Nat) /\ c.reads \in Seq(Nat)
    BY <1>1, <1>2, <1>4
  <2>2. <<>> \in Seq(Nat \X Nat) /\ <<>> \in Seq(Nat)
    BY EmptySeq
  <2>3. /\ IsPrefix(AmdUnlock, c.writes) /\ IsPrefix(u, c.writes) /\ IsPrefix(w, c.writes)
        /\ IsPrefix(<<>>, c.writes)
    BY <1>1, <1>3
  <2>4. /\ IsPrefix(<<>>, c.reads) /\ IsPrefix(<<0>>, c.reads) /\ IsPrefix(<<0, 1>>, c.reads)
    BY <1>1, <1>4
  <2>5. AmdUnlock \in Seq(Nat \X Nat) /\ u \in Seq(Nat \X Nat) /\ w \in Seq(Nat \X Nat)
    BY <1>2
  <2>6. QED
    BY <1>4, <2>1, <2>2, <2>3, <2>4, <2>5, PlainFits
<1> HIDE DEF c
<1>6. Triple(c, Q, unlock, P1)
  <2>1. Issues(c, FALSE, <<>>, unlock, AmdUnlock)
    BY Unlock
  <2>2. <<>> \o AmdUnlock = AmdUnlock /\ <<>> \in Seq(Nat \X Nat)
    BY <1>2, NoWords
  <2>3. QED
    BY <1>1, <1>5, <2>1, <2>2 DEF Issues
<1>7. Triple(c, P1, flash_cmd(X555, 144), P2)
  <2>1. /\ AmdUnlock \in Seq(Nat \X Nat) /\ X555 \in Nat /\ 144 \in Nat
        /\ c.name # "program" /\ Fits(c, FALSE, AmdUnlock \o <<W(X555, 144)>>, <<>>)
    BY <1>1, <1>2, <1>5, Unlock
  <2>2. QED
    BY <2>1, CmdDriven, ZenonT(40)
<1>8. Triple(c, P2, data_bus_input, P3)
  <2>1. Triple(c, Addressed(FALSE, u, <<>>), data_bus_input, P3)
    BY <1>5, DataBusInput
  <2>2. P2 \subseteq Addressed(FALSE, u, <<>>)
    BY Modes
  <2> HIDE DEF P2, P3
  <2>3. QED
    BY <2>1, <2>2, Weaken
<1>9. Triple(c, P3, <<OE_LOW>>, P4)
  BY <1>5, OeWrites
<1>10. Triple(c, P4, set_address(0), P5)
  BY <1>5, SetAddress, ZenonT(40)
<1>11. Triple(c, P5, <<Sample>>, P6)
  BY <1>4, <1>5, SampleWord, ZenonT(40)
<1>12. Triple(c, P6, set_address(1), P7)
  BY <1>5, SetAddress, ZenonT(40)
<1>13. Triple(c, P7, <<Sample>>, P8)
  BY <1>4, <1>5, SampleWord, ZenonT(40)
<1>14. Triple(c, P8, <<OE_HIGH>>, P9)
  BY <1>5, OeWrites
<1>15. Triple(c, P9, data_bus_input, P10)
  <2>1. Triple(c, P10, data_bus_input, P10)
    BY <1>5, DataAway
  <2>2. P9 \subseteq P10
    BY Modes, ZenonT(40)
  <2> HIDE DEF P9, P10
  <2>3. QED
    BY <2>1, <2>2, Weaken
<1>16. Triple(c, P10, flash_reset, P11)
  <2>1. Issues(c, FALSE, <<0, 1>>, flash_reset, AmdReset)
    BY Reset
  <2>2. QED
    BY <1>1, <1>2, <1>5, <2>1 DEF Issues
<1>17. Triple(c, P11, flash_bus_release, P12)
  BY <1>5, BusRelease
<1>18. Idle \subseteq Q
  BY Modes DEF Idle
<1>19. w \in Seq(Nat \X Nat)
  BY <1>2
<1> HIDE DEF Q, P1, P2, P3, P4, P5, P6, P7, P8, P9, P10, P11, P12, u, w, C
<1>20. Triple(c, Q, unlock \o flash_cmd(X555, 144), P2)
  BY <1>6, <1>7, Then
<1>21. Triple(c, Q, unlock \o flash_cmd(X555, 144) \o data_bus_input, P3)
  BY <1>8, <1>20, Then
<1>22. Triple(c, Q, unlock \o flash_cmd(X555, 144) \o data_bus_input \o <<OE_LOW>>, P4)
  BY <1>9, <1>21, Then
<1>23. Triple(c, Q, unlock \o flash_cmd(X555, 144) \o data_bus_input \o <<OE_LOW>>
                      \o set_address(0), P5)
  BY <1>10, <1>22, Then
<1>24. Triple(c, Q, unlock \o flash_cmd(X555, 144) \o data_bus_input \o <<OE_LOW>>
                      \o set_address(0) \o <<Sample>>, P6)
  BY <1>11, <1>23, Then
<1>25. Triple(c, Q, unlock \o flash_cmd(X555, 144) \o data_bus_input \o <<OE_LOW>>
                      \o set_address(0) \o <<Sample>> \o set_address(1), P7)
  BY <1>12, <1>24, Then
<1>26. Triple(c, P7, <<Sample, OE_HIGH>>, P9)
  BY <1>13, <1>14, Two
<1>27. Triple(c, Q, unlock \o flash_cmd(X555, 144) \o data_bus_input \o <<OE_LOW>>
                      \o set_address(0) \o <<Sample>> \o set_address(1) \o <<Sample, OE_HIGH>>, P9)
  BY <1>25, <1>26, Then
<1>28. Triple(c, Q, unlock \o flash_cmd(X555, 144) \o data_bus_input \o <<OE_LOW>>
                      \o set_address(0) \o <<Sample>> \o set_address(1) \o <<Sample, OE_HIGH>>
                      \o data_bus_input, P10)
  BY <1>15, <1>27, Then
<1>29. Triple(c, Q, flash_read_id, P11)
  BY <1>16, <1>28, Then DEF flash_read_id
<1>30. Triple(c, Q, Identify.ops, P12)
  BY <1>1, <1>17, <1>29, Then
<1>31. Triple(c, Idle, Identify.ops, P12)
  BY <1>18, <1>30, Weaken
<1>32. QED
  BY <1>1, <1>4, <1>19, <1>31 DEF Keeps, P12, c

LEMMA KeepsErase ==
  ASSUME NEW wa \in Nat, NEW code \in Nat
  PROVE  Keeps(Erase(wa, code), Idle)
<1> DEFINE h == Erase(wa, code)
           c == h.cycles
           w == AmdUnlock \o <<W(X555, 128)>> \o AmdUnlock \o <<W(wa, code)>>
           cmds == unlock \o flash_cmd(X555, 128) \o unlock \o flash_cmd(wa, code)
           P0 == Quiet(FALSE, <<>>, <<>>)
           P1 == Quiet(TRUE, <<>>, <<>>)
           P2 == Quiet(TRUE, w, <<>>)
           P3 == Free(TRUE, w, <<>>)
           P4 == Free(FALSE, w, <<>>)
<1>1. /\ h.ops = oe_buf_isolate \o erase_start(wa, code) \o flash_bus_release
      /\ c.name = "erase" /\ c.writes = w /\ c.reads = <<>>
  BY DEF Erase, Handler
<1>2. Issues(c, TRUE, <<>>, cmds, w)
  <2> HIDE DEF c
  <2> DEFINE o1 == flash_cmd(X555, 128)
             o2 == flash_cmd(wa, code)
             w1 == <<W(X555, 128)>>
             w2 == <<W(wa, code)>>
  <2>1. Issues(c, TRUE, <<>>, unlock, AmdUnlock) /\ X555 \in Nat /\ 128 \in Nat
    BY Unlock
  <2>2. Issues(c, TRUE, <<>>, o1, w1)
    BY <2>1, IssueCmd
  <2>3. Issues(c, TRUE, <<>>, o2, w2)
    BY IssueCmd
  <2> HIDE DEF o1, o2, w1, w2
  <2>4. Issues(c, TRUE, <<>>, unlock \o o1, AmdUnlock \o w1)
    BY <2>1, <2>2, IssueThen
  <2>5. Issues(c, TRUE, <<>>, unlock \o o1 \o unlock, AmdUnlock \o w1 \o AmdUnlock)
    BY <2>1, <2>4, IssueThen
  <2>6. Issues(c, TRUE, <<>>, unlock \o o1 \o unlock \o o2, AmdUnlock \o w1 \o AmdUnlock \o w2)
    BY <2>3, <2>5, IssueThen
  <2>7. QED
    BY <2>6 DEF o1, o2, w1, w2
<1>3. w \in Seq(Nat \X Nat)
  BY <1>2 DEF Issues
<1> HIDE DEF w, cmds, h
<1>4. Fits(c, TRUE, w, <<>>) /\ Fits(c, TRUE, <<>>, <<>>) /\ Fits(c, FALSE, <<>>, <<>>)
  BY <1>1, <1>3, NoWords DEF Fits
<1>5. Triple(c, P0, oe_buf_isolate, P1)
  BY <1>4, Isolate
<1>6. Triple(c, P1, cmds, P2)
  <2>1. <<>> \o w = w /\ <<>> \in Seq(Nat \X Nat)
    BY <1>3, NoWords
  <2>2. QED
    BY <1>2, <1>4, <2>1 DEF Issues
<1>7. Triple(c, P2, data_bus_input, P2)
  BY <1>4, DataAway
<1>8. Triple(c, P2, flash_bus_release, P3)
  BY <1>4, BusRelease
<1>9. Idle \subseteq P0 /\ P3 \subseteq P4
  <2>1. Idle \subseteq P0
    BY Modes DEF Idle
  <2>2. P3 \subseteq P4
    BY DEF Free, Quiet
  <2>3. QED
    BY <2>1, <2>2
<1> HIDE DEF P0, P1, P2, P3, P4, c
<1>10. Triple(c, P1, cmds \o data_bus_input, P2)
  BY <1>6, <1>7, Then
<1>11. Triple(c, P1, erase_start(wa, code), P2)
  BY <1>10 DEF erase_start, cmds
<1>12. Triple(c, P0, oe_buf_isolate \o erase_start(wa, code), P2)
  BY <1>5, <1>11, Then
<1>13. Triple(c, P0, h.ops, P3)
  BY <1>1, <1>8, <1>12, Then
<1>14. Triple(c, Idle, h.ops, P4)
  BY <1>9, <1>13, Weaken
<1>15. QED
  BY <1>1, <1>3, <1>14, NoWords DEF Keeps, P4, h, c

\* The rounds of a loop that writes to the chip.
LEMMA IssueNothing ==
  ASSUME NEW c, NEW b, NEW s
  PROVE  /\ Issues(c, b, s, <<>>, <<>>)
         /\ Issues(c, b, s, data_bus_input, <<>>)
<1>1. ASSUME NEW l \in Seq(Nat \X Nat), Fits(c, b, l \o <<>>, s)
      PROVE  /\ Triple(c, Quiet(b, l, s), <<>>, Quiet(b, l \o <<>>, s))
             /\ Triple(c, Quiet(b, l, s), data_bus_input, Quiet(b, l \o <<>>, s))
  <2>1. l \o <<>> = l
    BY NoWords
  <2>2. Fits(c, b, l, s)
    BY <1>1, <2>1
  <2>3. \A st \in Quiet(b, l, s) : st \in States /\ Good(c, st)
    BY <2>2, Modes, QuietGood
  <2>4. Triple(c, Quiet(b, l, s), <<>>, Quiet(b, l, s))
    BY <2>3, Skip
  <2>5. Triple(c, Quiet(b, l, s), data_bus_input, Quiet(b, l, s))
    BY <2>2, DataAway
  <2>6. QED
    BY <2>1, <2>4, <2>5
<1>2. <<>> \in Seq(Nat \X Nat)
  BY NoWords
<1>3. QED
  BY <1>1, <1>2 DEF Issues

LEMMA IssueLoop ==
  ASSUME NEW c, NEW b, NEW s, NEW n \in Nat, NEW ops, NEW ws, Len(ops) = n, Len(ws) = n,
         n = 0 => ops = <<>> /\ ws = <<>>,
         \A i \in 1 .. n : Issues(c, b, s, ops[i], ws[i])
  PROVE  Issues(c, b, s, FlattenSeq(ops), FlattenSeq(ws))
<1>1. CASE n = 0
  <2>1. FlattenSeq(ops) = <<>> /\ FlattenSeq(ws) = <<>>
    BY <1>1 DEF FlattenSeq
  <2>2. QED
    BY <2>1, IssueNothing
<1>2. CASE n # 0
  <2>0. n \in Nat \ {0}
    BY <1>2
  <2>1. PICK f : /\ FlattenSeq(ops) = f[n] /\ f[1] = ops[1]
                 /\ \A i \in 2 .. n : f[i] = f[i - 1] \o ops[i]
    BY <2>0, FlattenIs, Zenon
  <2>2. PICK g : /\ FlattenSeq(ws) = g[n] /\ g[1] = ws[1]
                 /\ \A i \in 2 .. n : g[i] = g[i - 1] \o ws[i]
    BY <2>0, FlattenIs, Zenon
  <2> DEFINE S == {k \in Nat : k \in 1 .. n => Issues(c, b, s, f[k], g[k])}
  <2>3. 0 \in S
    OBVIOUS
  <2>4. ASSUME NEW k \in Nat, k \in S, k + 1 \in 1 .. n
        PROVE  Issues(c, b, s, f[k + 1], g[k + 1])
    <3>1. CASE k = 0
      BY <2>1, <2>2, <2>4, <3>1
    <3>2. CASE k # 0
      <4>1. PICK j \in 2 .. n : j = k + 1
        BY <2>4, <3>2
      <4>2. f[j] = f[j - 1] \o ops[j] /\ g[j] = g[j - 1] \o ws[j] /\ j - 1 = k
        <5>1. f[j] = f[j - 1] \o ops[j]
          BY <2>1
        <5>2. g[j] = g[j - 1] \o ws[j]
          BY <2>2
        <5>3. QED
          BY <4>1, <5>1, <5>2
      <4>3. k \in 1 .. n
        BY <2>4, <3>2
      <4>4. Issues(c, b, s, f[k], g[k])
        BY <2>4, <4>3
      <4>5. Issues(c, b, s, ops[j], ws[j])
        BY <4>1
      <4>6. Issues(c, b, s, f[k] \o ops[j], g[k] \o ws[j])
        BY <4>4, <4>5, IssueThen
      <4>7. f[j] = f[k] \o ops[j] /\ g[j] = g[k] \o ws[j]
        BY <4>2, Zenon
      <4>8. QED
        BY <4>1, <4>6, <4>7
    <3>3. QED
      BY <3>1, <3>2
  <2>5. ASSUME NEW k \in Nat, k \in S PROVE k + 1 \in S
    <3>1. k + 1 \in Nat
      OBVIOUS
    <3>2. k + 1 \in 1 .. n => Issues(c, b, s, f[k + 1], g[k + 1])
      BY <2>4, <2>5
    <3>3. QED
      BY <3>1, <3>2
  <2> HIDE DEF S
  <2>6. Nat \subseteq S
    BY <2>3, <2>5, SetInduction
  <2>7. n \in S /\ n \in 1 .. n
    BY <1>2, <2>6
  <2>8. Issues(c, b, s, f[n], g[n])
    BY <2>7 DEF S
  <2>9. QED
    BY <2>1, <2>2, <2>8
<1>3. QED
  BY <1>1, <1>2

LEMMA IssueWord ==
  ASSUME NEW c, NEW b, NEW s, NEW wa \in Nat, NEW word \in Nat
  PROVE  Issues(c, b, s, unlock \o flash_cmd(X555, 160) \o flash_cmd(wa, word),
                AmdUnlock \o <<W(X555, 160), W(wa, word)>>)
<1> DEFINE C == Nat \X Nat
           w1 == <<W(X555, 160)>>
           w2 == <<W(wa, word)>>
<1>1. Issues(c, b, s, unlock, AmdUnlock) /\ X555 \in Nat
  BY Unlock
<1>2. Issues(c, b, s, flash_cmd(X555, 160), w1)
  BY <1>1, IssueCmd
<1>3. Issues(c, b, s, flash_cmd(wa, word), w2)
  BY IssueCmd
<1>4. AmdUnlock \in Seq(C) /\ w1 \in Seq(C) /\ w2 \in Seq(C)
  BY <1>1, <1>2, <1>3 DEF Issues
<1>5. <<W(X555, 160), W(wa, word)>> = w1 \o w2
  BY Pairs
<1> HIDE DEF C, w1, w2
<1>6. Issues(c, b, s, unlock \o flash_cmd(X555, 160), AmdUnlock \o w1)
  BY <1>1, <1>2, IssueThen
<1>7. Issues(c, b, s, unlock \o flash_cmd(X555, 160) \o flash_cmd(wa, word), AmdUnlock \o w1 \o w2)
  BY <1>3, <1>6, IssueThen
<1>8. AmdUnlock \o w1 \o w2 = AmdUnlock \o (w1 \o w2)
  BY <1>4, ConcatAssociative
<1>9. QED
  BY <1>5, <1>7, <1>8

LEMMA KeepsProgram ==
  ASSUME NEW wa \in Nat, NEW buf \in Seq(Nat), NEW timeout \in BOOLEAN
  PROVE  Keeps(Program(wa, buf, timeout), Idle)
<1> DEFINE h == Program(wa, buf, timeout)
           c == h.cycles
           n == Len(buf)
           ops == [i \in 1 .. n |-> unlock \o flash_cmd(X555, 160) \o flash_cmd(wa + i - 1, buf[i])]
           ws == [i \in 1 .. n |-> AmdUnlock \o <<W(X555, 160), W(wa + i - 1, buf[i])>>]
           end == IF timeout THEN flash_reset ELSE data_bus_input
           we == IF timeout THEN AmdReset ELSE <<>>
           w == FlattenSeq(ws) \o we \o AmdReset
           P0 == Quiet(FALSE, <<>>, <<>>)
           P1 == Quiet(TRUE, <<>>, <<>>)
           P2 == Quiet(TRUE, w, <<>>)
           P3 == Quiet(FALSE, w, <<>>)
           P4 == Free(FALSE, w, <<>>)
<1>1. /\ h.ops = oe_buf_isolate \o (FlattenSeq(ops) \o end) \o flash_reset \o oe_buf_release
                   \o flash_bus_release
      /\ c.name = "program" /\ c.writes = w /\ c.reads = <<>>
  BY DEF Program, Handler, flash_program_buffer
<1>2. Issues(c, TRUE, <<>>, FlattenSeq(ops), FlattenSeq(ws))
  <2>1. n \in Nat /\ \A i \in 1 .. n : buf[i] \in Nat /\ wa + i - 1 \in Nat
    BY LenProperties, ElementOfSeq
  <2>2. Len(ops) = n /\ Len(ws) = n /\ (n = 0 => ops = <<>> /\ ws = <<>>)
    BY <2>1
  <2>3. \A i \in 1 .. n : Issues(c, TRUE, <<>>, ops[i], ws[i])
    <3> HIDE DEF c
    <3>1. QED
      BY <2>1, IssueWord, ZenonT(40)
  <2> HIDE DEF c, ops, ws, n
  <2>4. QED
    BY <2>1, <2>2, <2>3, IssueLoop
<1>3. Issues(c, TRUE, <<>>, end, we)
  <2> HIDE DEF c
  <2>1. Issues(c, TRUE, <<>>, flash_reset, AmdReset)
    BY Reset
  <2>2. Issues(c, TRUE, <<>>, data_bus_input, <<>>)
    BY IssueNothing
  <2>3. QED
    BY <2>1, <2>2
<1> HIDE DEF ops, ws, end, we, n, h
<1>4. Issues(c, TRUE, <<>>, FlattenSeq(ops) \o end, FlattenSeq(ws) \o we)
  BY <1>2, <1>3, IssueThen
<1>5. Issues(c, TRUE, <<>>, flash_reset, AmdReset)
  BY Reset
<1>6. Issues(c, TRUE, <<>>, FlattenSeq(ops) \o end \o flash_reset, w)
  BY <1>4, <1>5, IssueThen
<1>7. w \in Seq(Nat \X Nat)
  BY <1>6 DEF Issues
<1>8. FlattenSeq(ws) \o we \in Seq(Nat \X Nat) /\ AmdReset \in Seq(Nat \X Nat)
  BY <1>4, <1>5 DEF Issues
<1>9. IsPrefix(FlattenSeq(ws) \o we, w)
  <2> DEFINE C == Nat \X Nat
             u == FlattenSeq(ws) \o we
  <2> HIDE DEF C, u
  <2>1. IsPrefix(u, u \o AmdReset)
    BY <1>8, PrefixOfConcat DEF C, u
  <2>2. QED
    BY <2>1 DEF u
<1>10. /\ Fits(c, TRUE, w, <<>>) /\ Fits(c, TRUE, <<>>, <<>>) /\ Fits(c, FALSE, <<>>, <<>>)
       /\ Fits(c, FALSE, w, <<>>) /\ Fits(c, TRUE, FlattenSeq(ws) \o we, <<>>)
  <2> HIDE DEF w, c
  <2>1. QED
    BY <1>1, <1>7, <1>8, <1>9, NoWords DEF Fits
<1> DEFINE u == FlattenSeq(ws) \o we
           Pu == Quiet(TRUE, u, <<>>)
<1>11. Triple(c, P0, oe_buf_isolate, P1)
  BY <1>10, Isolate
<1>12. Triple(c, P1, FlattenSeq(ops) \o end, Pu)
  <2>1. <<>> \o u = u /\ <<>> \in Seq(Nat \X Nat)
    BY <1>8, NoWords
  <2> HIDE DEF c
  <2>2. QED
    BY <1>4, <1>10, <2>1 DEF Issues
<1>13. Triple(c, Pu, flash_reset, P2)
  <2> HIDE DEF c
  <2>1. Issues(c, TRUE, <<>>, flash_reset, AmdReset)
    BY <1>5
  <2>2. QED
    BY <1>8, <1>10, <2>1 DEF Issues
<1>14. Triple(c, P3, oe_buf_release, P3)
  BY <1>10, Release
<1>15. Triple(c, P3, flash_bus_release, P4)
  BY <1>10, BusRelease
<1>16. Idle \subseteq P0 /\ P2 \subseteq P3
  BY Modes DEF Idle
<1> HIDE DEF c, w, u, P0, P1, P2, P3, P4, Pu
<1>17. Triple(c, P2, oe_buf_release, P3)
  BY <1>14, <1>16, Weaken
<1>18. Triple(c, P0, oe_buf_isolate \o (FlattenSeq(ops) \o end), Pu)
  BY <1>11, <1>12, Then
<1>19. Triple(c, P0, oe_buf_isolate \o (FlattenSeq(ops) \o end) \o flash_reset, P2)
  BY <1>13, <1>18, Then
<1>20. Triple(c, P0, oe_buf_isolate \o (FlattenSeq(ops) \o end) \o flash_reset \o oe_buf_release, P3)
  BY <1>17, <1>19, Then
<1>21. Triple(c, P0, h.ops, P4)
  BY <1>1, <1>15, <1>20, Then
<1>22. Triple(c, Idle, h.ops, P4)
  BY <1>16, <1>21, Weaken
<1>23. QED
  BY <1>1, <1>7, <1>22, NoWords DEF Keeps, P4, h, c

\* All of them.
LEMMA EveryHandler ==
  ASSUME NEW h \in Handlers
  PROVE  Keeps(h, Idle)
<1>1. Addresses \subseteq Nat /\ 0 .. MaxCount \subseteq Nat
  BY AddressAssumption
<1>2. \A buf \in Buffers : buf \in Seq(Nat)
  <2>1. ASSUME NEW buf \in Buffers PROVE buf \in Seq(Nat)
    <3>1. PICK n \in 0 .. MaxCount : buf \in [1 .. n -> {AA, 1}]
      BY DEF Buffers
    <3>2. n \in Nat /\ buf \in [1 .. n -> Nat]
      BY <1>1, <3>1 DEF AA
    <3>3. QED
      BY <3>2, SeqDef
  <2>2. QED
    BY <2>1
<1>3. CASE h \in {Return, Refuse, Identify, FlashReset, EraseOver, AvrReset}
  BY <1>3, KeepsReturn, KeepsRefuse, KeepsIdentify, KeepsFlashReset, KeepsEraseOver, KeepsAvrReset
<1>4. CASE h \in {Read(wa, n) : wa \in Addresses, n \in 0 .. MaxCount}
  BY <1>1, <1>4, KeepsRead
<1>5. CASE h \in {Erase(X555, 16)} \cup {Erase(wa, 48) : wa \in Addresses}
  <2>1. X555 \in Nat /\ 16 \in Nat /\ 48 \in Nat
    BY Unlock
  <2>2. \A wa \in Nat : Keeps(Erase(wa, 16), Idle) /\ Keeps(Erase(wa, 48), Idle)
    BY <2>1, KeepsErase
  <2>3. QED
    BY <1>1, <1>5, <2>1, <2>2
<1>6. \A wa \in Addresses : \A buf \in Buffers :
        Keeps(Finished(wa, buf), Idle) /\ Keeps(GivenUp(wa, buf), Idle)
  BY <1>1, <1>2, KeepsProgram DEF Finished, GivenUp
<1>7. CASE h \in {Finished(wa, buf) : wa \in Addresses, buf \in Buffers}
  BY <1>6, <1>7
<1>8. CASE h \in {GivenUp(wa, buf) : wa \in Addresses, buf \in Buffers \ {<<>>}}
  BY <1>6, <1>8
<1>9. QED
  BY <1>3, <1>4, <1>5, <1>7, <1>8 DEF Handlers

-----------------------------------------------------------------------------
(* The invariant: the writes the running handler has left are a walk from  *)
(* the present state to one with the bus released and every cycle made.    *)

Now == [ddr |-> ddr, port |-> port, irq |-> irq, latched |-> latched, sampled |-> sampled]

LeadsOn(h, left, q) ==
  /\ Walk(h.cycles, left, q) /\ q[1] = Now
  /\ q[Len(q)] \in Free(FALSE, h.cycles.writes, h.cycles.reads)
IInv ==
  /\ gary \in {"low", "high", "absent"}
  /\ \E h \in Handlers \cup {Main} : \E k \in Nat :
       /\ handler = h.cycles /\ h.ops \in Seq(Ops) /\ k <= Len(h.ops)
       /\ todo = SubSeq(h.ops, k + 1, Len(h.ops))
       /\ \E q : LeadsOn(h, todo, q)

\* One write of a walk.
LEMMA Advance ==
  ASSUME NEW c, NEW s \in Seq(Ops), s # <<>>, NEW q, Walk(c, s, q)
  PROVE  /\ Allowed(q[1], Head(s)) /\ q[2] = After(q[1], Head(s)) /\ Head(s) \in Ops
         /\ Walk(c, Tail(s), Tail(q))
         /\ Tail(q)[1] = q[2] /\ Tail(q)[Len(Tail(q))] = q[Len(q)]
<1>1. /\ q \in Seq(States) /\ Len(q) = Len(s) + 1 /\ Len(s) \in Nat /\ Len(s) >= 1
  <2>1. Len(s) \in Nat /\ Len(s) # 0
    BY EmptySeq, LenProperties
  <2>2. QED
    BY <2>1 DEF Walk
<1>2. q # <<>>
  BY <1>1, EmptySeq
<1>3. /\ Tail(q) \in Seq(States) /\ Len(Tail(q)) = Len(s)
      /\ \A i \in 1 .. Len(s) : Tail(q)[i] = q[i + 1]
  BY <1>1, <1>2, HeadTailProperties
<1>4. /\ Head(s) = s[1] /\ Head(s) \in Ops /\ Len(Tail(s)) = Len(s) - 1
      /\ \A i \in 1 .. Len(s) - 1 : Tail(s)[i] = s[i + 1]
  BY <1>1, HeadTailProperties
<1>5. Allowed(q[1], Head(s)) /\ q[2] = After(q[1], Head(s))
  <2>1. 1 \in 1 .. Len(s) /\ 1 + 1 = 2
    BY <1>1
  <2>2. Allowed(q[1], s[1]) /\ q[1 + 1] = After(q[1], s[1])
    BY <2>1 DEF Walk
  <2>3. QED
    BY <1>4, <2>1, <2>2
<1>6. \A i \in 1 .. Len(Tail(q)) : Good(c, Tail(q)[i])
  <2>1. ASSUME NEW i \in 1 .. Len(s) PROVE Good(c, q[i + 1])
    <3>1. i + 1 \in 1 .. Len(q)
      BY <1>1
    <3>2. QED
      BY <3>1 DEF Walk
  <2>2. QED
    BY <1>3, <2>1
<1>7. ASSUME NEW i \in 1 .. Len(Tail(s))
      PROVE  Allowed(Tail(q)[i], Tail(s)[i]) /\ Tail(q)[i + 1] = After(Tail(q)[i], Tail(s)[i])
  <2>1. /\ i \in 1 .. Len(s) - 1 /\ i \in 1 .. Len(s)
        /\ i + 1 \in 1 .. Len(s)
    BY <1>1, <1>4
  <2>2. Tail(s)[i] = s[i + 1] /\ Tail(q)[i] = q[i + 1] /\ Tail(q)[i + 1] = q[i + 1 + 1]
    BY <1>3, <1>4, <2>1
  <2>3. PICK j \in 1 .. Len(s) : j = i + 1
    BY <2>1
  <2>4. Allowed(q[j], s[j]) /\ q[j + 1] = After(q[j], s[j])
    BY DEF Walk
  <2>5. QED
    BY <2>2, <2>3, <2>4
<1>8. Walk(c, Tail(s), Tail(q))
  BY <1>1, <1>3, <1>4, <1>6, <1>7 DEF Walk
<1>9. Tail(q)[1] = q[2] /\ Tail(q)[Len(Tail(q))] = q[Len(q)]
  BY <1>1, <1>3
<1>10. QED
  BY <1>4, <1>5, <1>8, <1>9

\* Starting a handler.
LEMMA Begin ==
  ASSUME NEW h \in Handlers \cup {Main}, NEW P, Keeps(h, P), NEW st \in P
  PROVE  /\ h.ops \in Seq(Ops) /\ 0 <= Len(h.ops) /\ h.ops = SubSeq(h.ops, 0 + 1, Len(h.ops))
         /\ \E q : /\ Walk(h.cycles, h.ops, q) /\ q[1] = st
                   /\ q[Len(q)] \in Free(FALSE, h.cycles.writes, h.cycles.reads)
<1>1. h.ops \in Seq(Ops)
  BY DEF Keeps, Triple
<1>2. 0 <= Len(h.ops) /\ h.ops = SubSeq(h.ops, 0 + 1, Len(h.ops))
  BY <1>1, LenProperties, SubSeqFull
<1>3. QED
  BY <1>1, <1>2 DEF Keeps, Triple

\* Initially, and step by step.
LEMMA StartsSo == Init => IInv
<1> SUFFICES ASSUME Init PROVE IInv
  OBVIOUS
<1>1. Now \in Off
  <2>1. Now \in States
    <3>1. ddr \in [Groups -> BOOLEAN] /\ port \in [Pins -> Nat] /\ irq \in BOOLEAN
      BY DEF Init
    <3>2. latched \in Seq(Nat \X Nat) /\ sampled \in Seq(Nat)
      BY NoWords DEF Init
    <3>3. QED
      BY <3>1, <3>2 DEF Now, States
  <2>2. QED
    BY <2>1 DEF Init, Off, Now, Groups
<1>2. Main \in Handlers \cup {Main} /\ 0 \in Nat
  OBVIOUS
<1>3. /\ Main.ops \in Seq(Ops) /\ 0 <= Len(Main.ops)
      /\ Main.ops = SubSeq(Main.ops, 0 + 1, Len(Main.ops))
      /\ \E q : /\ Walk(Main.cycles, Main.ops, q) /\ q[1] = Now
                /\ q[Len(q)] \in Free(FALSE, Main.cycles.writes, Main.cycles.reads)
  BY <1>1, <1>2, KeepsMain, Begin
<1>4. handler = Main.cycles /\ todo = Main.ops /\ gary \in {"low", "high", "absent"}
  BY DEF Init
<1>5. \E q : LeadsOn(Main, todo, q)
  BY <1>3, <1>4 DEF LeadsOn
<1>6. QED
  BY <1>2, <1>3, <1>4, <1>5 DEF IInv

\* Between handlers the bus is released and every cycle of the last one made.
LEMMA Over ==
  ASSUME IInv, todo = <<>>
  PROVE  Now \in Free(FALSE, handler.writes, handler.reads)
<1>1. PICK h \in Handlers \cup {Main} :
        \E k \in Nat : handler = h.cycles /\ \E q : LeadsOn(h, todo, q)
  BY DEF IInv
<1>2. PICK q : LeadsOn(h, todo, q)
  BY <1>1
<1>3. Len(q) = 1
  BY <1>2, EmptySeq DEF LeadsOn, Walk
<1>4. QED
  BY <1>1, <1>2, <1>3 DEF LeadsOn

LEMMA ExecuteKeeps ==
  ASSUME IInv, Execute
  PROVE  IInv'
<1>1. PICK h \in Handlers \cup {Main}, k \in Nat :
        /\ handler = h.cycles /\ h.ops \in Seq(Ops) /\ k <= Len(h.ops)
        /\ todo = SubSeq(h.ops, k + 1, Len(h.ops))
        /\ \E q : LeadsOn(h, todo, q)
  BY DEF IInv
<1>2. PICK q : LeadsOn(h, todo, q)
  BY <1>1
<1> DEFINE n == Len(h.ops)
<1>3. n \in Nat /\ \A i \in 1 .. n : h.ops[i] \in Ops
  BY <1>1, LenProperties, ElementOfSeq
<1>4. /\ todo \in Seq(Ops) /\ Len(todo) = n - k /\ \A i \in 1 .. n - k : todo[i] = h.ops[k + i]
  <2>1. \A i \in k + 1 .. n : h.ops[i] \in Ops
    BY <1>3
  <2>2. todo \in Seq(Ops)
    BY <1>1, <1>3, <2>1, SubSeqProperties
  <2>3. Len(todo) = n - k
    <3>1. Len(todo) = IF k + 1 <= n THEN n - (k + 1) + 1 ELSE 0
      BY <1>1, <1>3, <2>1, SubSeqProperties
    <3> HIDE DEF n
    <3>2. QED
      BY <1>1, <1>3, <3>1 DEF n
  <2>4. \A i \in 1 .. n - k : todo[i] = h.ops[k + i]
    BY <1>1, <1>3
  <2>5. QED
    BY <2>2, <2>3, <2>4
<1>5. todo # <<>> /\ todo' = Tail(todo) /\ handler' = handler /\ gary' = gary
  BY DEF Execute
<1>6. k < n
  <2>1. Len(todo) # 0
    BY <1>4, <1>5, EmptySeq
  <2> HIDE DEF n
  <2>2. QED
    BY <1>1, <1>3, <1>4, <2>1 DEF n
<1>7. todo' = SubSeq(h.ops, k + 1 + 1, n)
  <2> DEFINE r == SubSeq(h.ops, k + 1 + 1, n)
  <2>1. \A i \in k + 1 + 1 .. n : h.ops[i] \in Ops
    BY <1>3
  <2>2. r \in Seq(Ops)
    BY <1>1, <1>3, <2>1, SubSeqProperties
  <2>3. Len(r) = IF k + 1 + 1 <= n THEN n - (k + 1 + 1) + 1 ELSE 0
    BY <1>1, <1>3, <2>1, SubSeqProperties
  <2>4. \A i \in 1 .. n - (k + 1 + 1) + 1 : r[i] = h.ops[k + 1 + 1 + i - 1]
    BY <1>1, <1>3, <2>1, SubSeqProperties
  <2>5. /\ Tail(todo) \in Seq(Ops) /\ Len(Tail(todo)) = n - k - 1
        /\ \A i \in 1 .. n - k - 1 : Tail(todo)[i] = todo[i + 1]
    BY <1>4, <1>5, HeadTailProperties
  <2> HIDE DEF n, r
  <2>6. Len(r) = n - k - 1
    BY <1>1, <1>3, <1>6, <2>3
  <2>7. ASSUME NEW i \in 1 .. n - k - 1 PROVE Tail(todo)[i] = r[i]
    <3>1. /\ i \in 1 .. n - (k + 1 + 1) + 1 /\ i + 1 \in 1 .. n - k
          /\ k + 1 + 1 + i - 1 = k + (i + 1)
      BY <1>3, <1>6
    <3>2. PICK j \in 1 .. n - k : j = i + 1
      BY <3>1
    <3>3. todo[j] = h.ops[k + j]
      BY <1>4 DEF n
    <3>4. r[i] = h.ops[k + j]
      BY <2>4, <3>1, <3>2 DEF n
    <3>5. QED
      BY <2>5, <3>2, <3>3, <3>4
  <2>8. Tail(todo) = r
    BY <2>2, <2>5, <2>6, <2>7, SeqEqual
  <2>9. QED
    BY <1>5, <2>8 DEF r
<1> DEFINE c == h.cycles
<1>8. /\ Walk(c, todo, q) /\ q[1] = Now
      /\ q[Len(q)] \in Free(FALSE, c.writes, c.reads)
  BY <1>2 DEF LeadsOn
<1>9. /\ q[2] = After(q[1], Head(todo)) /\ Head(todo) \in Ops
      /\ Walk(c, Tail(todo), Tail(q))
      /\ Tail(q)[1] = q[2] /\ Tail(q)[Len(Tail(q))] = q[Len(q)]
  BY <1>4, <1>5, <1>8, Advance, ZenonT(40)
<1>10. After(Now, Head(todo)) = Now'
  <2> DEFINE op == Head(todo)
  <2>1. /\ ddr' = IF op.set = "ddr" THEN Onto(ddr, op.to) ELSE ddr
        /\ port' = IF op.set = "port" THEN Onto(port, op.to) ELSE port
        /\ irq' = IF op.set = "irq" THEN op.to ELSE irq
        /\ sampled' = IF op.set = "sample" THEN Append(sampled, PinAddress) ELSE sampled
        /\ latched' = IF We = 0 /\ (IF ddr'["we"] THEN port'["we"] ELSE 1) = 1
                      THEN Append(latched, <<PinAddress, port["data"]>>) ELSE latched
    BY DEF Execute, Line
  <2>2. /\ Now.ddr = ddr /\ Now.port = port /\ Now.irq = irq
        /\ Now.latched = latched /\ Now.sampled = sampled
        /\ Level(Now, "we") = We /\ At(Now) = PinAddress
    BY DEF Now, Level, We, Line, At, PinAddress
  <2> HIDE DEF op
  <2>3. After(Now, op) =
          [ddr |-> ddr', port |-> port', irq |-> irq', latched |-> latched', sampled |-> sampled']
    BY <2>1, <2>2 DEF After
  <2>4. QED
    BY <2>3 DEF Now, op
<1>11. LeadsOn(h, todo, Tail(q))'
  BY <1>5, <1>8, <1>9, <1>10 DEF LeadsOn
<1>12. k + 1 \in Nat /\ k + 1 <= n
  <2> HIDE DEF n
  <2>1. QED
    BY <1>3, <1>6
<1>13. QED
  <2>1. gary' \in {"low", "high", "absent"}
    BY <1>5 DEF IInv
  <2>2. handler' = h.cycles
    BY <1>1, <1>5
  <2> HIDE DEF c
  <2>3. QED
    BY <1>1, <1>7, <1>11, <1>12, <2>1, <2>2 DEF IInv

LEMMA CallKeeps ==
  ASSUME IInv, Call
  PROVE  IInv'
<1>1. PICK h \in Handlers : todo' = h.ops /\ handler' = h.cycles
  BY DEF Call
<1>2. /\ latched' = <<>> /\ sampled' = <<>> /\ ddr' = ddr /\ port' = port /\ irq' = irq
      /\ gary' = gary /\ todo = <<>>
  BY DEF Call
<1>3. Now' \in Idle
  <2>1. Now \in Free(FALSE, handler.writes, handler.reads)
    BY <1>2, Over
  <2>2. Now \in States
    BY <2>1 DEF Free, Quiet
  <2>3. Now' = [ddr |-> ddr, port |-> port, irq |-> irq, latched |-> <<>>, sampled |-> <<>>]
    BY <1>2 DEF Now
  <2>4. Now' \in States
    BY <2>2, <2>3, NoWords DEF Now, States
  <2>5. QED
    BY <2>1, <2>3, <2>4 DEF Now, Idle, Free, Quiet
<1>4. Keeps(h, Idle) /\ h \in Handlers \cup {Main}
  BY EveryHandler
<1>5. /\ h.ops \in Seq(Ops) /\ 0 <= Len(h.ops) /\ h.ops = SubSeq(h.ops, 0 + 1, Len(h.ops))
      /\ \E q : /\ Walk(h.cycles, h.ops, q) /\ q[1] = Now'
                /\ q[Len(q)] \in Free(FALSE, h.cycles.writes, h.cycles.reads)
  BY <1>3, <1>4, Begin
<1>6. \E q : LeadsOn(h, todo, q)'
  BY <1>1, <1>5 DEF LeadsOn
<1>7. gary' \in {"low", "high", "absent"} /\ 0 \in Nat
  BY <1>2 DEF IInv
<1>8. QED
  BY <1>1, <1>4, <1>5, <1>6, <1>7 DEF IInv

LEMMA RestartKeeps ==
  ASSUME IInv, Restart
  PROVE  IInv'
<1>1. /\ ddr' = [g \in Groups |-> FALSE] /\ port' = [p \in Pins |-> 0]
      /\ irq' = FALSE /\ todo' = Main.ops /\ handler' = Main.cycles
      /\ latched' = <<>> /\ sampled' = <<>> /\ gary' = gary
  BY DEF Restart, PowerUp
<1>2. Now' \in Off
  <2>1. Now' \in States
    <3>1. ddr' \in [Groups -> BOOLEAN] /\ port' \in [Pins -> Nat] /\ irq' \in BOOLEAN
      BY <1>1
    <3>2. latched' \in Seq(Nat \X Nat) /\ sampled' \in Seq(Nat)
      BY <1>1, NoWords
    <3>3. QED
      BY <3>1, <3>2 DEF Now, States
  <2>2. QED
    BY <1>1, <2>1 DEF Off, Now, Groups
<1>3. Main \in Handlers \cup {Main} /\ 0 \in Nat
  OBVIOUS
<1>4. /\ Main.ops \in Seq(Ops) /\ 0 <= Len(Main.ops)
      /\ Main.ops = SubSeq(Main.ops, 0 + 1, Len(Main.ops))
      /\ \E q : /\ Walk(Main.cycles, Main.ops, q) /\ q[1] = Now'
                /\ q[Len(q)] \in Free(FALSE, Main.cycles.writes, Main.cycles.reads)
  BY <1>2, <1>3, KeepsMain, Begin
<1>5. \E q : LeadsOn(Main, todo, q)'
  BY <1>1, <1>4 DEF LeadsOn
<1>6. gary' \in {"low", "high", "absent"}
  BY <1>1 DEF IInv
<1>7. QED
  BY <1>1, <1>3, <1>4, <1>5, <1>6 DEF IInv

LEMMA NothingMovesKeeps ==
  ASSUME IInv, UNCHANGED <<ddr, port, irq, todo, handler, latched, sampled>>,
         gary' \in {"low", "high", "absent"}
  PROVE  IInv'
<1>1. Now' = Now
  BY DEF Now
<1>2. \A h, q : LeadsOn(h, todo, q)' <=> LeadsOn(h, todo, q)
  BY <1>1 DEF LeadsOn
<1>3. PICK h \in Handlers \cup {Main}, k \in Nat :
        /\ handler = h.cycles /\ h.ops \in Seq(Ops) /\ k <= Len(h.ops)
        /\ todo = SubSeq(h.ops, k + 1, Len(h.ops))
        /\ \E q : LeadsOn(h, todo, q)
  BY DEF IInv
<1>4. \E q : LeadsOn(h, todo, q)'
  BY <1>2, <1>3
<1>5. QED
  BY <1>3, <1>4 DEF IInv

\* From any state the running handler can be finished as it was written, whatever Gary does.
THEOREM Inductive ==
  Spec => []IInv
<1>1. Init => IInv
  BY StartsSo
<1>2. IInv /\ [Next]_vars => IInv'
  <2> SUFFICES ASSUME IInv, [Next]_vars PROVE IInv'
    OBVIOUS
  <2>1. CASE Execute
    BY <2>1, ExecuteKeeps
  <2>2. CASE Call
    BY <2>2, CallKeeps
  <2>3. CASE Restart
    BY <2>3, RestartKeeps
  <2>4. CASE GaryTurns
    <3>1. gary' \in {"low", "high", "absent"}
      BY <2>4 DEF GaryTurns
    <3>2. QED
      BY <2>4, <3>1, NothingMovesKeeps DEF GaryTurns
  <2>5. CASE UNCHANGED vars
    <3>1. gary' \in {"low", "high", "absent"}
      BY <2>5 DEF IInv, vars
    <3>2. QED
      BY <2>5, <3>1, NothingMovesKeeps DEF vars
  <2>6. QED
    BY <2>1, <2>2, <2>3, <2>4, <2>5 DEF Next
<1>3. QED
  BY <1>1, <1>2, PTL DEF Spec

-----------------------------------------------------------------------------
(* The theorems.                                                           *)

\* What the present state keeps.
LEMMA Present ==
  ASSUME IInv
  PROVE  /\ Good(handler, Now) /\ Now \in States
         /\ todo # <<>> => Allowed(Now, Head(todo))
<1>1. PICK h \in Handlers \cup {Main}, k \in Nat :
        /\ handler = h.cycles /\ h.ops \in Seq(Ops) /\ k <= Len(h.ops)
        /\ todo = SubSeq(h.ops, k + 1, Len(h.ops))
        /\ \E q : LeadsOn(h, todo, q)
  BY DEF IInv
<1>2. PICK q : LeadsOn(h, todo, q)
  BY <1>1
<1>3. /\ Walk(handler, todo, q) /\ q[1] = Now
  BY <1>1, <1>2 DEF LeadsOn
<1>4. todo \in Seq(Ops) /\ Len(todo) \in Nat
  <2> DEFINE n == Len(h.ops)
  <2>1. n \in Nat /\ \A i \in k + 1 .. n : h.ops[i] \in Ops
    BY <1>1, LenProperties, ElementOfSeq
  <2>2. todo \in Seq(Ops)
    BY <1>1, <2>1, SubSeqProperties
  <2>3. QED
    BY <2>2, LenProperties
<1>5. 1 \in 1 .. Len(q)
  BY <1>3, <1>4 DEF Walk
<1>6. Good(handler, Now)
  BY <1>3, <1>5 DEF Walk
<1>7. Now \in States
  BY <1>3, <1>5, ElementOfSeq DEF Walk
<1>8. ASSUME todo # <<>> PROVE Allowed(Now, Head(todo))
  BY <1>3, <1>4, <1>8, Advance
<1>9. QED
  BY <1>6, <1>7, <1>8

LEMMA Lines ==
  /\ Level(Now, "we") = We /\ Level(Now, "rst") = Rst
  /\ BufEnabled <=> Level(Now, "buf") = 1
  /\ Now.ddr = ddr /\ Now.port = port /\ Now.irq = irq
  /\ Now.latched = latched /\ Now.sampled = sampled
BY DEF Level, Now, We, Rst, BufEnabled, Line

\* While /WE is low no interrupt can stretch the pulse, the AVR drives the address and the
\* data and holds /OE high.
THEOREM PulsesAreShort ==
  Spec => []WritePulse
<1>1. IInv => WritePulse
  <2> SUFFICES ASSUME IInv PROVE WritePulse
    OBVIOUS
  <2>1. Good(handler, Now)
    BY Present
  <2>2. QED
    BY <2>1, Lines DEF Good, WritePulse
<1>2. QED
  BY <1>1, Inductive, PTL

\* The AVR and the flash drive the data lines at once only while Gary reads through an
\* enabled buffer.
THEOREM NoFight ==
  Spec => []NoDataFight
<1>1. IInv => NoDataFight
  <2> SUFFICES ASSUME IInv, ddr["data"], FlashDrives PROVE BufEnabled /\ gary = "low"
    BY DEF NoDataFight
  <2>1. port["oe"] = 1
    BY Present, Lines DEF Good
  <2>2. 0 \in (IF BufEnabled /\ gary # "absent" THEN {IF gary = "low" THEN 0 ELSE 1} ELSE {})
    BY <2>1 DEF FlashDrives, OeDrivers
  <2>3. QED
    BY <2>2
<1>2. QED
  BY <1>1, Inductive, PTL

\* The chip has seen the command's write cycles, in order, so far, and the words were read
\* from the addresses asked; when the handler is over, all of them.
THEOREM CyclesAreRight ==
  Spec => []CyclesAsIntended
<1>1. IInv => CyclesAsIntended
  <2> SUFFICES ASSUME IInv PROVE CyclesAsIntended
    OBVIOUS
  <2>1. IsPrefix(latched, handler.writes) /\ IsPrefix(sampled, handler.reads)
    BY Present, Lines DEF Good
  <2>2. ASSUME todo = <<>> PROVE latched = handler.writes /\ sampled = handler.reads
    <3>1. Now \in Free(FALSE, handler.writes, handler.reads)
      BY <2>2, Over
    <3>2. QED
      BY <3>1, Lines DEF Free, Quiet
  <2>3. QED
    BY <2>1, <2>2 DEF CyclesAsIntended
<1>2. QED
  BY <1>1, Inductive, PTL

\* Between commands Gary has the bus.
THEOREM ReleasesTheBus ==
  Spec => []BusIsFree
<1>1. IInv => BusIsFree
  <2> SUFFICES ASSUME IInv, todo = <<>>
               PROVE  /\ \A g \in {"data", "addr", "F"} : ~ddr[g]
                      /\ ddr["we"] /\ ddr["rst"] /\ We = 1 /\ Rst = 1
    BY DEF BusIsFree
  <2>1. Now \in Free(FALSE, handler.writes, handler.reads)
    BY Over
  <2>2. QED
    BY <2>1, Lines DEF Free, Quiet, Level
<1>2. QED
  BY <1>1, Inductive, PTL

\* From the first word of an erase, and between the first and the last of a program, Gary
\* cannot make the flash drive the bus.
THEOREM GaryIsShutOut ==
  Spec => []IsolatedForWrites
<1>1. IInv => IsolatedForWrites
  <2> SUFFICES ASSUME IInv PROVE IsolatedForWrites
    OBVIOUS
  <2>1. Good(handler, Now)
    BY Present
  <2>2. QED
    BY <2>1, Lines DEF Good, IsolatedForWrites
<1>2. QED
  BY <1>1, Inductive, PTL

\* /RST falls only for a command that asks for it, whatever restarts the firmware.
THEOREM NoStrayReset ==
  Spec => []ResetsOnlyWhenAsked
<1>1. IInv => ResetsOnlyWhenAsked
  <2> SUFFICES ASSUME IInv PROVE ResetsOnlyWhenAsked
    OBVIOUS
  <2>1. Good(handler, Now)
    BY Present
  <2>2. QED
    BY <2>1, Lines DEF Good, ResetsOnlyWhenAsked
<1>2. QED
  BY <1>1, Inductive, PTL

\* A word is sampled only off a data bus the flash drives and the AVR does not.
THEOREM ReadsAreReads ==
  Spec => ReadsOffTheFlash
<1>1. IInv /\ [Next]_vars =>
        [Len(sampled') > Len(sampled) => FlashDrives /\ ddr["addr"] /\ ~ddr["data"]]_vars
  <2> SUFFICES ASSUME IInv, [Next]_vars, Len(sampled') > Len(sampled)
               PROVE  FlashDrives /\ ddr["addr"] /\ ~ddr["data"]
    OBVIOUS
  <2>1. sampled \in Seq(Nat) /\ Len(sampled) \in Nat
    BY Present, Lines, LenProperties DEF States
  <2>2. sampled' # sampled /\ sampled' # <<>>
    BY <2>1, EmptySeq
  <2>3. Execute
    BY <2>2 DEF Next, Call, Restart, PowerUp, GaryTurns, vars
  <2>4. todo # <<>> /\ Head(todo).set = "sample"
    BY <2>2, <2>3 DEF Execute
  <2>5. /\ ddr["F"] /\ port["oe"] = 0 /\ We = 1 /\ Rst = 1 /\ ddr["addr"] /\ ~ddr["data"]
    BY <2>4, Present, Lines DEF Allowed
  <2>6. QED
    BY <2>5 DEF FlashDrives, OeDrivers
<1>2. QED
  BY <1>1, Inductive, PTL DEF Spec, ReadsOffTheFlash
=============================================================================

---------------------------- MODULE CodecProofs ----------------------------
(***************************************************************************)
(* The invariants of GameDataCodec, for all snapshots and all limits.      *)
(*                                                                         *)
(* A value the buffer holds at an offset is read there (for each type, up  *)
(* to FieldRead); a read of anything stays in the buffer (up to            *)
(* KindBounds); and the fields of a snapshot are held one after the other  *)
(* (FieldFound).  The invariant of the call says that the cursor is where  *)
(* the last field that came whole ends.                                    *)
(***************************************************************************)
EXTENDS GameDataCodec, WellFoundedInduction, TLAPS

----------------------------------------------------------------------------
(* Induction over the numbers, from the theorem that < is well founded:    *)
(* stated for sets, because the provers cannot instantiate an operator.    *)

\* A set of numbers that is not empty has a least one.
LEMMA LeastNumber ==
  ASSUME NEW T \in SUBSET Nat, T # {}
  PROVE  \E m \in T : \A n \in T : m <= n
<1> DEFINE R == {ss \in Nat \X Nat : ss[1] < ss[2]}
<1>1. OpToRel(<, Nat) = R
  BY Zenon DEF OpToRel
<1>2. IsWellFoundedOn(R, Nat)
  BY <1>1, NatLessThanWellFounded, Zenon
<1>3. PICK m \in T : \A n \in T : ~ (<<n, m>> \in R)
  <2> HIDE DEF R
  <2> QED
    BY <1>2, WFMin
<1>4. ASSUME NEW n \in T PROVE m <= n
  <2>1. <<n, m>> \notin R
    BY <1>3
  <2> QED
    BY <2>1
<1> QED
  BY <1>4

\* What holds 0, and n + 1 whenever n, holds every number.
LEMMA Induction ==
  ASSUME NEW S, 0 \in S, \A n \in Nat : n \in S => n + 1 \in S
  PROVE  Nat \subseteq S
<1> SUFFICES ASSUME Nat \ S # {} PROVE FALSE
  OBVIOUS
<1>1. PICK m \in Nat \ S : \A n \in Nat \ S : m <= n
  BY LeastNumber
<1>2. m - 1 \in Nat
  BY <1>1
<1>3. m - 1 \in S
  BY <1>1, <1>2
<1>4. (m - 1) + 1 \in S
  BY <1>2, <1>3
<1> QED
  BY <1>1, <1>4

----------------------------------------------------------------------------
(* Pieces put one after the other. *)

\* Offsets is the function its recursion defines.
LEMMA OffsetsAre ==
  ASSUME NEW pieces, Len(pieces) \in Nat
  PROVE  Offsets(pieces) = [i \in 0 .. Len(pieces) |->
           IF i = 0 THEN 0 ELSE Offsets(pieces)[i - 1] + Len(pieces[i])]
<1> DEFINE Def(g, m) == g = [i \in 0 .. m |-> IF i = 0 THEN 0 ELSE g[i - 1] + Len(pieces[i])]
<1> DEFINE S == {m \in Nat : \E g : Def(g, m)}
<1>1. 0 \in S
  <2>1. Def([i \in 0 .. 0 |-> 0], 0)
    OBVIOUS
  <2> QED
    BY <2>1
<1>2. ASSUME NEW m \in Nat, m \in S PROVE m + 1 \in S
  <2>1. PICK g : Def(g, m)
    BY <1>2
  <2> DEFINE h == [i \in 0 .. m + 1 |->
                     IF i = m + 1 THEN g[m] + Len(pieces[m + 1]) ELSE g[i]]
  <2>2. Def(h, m + 1)
    BY <2>1
  <2> HIDE DEF h
  <2> QED
    BY <2>2
<1>3. Len(pieces) \in S
  <2> HIDE DEF S
  <2> QED
    BY <1>1, <1>2, Induction
<1>4. \E g : Def(g, Len(pieces))
  BY <1>3
<1> QED
  BY <1>4 DEF Offsets

\* Numbers each of which is at least the one before it only grow.
LEMMA Grow ==
  ASSUME NEW n \in Nat, NEW off \in [0 .. n -> Nat],
         \A h \in 1 .. n : off[h - 1] <= off[h],
         NEW j \in 0 .. n, NEW i \in 0 .. j
  PROVE  off[i] <= off[j]
<1> DEFINE T == {m \in Nat : m <= n => \A h \in 0 .. m : off[h] <= off[m]}
<1>1. 0 \in T
  OBVIOUS
<1>2. ASSUME NEW m \in Nat, m \in T PROVE m + 1 \in T
  <2> SUFFICES ASSUME m + 1 <= n, NEW h \in 0 .. m + 1 PROVE off[h] <= off[m + 1]
    OBVIOUS
  <2>1. off[m] <= off[m + 1]
    <3>1. m + 1 \in 1 .. n /\ (m + 1) - 1 = m
      OBVIOUS
    <3> QED
      BY <3>1
  <2>2. CASE h \in 0 .. m
    <3>1. off[h] <= off[m]
      BY <1>2, <2>2
    <3>2. off[h] \in Nat /\ off[m] \in Nat /\ off[m + 1] \in Nat
      OBVIOUS
    <3> QED
      BY <2>1, <3>1, <3>2
  <2>3. CASE h = m + 1
    BY <2>3
  <2> QED
    BY <2>2, <2>3
<1>3. Nat \subseteq T
  <2> HIDE DEF T
  <2> QED
    BY <1>1, <1>2, Induction
<1> QED
  BY <1>3

\* The first piece begins at 0, each of the others where the one before it ends.
LEMMA OffsetsSum ==
  ASSUME NEW S, NEW pieces \in Seq(Seq(S))
  PROVE  /\ Offsets(pieces) \in [0 .. Len(pieces) -> Nat]
         /\ Offsets(pieces)[0] = 0
         /\ \A i \in 1 .. Len(pieces) :
              Offsets(pieces)[i] = Offsets(pieces)[i - 1] + Len(pieces[i])
         /\ \A j \in 0 .. Len(pieces) : \A i \in 0 .. j : Offsets(pieces)[i] <= Offsets(pieces)[j]
<1>0. Len(pieces) \in Nat
  OBVIOUS
<1>1. PICK off : /\ off = Offsets(pieces)
                 /\ off = [i \in 0 .. Len(pieces) |->
                            IF i = 0 THEN 0 ELSE off[i - 1] + Len(pieces[i])]
  BY <1>0, OffsetsAre, Zenon
<1>2. off[0] = 0
  BY <1>0, <1>1
<1>3. \A i \in 1 .. Len(pieces) : off[i] = off[i - 1] + Len(pieces[i])
  BY <1>0, <1>1
<1> DEFINE T == {m \in Nat : m <= Len(pieces) => off[m] \in Nat}
<1>4. 0 \in T
  BY <1>2
<1>5. ASSUME NEW m \in Nat, m \in T PROVE m + 1 \in T
  <2> SUFFICES ASSUME m + 1 <= Len(pieces) PROVE off[m + 1] \in Nat
    OBVIOUS
  <2>1. off[m + 1] = off[m] + Len(pieces[m + 1])
    BY <1>3
  <2>2. off[m] \in Nat
    BY <1>5
  <2>3. Len(pieces[m + 1]) \in Nat
    OBVIOUS
  <2> QED
    BY <2>1, <2>2, <2>3
<1>6. Nat \subseteq T
  <2> HIDE DEF T
  <2> QED
    BY <1>4, <1>5, Induction
<1>7. off \in [0 .. Len(pieces) -> Nat]
  <2>1. \A i \in 0 .. Len(pieces) : off[i] \in Nat
    BY <1>0, <1>6
  <2>2. off = [i \in 0 .. Len(pieces) |-> off[i]]
    BY <1>1
  <2> QED
    BY <2>1, <2>2
<1>8. \A j \in 0 .. Len(pieces) : \A i \in 0 .. j : off[i] <= off[j]
  <2>1. ASSUME NEW h \in 1 .. Len(pieces) PROVE off[h - 1] <= off[h]
    <3>1. Len(pieces[h]) \in Nat
      OBVIOUS
    <3>2. off[h] = off[h - 1] + Len(pieces[h])
      BY <1>3, Zenon
    <3>3. h - 1 \in 0 .. Len(pieces)
      BY <1>0
    <3>4. off[h - 1] \in Nat
      BY <1>7, <3>3, Zenon
    <3> QED
      BY <3>1, <3>2, <3>4
  <2> QED
    BY <1>0, <1>7, <2>1, Grow
<1> QED
  BY <1>1, <1>2, <1>3, <1>7, <1>8, Zenon

\* FlattenSeq, as the pieces joined one after the other.
LEMMA FlattenIs ==
  ASSUME NEW pieces, Len(pieces) \in Nat \ {0}
  PROVE  \E g :
           /\ g[1] = pieces[1]
           /\ \A i \in 2 .. Len(pieces) : g[i] = g[i - 1] \o pieces[i]
           /\ FlattenSeq(pieces) = g[Len(pieces)]
<1> DEFINE Def(g, m) == g = [i \in 1 .. m |-> IF i = 1 THEN pieces[i] ELSE g[i - 1] \o pieces[i]]
<1> DEFINE S == {m \in Nat : \E g : Def(g, m)}
<1>1. 0 \in S
  <2>1. Def([i \in 1 .. 0 |-> <<>>], 0)
    OBVIOUS
  <2> QED
    BY <2>1
<1>2. ASSUME NEW m \in Nat, m \in S PROVE m + 1 \in S
  <2>1. PICK g : Def(g, m)
    BY <1>2
  <2> DEFINE h == [i \in 1 .. m + 1 |->
                     IF i = 1 THEN pieces[1]
                     ELSE IF i = m + 1 THEN g[m] \o pieces[m + 1] ELSE g[i]]
  <2>2. ASSUME NEW i \in 1 .. m + 1
        PROVE  h[i] = IF i = 1 THEN pieces[i] ELSE h[i - 1] \o pieces[i]
    <3>1. CASE i = 1
      BY <3>1
    <3>2. CASE i = m + 1 /\ i # 1
      <4>1. m \in 1 .. m /\ m \in 1 .. m + 1 /\ i - 1 = m /\ m # m + 1
        BY <3>2
      <4>2. h[i] = g[m] \o pieces[i]
        BY <3>2
      <4>3. h[m] = g[m]
        <5>1. CASE m = 1
          BY <2>1, <4>1, <5>1
        <5>2. CASE m # 1
          BY <4>1, <5>2
        <5> QED
          BY <5>1, <5>2
      <4> QED
        BY <3>2, <4>1, <4>2, <4>3
    <3>3. CASE i \in 2 .. m
      <4>1. i \in 1 .. m /\ i - 1 \in 1 .. m /\ i - 1 \in 1 .. m + 1
            /\ i # 1 /\ i # m + 1 /\ i - 1 # m + 1
        BY <3>3
      <4>2. h[i] = g[i]
        BY <4>1
      <4>3. g[i] = g[i - 1] \o pieces[i]
        BY <2>1, <4>1, Zenon
      <4>4. h[i - 1] = g[i - 1]
        <5>1. CASE i - 1 = 1
          <6>1. g[i - 1] = pieces[i - 1]
            BY <2>1, <4>1, <5>1, Zenon
          <6> QED
            BY <4>1, <5>1, <6>1
        <5>2. CASE i - 1 # 1
          BY <4>1, <5>2
        <5> QED
          BY <5>1, <5>2
      <4> QED
        BY <4>1, <4>2, <4>3, <4>4
    <3> QED
      BY <3>1, <3>2, <3>3
  <2>3. h = [i \in 1 .. m + 1 |-> h[i]]
    OBVIOUS
  <2> HIDE DEF h
  <2>4. Def(h, m + 1)
    BY <2>2, <2>3, Zenon
  <2> HIDE DEF Def
  <2>5. \E q : Def(q, m + 1)
    BY <2>4, Zenon
  <2> QED
    BY <2>5
<1>3. Len(pieces) \in S
  <2> HIDE DEF S
  <2> QED
    BY <1>1, <1>2, Induction
<1> DEFINE f == CHOOSE g : Def(g, Len(pieces))
<1>4. Def(f, Len(pieces))
  BY <1>3, Zenon
<1>5. FlattenSeq(pieces) = f[Len(pieces)]
  BY DEF FlattenSeq
<1> HIDE DEF f
<1>6. f[1] = pieces[1] /\ \A i \in 2 .. Len(pieces) : f[i] = f[i - 1] \o pieces[i]
  <2>1. \A i \in 1 .. Len(pieces) : f[i] = IF i = 1 THEN pieces[i] ELSE f[i - 1] \o pieces[i]
    BY <1>4, Zenon
  <2> HIDE DEF Def
  <2>2. 1 \in 1 .. Len(pieces) /\ \A i \in 2 .. Len(pieces) : i \in 1 .. Len(pieces) /\ i # 1
    OBVIOUS
  <2> QED
    BY <2>1, <2>2, Zenon
<1> QED
  BY <1>5, <1>6

\* g[i] is the first i of n pieces, one after the other, and off[i] its length.
Chain(S, n, pieces, off, g) ==
  /\ off \in [0 .. n -> Nat]
  /\ \A i \in 1 .. n : pieces[i] \in Seq(S)
  /\ off[0] = 0
  /\ \A i \in 1 .. n : off[i] = off[i - 1] + Len(pieces[i])
  /\ g[1] = pieces[1]
  /\ \A i \in 2 .. n : g[i] = g[i - 1] \o pieces[i]

\* Each piece is found in what is joined, behind those before it.
LEMMA Joined ==
  ASSUME NEW S, NEW n \in Nat \ {0}, NEW pieces, NEW off, NEW g, Chain(S, n, pieces, off, g)
  PROVE  /\ g[n] \in Seq(S) /\ Len(g[n]) = off[n]
         /\ \A i \in 1 .. n : \A j \in 1 .. Len(pieces[i]) :
              g[n][off[i - 1] + j] = pieces[i][j]
<1>1. \A i \in 1 .. n : Len(pieces[i]) \in Nat
  <2>1. \A s \in Seq(S) : Len(s) \in Nat
    OBVIOUS
  <2> QED
    BY <2>1, Zenon DEF Chain
<1>o. off \in [0 .. n -> Nat]
  BY Zenon DEF Chain
<1>2. \A j \in 0 .. n : \A i \in 0 .. j : off[i] <= off[j]
  <2>1. \A h \in 1 .. n : off[h - 1] <= off[h]
    <3> SUFFICES ASSUME NEW h \in 1 .. n PROVE off[h - 1] <= off[h]
      OBVIOUS
    <3>1. off[h - 1] \in Nat /\ Len(pieces[h]) \in Nat /\ off[h] = off[h - 1] + Len(pieces[h])
      BY <1>1, <1>o DEF Chain
    <3> QED
      BY <3>1
  <2> QED
    BY <1>o, <2>1, Grow
<1>3. \A a, b, c, l \in Nat : \A j \in 1 .. l : c <= b /\ c = a + l => a + j \in 1 .. b
  OBVIOUS
<1> DEFINE Good(m) ==
      /\ g[m] \in Seq(S) /\ Len(g[m]) = off[m]
      /\ \A i \in 1 .. m : \A j \in 1 .. Len(pieces[i]) : g[m][off[i - 1] + j] = pieces[i][j]
<1> DEFINE T == {m \in Nat : m + 1 <= n => Good(m + 1)}
<1>4. 0 \in T
  <2>1. Good(1)
    <3>1. 1 \in 1 .. n
      OBVIOUS
    <3>2. pieces[1] \in Seq(S) /\ Len(pieces[1]) \in Nat /\ off[1] = off[0] + Len(pieces[1])
      BY <1>1, <3>1 DEF Chain
    <3>3. off[1] = Len(pieces[1]) /\ g[1] = pieces[1]
      BY <3>2 DEF Chain
    <3>4. \A i \in 1 .. 1 : i = 1 /\ off[i - 1] = 0
      BY DEF Chain
    <3>5. \A j \in 1 .. Len(pieces[1]) : 0 + j = j
      OBVIOUS
    <3> QED
      BY <3>2, <3>3, <3>4, <3>5, Zenon
  <2> QED
    BY <2>1
<1>5. ASSUME NEW m \in Nat, m \in T PROVE m + 1 \in T
  <2> SUFFICES ASSUME (m + 1) + 1 <= n PROVE Good((m + 1) + 1)
    OBVIOUS
  <2>0. PICK r : r = (m + 1) + 1
    OBVIOUS
  <2>1. r \in 2 .. n /\ r \in 1 .. n /\ r - 1 = m + 1 /\ r - 1 \in 1 .. n /\ r - 1 \in 0 .. n
    BY <2>0
  <2>2. Good(r - 1)
    <3>1. Good(m + 1)
      BY <1>5
    <3> QED
      BY <2>1, <3>1, Zenon
  <2>3. g[r] = g[r - 1] \o pieces[r] /\ pieces[r] \in Seq(S)
    BY <2>1, Zenon DEF Chain
  <2>4. off[r] = off[r - 1] + Len(pieces[r])
    BY <2>1, Zenon DEF Chain
  <2>5. PICK s : s \in Seq(S) /\ s = g[r - 1]
    BY <2>2, Zenon
  <2>6. PICK t : t \in Seq(S) /\ t = pieces[r]
    BY <2>3, Zenon
  <2>7. /\ g[r] \in Seq(S) /\ Len(g[r]) = Len(s) + Len(t)
        /\ \A i \in 1 .. Len(s) : g[r][i] = s[i]
        /\ \A i \in 1 .. Len(t) : g[r][Len(s) + i] = t[i]
    <3>1. g[r] = s \o t
      BY <2>3, <2>5, <2>6, Zenon
    <3>2. s \in Seq(S) /\ t \in Seq(S)
      BY <2>5, <2>6
    <3>3. g[r] \in Seq(S) /\ Len(g[r]) = Len(s) + Len(t)
      BY <3>1, <3>2, SMT
    <3>4. \A i \in 1 .. Len(s) : g[r][i] = s[i]
      BY <3>1, <3>2, SMT
    <3>5. \A i \in 1 .. Len(t) : g[r][Len(s) + i] = t[i]
      BY <3>1, <3>2, SMT
    <3> QED
      BY <3>3, <3>4, <3>5
  <2>8. Len(g[r]) = off[r]
    BY <2>2, <2>4, <2>5, <2>6, <2>7, Zenon
  <2>9. ASSUME NEW i \in 1 .. r, NEW j \in 1 .. Len(pieces[i])
        PROVE  g[r][off[i - 1] + j] = pieces[i][j]
    <3>1. CASE i = r
      BY <2>2, <2>5, <2>6, <2>7, <3>1, Zenon
    <3>2. CASE i # r
      <4>1. i \in 1 .. r - 1 /\ i \in 1 .. n /\ i - 1 \in 0 .. n /\ i \in 0 .. r - 1
        BY <2>1, <3>2
      <4>2. off[i] <= off[r - 1] /\ off[i] = off[i - 1] + Len(pieces[i])
        BY <1>2, <2>1, <4>1, Zenon DEF Chain
      <4>3. off[i - 1] \in Nat /\ off[r - 1] \in Nat /\ Len(pieces[i]) \in Nat
        BY <1>1, <1>o, <2>1, <4>1, Zenon
      <4>4. off[i - 1] + j \in 1 .. off[r - 1]
        <5>1. off[i] \in Nat
          BY <1>o, <4>1
        <5> QED
          BY <1>3, <4>2, <4>3, <5>1, Zenon
      <4>5. off[i - 1] + j \in 1 .. Len(s)
        BY <2>2, <2>5, <4>4, Zenon
      <4> QED
        BY <2>2, <2>5, <2>7, <4>1, <4>5, Zenon
    <3> QED
      BY <3>1, <3>2
  <2>10. Good(r)
    BY <2>7, <2>8, <2>9
  <2> QED
    BY <2>0, <2>10, Zenon
<1>6. Nat \subseteq T
  <2> HIDE DEF T
  <2> QED
    BY <1>4, <1>5, Induction
<1>7. n - 1 \in T /\ (n - 1) + 1 = n /\ n <= n
  <2> HIDE DEF T
  <2>1. n - 1 \in Nat
    OBVIOUS
  <2> QED
    BY <1>6, <2>1
<1>8. Good((n - 1) + 1)
  <2>1. (n - 1) + 1 <= n
    BY <1>7
  <2> QED
    BY <1>7, <2>1, Zenon
<1> QED
  BY <1>7, <1>8, Zenon

\* Each piece is found behind those before it.
LEMMA FlattenKeeps ==
  ASSUME NEW S, NEW pieces \in Seq(Seq(S))
  PROVE  /\ FlattenSeq(pieces) \in Seq(S)
         /\ Len(FlattenSeq(pieces)) = Offsets(pieces)[Len(pieces)]
         /\ \A i \in 1 .. Len(pieces) : \A j \in 1 .. Len(pieces[i]) :
              FlattenSeq(pieces)[Offsets(pieces)[i - 1] + j] = pieces[i][j]
<1>1. Len(pieces) \in Nat /\ \A i \in 1 .. Len(pieces) : pieces[i] \in Seq(S)
  OBVIOUS
<1>2. /\ Offsets(pieces) \in [0 .. Len(pieces) -> Nat] /\ Offsets(pieces)[0] = 0
      /\ \A i \in 1 .. Len(pieces) : Offsets(pieces)[i] = Offsets(pieces)[i - 1] + Len(pieces[i])
  BY OffsetsSum
<1>3. CASE Len(pieces) = 0
  <2>1. pieces = <<>>
    BY <1>3
  <2>2. FlattenSeq(pieces) = <<>>
    BY <2>1 DEF FlattenSeq
  <2>3. Len(<<>>) = 0 /\ <<>> \in Seq(S) /\ \A i \in 1 .. 0 : FALSE
    OBVIOUS
  <2> QED
    BY <1>2, <1>3, <2>2, <2>3, Zenon
<1>4. CASE Len(pieces) # 0
  <2>1. Len(pieces) \in Nat \ {0}
    BY <1>1, <1>4
  <2>2. PICK g : /\ g[1] = pieces[1]
                 /\ \A i \in 2 .. Len(pieces) : g[i] = g[i - 1] \o pieces[i]
                 /\ FlattenSeq(pieces) = g[Len(pieces)]
    BY <2>1, FlattenIs
  <2>3. /\ g[Len(pieces)] \in Seq(S) /\ Len(g[Len(pieces)]) = Offsets(pieces)[Len(pieces)]
        /\ \A i \in 1 .. Len(pieces) : \A j \in 1 .. Len(pieces[i]) :
              g[Len(pieces)][Offsets(pieces)[i - 1] + j] = pieces[i][j]
    <3>1. Chain(S, Len(pieces), pieces, Offsets(pieces), g)
      BY <1>1, <1>2, <2>2, Zenon DEF Chain
    <3> QED
      BY <2>1, <3>1, Joined
  <2> QED
    BY <2>2, <2>3, Zenon
<1> QED
  BY <1>3, <1>4

----------------------------------------------------------------------------
(* Bytes in the buffer. *)

Holds(q, w) ==
  q \in Nat /\ q + Len(w) <= Len(buf) /\ \A i \in 1 .. Len(w) : buf[q + i] = w[i]

\* What is joined has both lengths together.
LEMMA Joining ==
  ASSUME NEW S, NEW s \in Seq(S), NEW t \in Seq(S)
  PROVE  s \o t \in Seq(S) /\ Len(s \o t) = Len(s) + Len(t)
BY SMT

\* Of two sequences held one after the other each is held.
LEMMA HoldsParts ==
  ASSUME NEW q, NEW s \in Seq(Byte), NEW t \in Seq(Byte), Holds(q, s \o t)
  PROVE  /\ Holds(q, s) /\ Holds(q + Len(s), t)
         /\ s \o t \in Seq(Byte) /\ Len(s \o t) = Len(s) + Len(t)
<1>1. s \o t \in Seq(Byte) /\ Len(s \o t) = Len(s) + Len(t)
  BY SMT
<1>2. Holds(q, s)
  <2>1. \A i \in 1 .. Len(s) : i \in 1 .. Len(s \o t) /\ (s \o t)[i] = s[i]
    BY SMT
  <2>2. q \in Nat /\ q + Len(s) + Len(t) <= Len(buf)
    BY <1>1 DEF Holds
  <2>3. q + Len(s) <= Len(buf)
    <3>1. Len(s) \in Nat /\ Len(t) \in Nat
      OBVIOUS
    <3>2. PICK a \in Nat, b \in Nat : a = Len(s) /\ b = Len(t)
      BY <3>1, Zenon
    <3> QED
      BY <2>2, <3>2
  <2> QED
    BY <2>1, <2>2, <2>3 DEF Holds
<1>3. Holds(q + Len(s), t)
  <2>1. \A i \in 1 .. Len(t) : Len(s) + i \in 1 .. Len(s \o t) /\ (s \o t)[Len(s) + i] = t[i]
    BY SMT
  <2>2. q \in Nat /\ q + (Len(s) + Len(t)) <= Len(buf)
    BY <1>1 DEF Holds
  <2>3. Len(s) \in Nat /\ Len(t) \in Nat
    OBVIOUS
  <2>4. \A i \in 1 .. Len(t) : buf[q + (Len(s) + i)] = t[i]
    BY <2>1, Zenon DEF Holds
  <2>5. \A i \in 1 .. Len(t) : buf[(q + Len(s)) + i] = t[i]
    <3>1. \A i \in 1 .. Len(t) : (q + Len(s)) + i = q + (Len(s) + i)
      BY <2>2, <2>3
    <3> QED
      BY <2>4, <3>1, Zenon
  <2>6. q + Len(s) \in Nat /\ (q + Len(s)) + Len(t) <= Len(buf)
    BY <2>2, <2>3
  <2> QED
    BY <2>5, <2>6 DEF Holds
<1> QED
  BY <1>1, <1>2, <1>3

\* Of pieces held one after the other each is held where it begins.
LEMMA HoldsPieces ==
  ASSUME NEW q, NEW pieces \in Seq(Seq(Byte)), Holds(q, FlattenSeq(pieces)),
         NEW i \in 1 .. Len(pieces)
  PROVE  Holds(q + Offsets(pieces)[i - 1], pieces[i])
<1>1. PICK a, b : a = Offsets(pieces)[i - 1] /\ b = Offsets(pieces)[Len(pieces)]
  OBVIOUS
<1>2. PICK l : l = Len(pieces[i])
  OBVIOUS
<1>3. a \in Nat /\ b \in Nat /\ l \in Nat /\ a + l <= b
  <2>1. Len(pieces) \in Nat /\ l \in Nat
    BY <1>2
  <2>2. i \in 0 .. Len(pieces) /\ i - 1 \in 0 .. Len(pieces) /\ Len(pieces) \in 0 .. Len(pieces)
        /\ i \in 0 .. Len(pieces)
    BY <2>1
  <2>3. a \in Nat /\ b \in Nat
    BY <1>1, <2>2, OffsetsSum
  <2>4. Offsets(pieces)[i] <= b /\ Offsets(pieces)[i] = a + l
    BY <1>1, <1>2, <2>2, OffsetsSum, Zenon
  <2> QED
    BY <2>1, <2>3, <2>4
<1>4. PICK flat : flat = FlattenSeq(pieces)
  OBVIOUS
<1>5. Len(flat) = b
  BY <1>1, <1>4, FlattenKeeps, Zenon
<1>6. \A j \in 1 .. l : flat[a + j] = pieces[i][j]
  BY <1>1, <1>2, <1>4, FlattenKeeps
<1>7. q \in Nat /\ q + b <= Len(buf) /\ \A j \in 1 .. b : buf[q + j] = flat[j]
  BY <1>4, <1>5, Zenon DEF Holds
<1>8. q + a \in Nat /\ (q + a) + l <= Len(buf)
  BY <1>3, <1>7
<1>9. \A j \in 1 .. l : a + j \in 1 .. b /\ (q + a) + j = q + (a + j)
  BY <1>3, <1>7
<1>10. \A j \in 1 .. l : buf[(q + a) + j] = pieces[i][j]
  BY <1>6, <1>7, <1>9
<1> QED
  BY <1>1, <1>2, <1>8, <1>10, Zenon DEF Holds

----------------------------------------------------------------------------
(* What was written is read. *)

\* A sequence held is the part of the buffer it takes.
LEMMA Read ==
  ASSUME buf \in Seq(Byte), NEW v \in Seq(Byte), NEW q, Holds(q, v)
  PROVE  SubSeq(buf, q + 1, q + Len(v)) = v /\ ~ (q + Len(v) > Len(buf))
<1>1. /\ q \in Nat /\ q + Len(v) <= Len(buf)
      /\ \A i \in 1 .. Len(v) : buf[q + i] = v[i]
  BY DEF Holds
<1>2. Len(v) \in Nat /\ Len(buf) \in Nat
  OBVIOUS
<1>3. SubSeq(buf, q + 1, q + Len(v)) = v
  BY <1>1, <1>2
<1>4. ~ (q + Len(v) > Len(buf))
  BY <1>1, <1>2
<1> QED
  BY <1>3, <1>4

\* A scalar held is read.
LEMMA ValRead ==
  ASSUME buf \in Seq(Byte), NEW v \in Seq(Byte), NEW q, Holds(q, v)
  PROVE  ReadVal(q, Len(v)) = At(q + Len(v), v)
BY Read, Zenon DEF ReadVal

\* A scalar is a sequence of bytes.
LEMMA BytesAre ==
  ASSUME NEW w \in Nat, NEW v \in Bytes(w)
  PROVE  v \in Seq(Byte) /\ Len(v) = w
BY DEF Bytes

\* A digit of 256 and what is above it.
LEMMA Digit ==
  ASSUME NEW n \in Nat
  PROVE  \E m \in Nat, a \in Nat : a <= 255 /\ n = a + 256 * m
<1>1. PICK m \in Nat, a \in Nat : m = n \div 256 /\ a = n % 256
  BY SMT
<1>2. a <= 255 /\ n = a + 256 * m
  BY <1>1, SMT
<1> QED
  BY <1>2

\* The four bytes of a length or count are those of its number.
LEMMA NumberIs ==
  ASSUME NEW n \in Nat, n <= MaxLength
  PROVE  U32(n) \in Bytes(4) /\ Number(U32(n)) = n
<1>1. n <= 2147483647
  BY SMT DEF MaxLength
<1>2. PICK m \in Nat, a \in Nat : a <= 255 /\ n = a + 256 * m
  BY Digit
<1>3. PICK l \in Nat, b \in Nat : b <= 255 /\ m = b + 256 * l
  BY Digit
<1>4. PICK d \in Nat, c \in Nat : c <= 255 /\ l = c + 256 * d
  BY Digit
<1>5. n = a + 256 * b + 65536 * c + 16777216 * d /\ d <= 127
  BY <1>1, <1>2, <1>3, <1>4, SMT
<1>6. n % 256 = a /\ n \div 256 = m
  BY <1>2, SMT
<1>7. m % 256 = b
  BY <1>3, SMT
<1>8. n \div 65536 = l
  BY <1>2, <1>3, SMT
<1>9. l % 256 = c
  BY <1>4, SMT
<1>10. n \div 16777216 = d
  BY <1>2, <1>3, <1>4, SMT
<1>11. U32(n) = <<a, b, c, d>>
  BY <1>6, <1>7, <1>8, <1>9, <1>10, SMT DEF U32
<1>12. a \in Byte /\ b \in Byte /\ c \in Byte /\ d \in Byte
  BY <1>2, <1>3, <1>4, <1>5, SMT DEF Byte
<1>13. U32(n) \in Bytes(4)
  BY <1>11, <1>12, SMT DEF Bytes
<1>14. Number(U32(n)) = n
  BY <1>5, <1>11, SMT DEF Number
<1> QED
  BY <1>13, <1>14

\* A number held is read.
LEMMA NumberRead ==
  ASSUME buf \in Seq(Byte), NEW n \in Nat, n <= MaxLength, NEW q, Holds(q, U32(n))
  PROVE  ReadVal(q, 4) = At(q + 4, U32(n)) /\ Number(U32(n)) = n
<1>1. U32(n) \in Bytes(4) /\ Number(U32(n)) = n
  BY NumberIs
<1>2. U32(n) \in Seq(Byte) /\ Len(U32(n)) = 4
  BY <1>1, BytesAre
<1> QED
  BY <1>1, <1>2, ValRead

\* The bytes of a text: its length, and its characters.
LEMMA StringWritten ==
  ASSUME NEW s \in Most(Byte, MaxLength)
  PROVE  /\ s \in Seq(Byte) /\ Len(s) \in Nat /\ Len(s) <= MaxLength
         /\ U32(Len(s)) \in Seq(Byte) /\ Len(U32(Len(s))) = 4
         /\ WriteString(s) \in Seq(Byte) /\ Len(WriteString(s)) = 4 + Len(s)
<1>1. s \in Seq(Byte) /\ Len(s) \in Nat /\ Len(s) <= MaxLength
  BY DEF Most
<1>2. U32(Len(s)) \in Seq(Byte) /\ Len(U32(Len(s))) = 4
  BY <1>1, NumberIs, BytesAre
<1>3. PICK t \in Seq(Byte) : t = U32(Len(s)) /\ Len(t) = 4
  BY <1>2
<1>4. t \o s \in Seq(Byte) /\ Len(t \o s) = 4 + Len(s)
  BY <1>1, <1>3, Joining, Zenon
<1> QED
  BY <1>1, <1>2, <1>3, <1>4, Zenon DEF WriteString

\* A text held is read.
LEMMA StringRead ==
  ASSUME buf \in Seq(Byte), NEW s \in Most(Byte, MaxLength), NEW q, Holds(q, WriteString(s))
  PROVE  ReadString(q) = At(q + Len(WriteString(s)), s)
<1>1. PICK l \in Nat : l = Len(s) /\ l <= MaxLength
  BY StringWritten
<1>2. s \in Seq(Byte) /\ U32(l) \in Seq(Byte) /\ Len(U32(l)) = 4 /\ Len(WriteString(s)) = 4 + l
  BY <1>1, StringWritten
<1>3. Holds(q, U32(l)) /\ Holds(q + 4, s)
  <2>1. Holds(q, U32(l) \o s)
    BY <1>1, Zenon DEF WriteString
  <2>2. Holds(q, U32(l)) /\ Holds(q + Len(U32(l)), s)
    BY <1>2, <2>1, HoldsParts
  <2> QED
    BY <1>2, <2>2, Zenon
<1>4. ReadVal(q, 4) = At(q + 4, U32(l)) /\ Number(U32(l)) = l
  BY <1>1, <1>3, NumberRead
<1>5. q \in Nat
  BY <1>3, Zenon DEF Holds
<1>6. SubSeq(buf, (q + 4) + 1, (q + 4) + l) = s /\ ~ ((q + 4) + l > Len(buf))
  <2>1. PICK r : r = q + 4
    OBVIOUS
  <2>2. s \in Seq(Byte) /\ Holds(r, s)
    BY <1>2, <1>3, <2>1, Zenon
  <2>3. SubSeq(buf, r + 1, r + Len(s)) = s /\ ~ (r + Len(s) > Len(buf))
    BY <2>2, Read, Zenon
  <2> QED
    BY <1>1, <2>1, <2>3, Zenon
<1>7. ReadString(q) = IF q + 4 = q \/ (q + 4) + l > Len(buf)
                      THEN At(q + 4, <<>>)
                      ELSE At((q + 4) + l, SubSeq(buf, (q + 4) + 1, (q + 4) + l))
  <2>1. At(q + 4, U32(l)).p = q + 4 /\ At(q + 4, U32(l)).val = U32(l)
    BY DEF At
  <2> QED
    BY <1>4, <2>1, Zenon DEF ReadString
<1>8. q + 4 # q /\ (q + 4) + l = q + (4 + l)
  BY <1>5
<1> QED
  BY <1>2, <1>6, <1>7, <1>8, Zenon

----------------------------------------------------------------------------
(* Lists. *)

\* Entries is the function its recursion defines.
LEMMA EntriesAre ==
  ASSUME NEW q, NEW w, NEW n \in Nat
  PROVE  /\ Entries(q, w, n)[0] = At(q, <<>>)
         /\ \A i \in 1 .. n :
              Entries(q, w, n)[i] = Appended(Entries(q, w, n)[i - 1], ReadVal(Entries(q, w, n)[i - 1].p, w))
<1> DEFINE Step(r) == Appended(r, ReadVal(r.p, w))
           Def(g, m) == g = [i \in 0 .. m |-> IF i = 0 THEN At(q, <<>>) ELSE Step(g[i - 1])]
           S == {m \in Nat : \E g : Def(g, m)}
<1> HIDE DEF Step
<1>1. 0 \in S
  <2>1. Def([i \in 0 .. 0 |-> At(q, <<>>)], 0)
    OBVIOUS
  <2> QED
    BY <2>1
<1>2. ASSUME NEW m \in Nat, m \in S PROVE m + 1 \in S
  <2>1. PICK g : Def(g, m)
    BY <1>2
  <2> DEFINE h == [i \in 0 .. m + 1 |-> IF i = m + 1 THEN Step(g[m]) ELSE g[i]]
  <2>2. Def(h, m + 1)
    BY <2>1
  <2> HIDE DEF h, Def
  <2>3. \E f : Def(f, m + 1)
    BY <2>2, Zenon
  <2> QED
    BY <2>3
<1>3. n \in S
  <2> HIDE DEF S
  <2> QED
    BY <1>1, <1>2, Induction
<1>4. PICK f : f = Entries(q, w, n)
  OBVIOUS
<1>5. Def(f, n)
  <2>1. \E g : Def(g, n)
    BY <1>3
  <2> QED
    BY <1>4, <2>1, Zenon DEF Entries, Step
<1>6. f[0] = At(q, <<>>) /\ \A i \in 1 .. n : f[i] = Step(f[i - 1])
  BY <1>5
<1> QED
  BY <1>4, <1>6, Zenon DEF Step

\* The next entry appended to the first of them.
LEMMA Appending ==
  ASSUME NEW S, NEW v \in Seq(S), NEW i \in 1 .. Len(v)
  PROVE  Append(SubSeq(v, 1, i - 1), v[i]) = SubSeq(v, 1, i)
<1>1. Len(v) \in Nat
  OBVIOUS
<1>2. PICK a : a = SubSeq(v, 1, i - 1)
  OBVIOUS
<1>3. PICK b : b = SubSeq(v, 1, i)
  OBVIOUS
<1>4. a = [j \in 1 .. i - 1 |-> v[j]] /\ a \in Seq(S) /\ Len(a) = i - 1
  BY <1>1, <1>2
<1>5. b = [j \in 1 .. i |-> v[j]] /\ b \in Seq(S) /\ Len(b) = i
  BY <1>1, <1>3
<1>6. /\ Append(a, v[i]) \in Seq(S) /\ Len(Append(a, v[i])) = i
      /\ \A j \in 1 .. i : Append(a, v[i])[j] = v[j]
  BY <1>1, <1>4
<1>7. Append(a, v[i]) = b
  BY <1>5, <1>6
<1> QED
  BY <1>2, <1>3, <1>7

(* A list whose steps each find the next of v, at the offset pos[i - 1]. *)
LEMMA ListRead ==
  ASSUME NEW S, NEW v \in Seq(S), NEW f, NEW pos,
         f[0] = At(pos[0], <<>>),
         \A i \in 1 .. Len(v) :
           f[i - 1] = At(pos[i - 1], SubSeq(v, 1, i - 1)) =>
             f[i] = Appended(f[i - 1], At(pos[i], v[i]))
  PROVE  f[Len(v)] = At(pos[Len(v)], v)
<1> DEFINE T == {m \in Nat : m <= Len(v) => f[m] = At(pos[m], SubSeq(v, 1, m))}
<1>0. Len(v) \in Nat
  OBVIOUS
<1>1. 0 \in T
  <2>1. SubSeq(v, 1, 0) = <<>>
    OBVIOUS
  <2> QED
    BY <2>1
<1>2. ASSUME NEW m \in Nat, m \in T PROVE m + 1 \in T
  <2> SUFFICES ASSUME m + 1 <= Len(v) PROVE f[m + 1] = At(pos[m + 1], SubSeq(v, 1, m + 1))
    OBVIOUS
  <2>1. PICK i : i = m + 1 /\ i \in 1 .. Len(v) /\ i - 1 = m
    BY <1>0
  <2>2. f[i - 1] = At(pos[i - 1], SubSeq(v, 1, i - 1))
    BY <1>0, <1>2, <2>1
  <2>3. f[i] = Appended(f[i - 1], At(pos[i], v[i]))
    BY <2>1, <2>2, Zenon
  <2>4. f[i] = At(pos[i], Append(SubSeq(v, 1, i - 1), v[i]))
    BY <2>2, <2>3 DEF At, Appended
  <2>5. Append(SubSeq(v, 1, i - 1), v[i]) = SubSeq(v, 1, i)
    BY <2>1, Appending
  <2> QED
    BY <2>1, <2>4, <2>5, Zenon
<1>3. Len(v) \in T
  <2> HIDE DEF T
  <2> QED
    BY <1>0, <1>1, <1>2, Induction
<1>4. SubSeq(v, 1, Len(v)) = v
  OBVIOUS
<1>5. f[Len(v)] = At(pos[Len(v)], SubSeq(v, 1, Len(v)))
  BY <1>0, <1>3
<1> QED
  BY <1>4, <1>5, Zenon

\* The bytes of a list: its count, and its entries.
LEMMA ArrayWritten ==
  ASSUME NEW w \in Nat, NEW max \in Nat, max <= MaxLength, NEW v \in Most(Bytes(w), max)
  PROVE  /\ v \in Seq(Seq(Byte)) /\ Len(v) \in Nat /\ Len(v) <= max /\ Len(v) <= MaxLength
         /\ U32(Len(v)) \in Seq(Byte) /\ Len(U32(Len(v))) = 4
         /\ FlattenSeq(v) \in Seq(Byte)
         /\ WriteArray(v, max) = U32(Len(v)) \o FlattenSeq(v)
         /\ WriteArray(v, max) \in Seq(Byte)
         /\ Len(WriteArray(v, max)) = 4 + Offsets(v)[Len(v)]
<1>1. v \in Seq(Bytes(w)) /\ Len(v) \in Nat /\ Len(v) <= max
  BY DEF Most
<1>2. v \in Seq(Seq(Byte))
  <2>1. Bytes(w) \subseteq Seq(Byte)
    BY BytesAre
  <2> QED
    BY <1>1, <2>1
<1>3. Len(v) <= MaxLength
  <2>1. MaxLength \in Nat
    BY SMT DEF MaxLength
  <2> QED
    BY <1>1, <2>1
<1>4. U32(Len(v)) \in Seq(Byte) /\ Len(U32(Len(v))) = 4
  BY <1>1, <1>3, NumberIs, BytesAre
<1>5. FlattenSeq(v) \in Seq(Byte) /\ Len(FlattenSeq(v)) = Offsets(v)[Len(v)]
  BY <1>2, FlattenKeeps, Zenon
<1>6. WriteArray(v, max) = U32(Len(v)) \o FlattenSeq(v)
  <2>1. SubSeq(v, 1, Len(v)) = v
    BY <1>1
  <2>2. ~ (Len(v) > max)
    BY <1>1
  <2> QED
    BY <2>1, <2>2, Zenon DEF WriteArray
<1>7. /\ U32(Len(v)) \o FlattenSeq(v) \in Seq(Byte)
      /\ Len(U32(Len(v)) \o FlattenSeq(v)) = Len(U32(Len(v))) + Len(FlattenSeq(v))
  BY <1>4, <1>5, Joining, Zenon
<1> QED
  BY <1>1, <1>2, <1>3, <1>4, <1>5, <1>6, <1>7, Zenon

\* A list held is read, and accepted.
LEMMA ArrayRead ==
  ASSUME buf \in Seq(Byte), NEW w \in Nat, NEW max \in Nat, max <= MaxLength,
         NEW v \in Most(Bytes(w), max), NEW q, Holds(q, WriteArray(v, max))
  PROVE  ReadArray(q, w, max) = At(q + Len(WriteArray(v, max)), v)
<1>1. PICK n \in Nat : n = Len(v) /\ n <= max /\ n <= MaxLength
  BY ArrayWritten
<1>2. v \in Seq(Seq(Byte)) /\ \A i \in 1 .. n : Len(v[i]) = w
  <2>1. v \in Seq(Bytes(w))
    BY DEF Most
  <2>2. \A i \in 1 .. n : v[i] \in Bytes(w)
    BY <1>1, <2>1
  <2> QED
    BY <2>2, ArrayWritten, BytesAre
<1>3. Holds(q, U32(n)) /\ Holds(q + 4, FlattenSeq(v))
  <2>1. /\ U32(n) \in Seq(Byte) /\ Len(U32(n)) = 4 /\ FlattenSeq(v) \in Seq(Byte)
        /\ Holds(q, U32(n) \o FlattenSeq(v))
    BY <1>1, ArrayWritten, Zenon
  <2>2. Holds(q, U32(n)) /\ Holds(q + Len(U32(n)), FlattenSeq(v))
    BY <2>1, HoldsParts
  <2> QED
    BY <2>1, <2>2, Zenon
<1>4. ReadVal(q, 4) = At(q + 4, U32(n)) /\ Number(U32(n)) = n
  BY <1>1, <1>3, NumberRead
<1>5. ReadArray(q, w, max) = Entries(q + 4, w, n)[n]
  <2>1. At(q + 4, U32(n)).p = q + 4 /\ At(q + 4, U32(n)).val = U32(n)
    BY DEF At
  <2>2. ~ (n > max)
    BY <1>1
  <2> QED
    BY <1>4, <2>1, <2>2, Zenon DEF ReadArray
<1>6. PICK f : f = Entries(q + 4, w, n)
  OBVIOUS
<1>7. /\ f[0] = At(q + 4, <<>>)
      /\ \A i \in 1 .. n : f[i] = Appended(f[i - 1], ReadVal(f[i - 1].p, w))
  <2>1. /\ Entries(q + 4, w, n)[0] = At(q + 4, <<>>)
        /\ \A i \in 1 .. n :
             Entries(q + 4, w, n)[i] = Appended(Entries(q + 4, w, n)[i - 1],
                                               ReadVal(Entries(q + 4, w, n)[i - 1].p, w))
    BY EntriesAre
  <2> QED
    BY <1>6, <2>1, Zenon
<1>8. PICK pos : pos = [i \in 0 .. n |-> (q + 4) + Offsets(v)[i]]
  OBVIOUS
<1>9. q \in Nat
  BY <1>3, Zenon DEF Holds
<1>10. f[0] = At(pos[0], <<>>)
  <2>1. pos[0] = q + 4
    BY <1>1, <1>2, <1>8, <1>9, OffsetsSum
  <2> QED
    BY <1>7, <2>1, Zenon
<1>11. ASSUME NEW i \in 1 .. n, f[i - 1] = At(pos[i - 1], SubSeq(v, 1, i - 1))
       PROVE  f[i] = Appended(f[i - 1], At(pos[i], v[i]))
  <2>1. i \in 1 .. Len(v) /\ i - 1 \in 0 .. n /\ i \in 0 .. n
    BY <1>1
  <2>2. Holds((q + 4) + Offsets(v)[i - 1], v[i])
    BY <1>2, <1>3, <2>1, HoldsPieces, Zenon
  <2>3. pos[i - 1] = (q + 4) + Offsets(v)[i - 1]
    BY <1>8, <2>1, Zenon
  <2>4. pos[i] = pos[i - 1] + w
    <3>1. Offsets(v)[i] = Offsets(v)[i - 1] + w /\ Offsets(v)[i - 1] \in Nat
      BY <1>1, <1>2, <2>1, OffsetsSum
    <3>2. pos[i] = (q + 4) + Offsets(v)[i]
      BY <1>8, <2>1, Zenon
    <3> QED
      BY <1>9, <2>3, <3>1, <3>2
  <2>5. v[i] \in Seq(Byte) /\ Len(v[i]) = w
    BY <1>2, <2>1
  <2>6. ReadVal(pos[i - 1], w) = At(pos[i], v[i])
    BY <2>2, <2>3, <2>4, <2>5, ValRead
  <2>7. f[i - 1].p = pos[i - 1]
    BY <1>11 DEF At
  <2> QED
    BY <1>7, <2>6, <2>7, Zenon
<1>12. f[Len(v)] = At(pos[Len(v)], v)
  <2>1. \A i \in 1 .. Len(v) : f[i - 1] = At(pos[i - 1], SubSeq(v, 1, i - 1)) =>
                                f[i] = Appended(f[i - 1], At(pos[i], v[i]))
    BY <1>1, <1>11, Zenon
  <2> QED
    BY <1>2, <1>10, <2>1, ListRead, Zenon
<1>13. pos[n] = q + (4 + Offsets(v)[n])
  <2>1. Offsets(v)[n] \in Nat /\ n \in 0 .. n
    <3>1. Offsets(v) \in [0 .. n -> Nat]
      BY <1>1, <1>2, OffsetsSum, Zenon
    <3>2. n \in 0 .. n
      OBVIOUS
    <3> QED
      BY <3>1, <3>2
  <2>2. pos[n] = (q + 4) + Offsets(v)[n]
    BY <1>8, <2>1, Zenon
  <2> QED
    BY <1>9, <2>1, <2>2
<1>14. Len(WriteArray(v, max)) = 4 + Offsets(v)[n]
  BY <1>1, ArrayWritten, Zenon
<1> QED
  BY <1>1, <1>5, <1>6, <1>12, <1>13, <1>14, Zenon

----------------------------------------------------------------------------
(* Members of a group. *)

\* The widths of the scalars.
LEMMA Widths ==
  /\ Width.u8 = 1 /\ Width.u32 = 4 /\ Width.u64 = 8
  /\ Width.spellId = 4 /\ Width.event = 56
BY DEF Width

\* The bound of a list of auras is one a count can have.
LEMMA MaxAuras ==
  /\ kMaxAuras \in Nat /\ kMaxAuras <= MaxLength
  /\ kMaxCombatLogEvents \in Nat /\ kMaxCombatLogEvents <= MaxLength
BY CodecAssumption, Zenon

\* The fields of a member.
LEMMA MemberFields ==
  ASSUME NEW m \in GroupMember
  PROVE  /\ m.guid \in Seq(Byte) /\ Len(m.guid) = 8
         /\ m.name \in Most(Byte, MaxLength)
         /\ m.health \in Seq(Byte) /\ Len(m.health) = 4
         /\ m.maxHealth \in Seq(Byte) /\ Len(m.maxHealth) = 4
         /\ m.auras \in Most(Bytes(4), kMaxAuras)
         /\ m = [guid |-> m.guid, name |-> m.name, health |-> m.health,
                 maxHealth |-> m.maxHealth, auras |-> m.auras]
<1>1. /\ m.guid \in Bytes(8) /\ m.name \in Most(Byte, MaxLength) /\ m.health \in Bytes(4)
      /\ m.maxHealth \in Bytes(4) /\ m.auras \in Most(Bytes(4), kMaxAuras)
      /\ m = [guid |-> m.guid, name |-> m.name, health |-> m.health,
              maxHealth |-> m.maxHealth, auras |-> m.auras]
  BY Widths DEF GroupMember
<1> QED
  BY <1>1, BytesAre

\* The bytes of a member: its fields one after the other.
LEMMA MemberWritten ==
  ASSUME NEW m \in GroupMember
  PROVE  /\ WriteString(m.name) \in Seq(Byte) /\ WriteArray(m.auras, kMaxAuras) \in Seq(Byte)
         /\ m.guid \o WriteString(m.name) \in Seq(Byte)
         /\ m.guid \o WriteString(m.name) \o m.health \in Seq(Byte)
         /\ m.guid \o WriteString(m.name) \o m.health \o m.maxHealth \in Seq(Byte)
         /\ WriteGroupMember(m) \in Seq(Byte)
<1>1. WriteString(m.name) \in Seq(Byte)
  BY MemberFields, StringWritten, Zenon
<1>2. WriteArray(m.auras, kMaxAuras) \in Seq(Byte)
  BY MemberFields, MaxAuras, ArrayWritten
<1>3. m.guid \o WriteString(m.name) \in Seq(Byte)
  BY <1>1, MemberFields, Joining, Zenon
<1>4. m.guid \o WriteString(m.name) \o m.health \in Seq(Byte)
  BY <1>3, MemberFields, Joining, Zenon
<1>5. m.guid \o WriteString(m.name) \o m.health \o m.maxHealth \in Seq(Byte)
  BY <1>4, MemberFields, Joining, Zenon
<1>6. WriteGroupMember(m) \in Seq(Byte)
  BY <1>2, <1>5, Joining, Zenon DEF WriteGroupMember
<1> QED
  BY <1>1, <1>2, <1>3, <1>4, <1>5, <1>6

\* A member held is read, and accepted.
LEMMA MemberRead ==
  ASSUME buf \in Seq(Byte), NEW m \in GroupMember, NEW q, Holds(q, WriteGroupMember(m))
  PROVE  ReadGroupMember(q) = At(q + Len(WriteGroupMember(m)), m)
<1>0. PICK g, h, j : /\ g = m.guid /\ h = m.health /\ j = m.maxHealth
                     /\ g \in Seq(Byte) /\ h \in Seq(Byte) /\ j \in Seq(Byte)
                     /\ Len(g) = 8 /\ Len(h) = 4 /\ Len(j) = 4
  BY MemberFields
<1>1. PICK s : s = WriteString(m.name) /\ s \in Seq(Byte)
  BY MemberWritten
<1>2. PICK a : a = WriteArray(m.auras, kMaxAuras) /\ a \in Seq(Byte)
  BY MemberWritten
<1>3. PICK x : x = g \o s /\ x \in Seq(Byte)
  BY <1>0, <1>1, MemberWritten
<1>4. PICK y : y = x \o h /\ y \in Seq(Byte)
  BY <1>0, <1>1, <1>3, MemberWritten
<1>5. PICK z : z = y \o j /\ z \in Seq(Byte)
  BY <1>0, <1>1, <1>3, <1>4, MemberWritten
<1>6. PICK c : c = WriteGroupMember(m)
  OBVIOUS
<1>e. c = z \o a
  BY <1>0, <1>1, <1>2, <1>3, <1>4, <1>5, <1>6, Zenon DEF WriteGroupMember
<1>l. /\ g \in Seq(Byte) /\ h \in Seq(Byte) /\ j \in Seq(Byte) /\ s \in Seq(Byte)
      /\ a \in Seq(Byte) /\ x \in Seq(Byte) /\ y \in Seq(Byte) /\ z \in Seq(Byte)
  BY <1>0, <1>1, <1>2, <1>3, <1>4, <1>5
<1>7. Holds(q, z) /\ Holds(q + Len(z), a) /\ Len(c) = Len(z) + Len(a)
  <2>1. Holds(q, z \o a)
    BY <1>2, <1>5, <1>6, <1>e, Zenon
  <2>2. Holds(q, z) /\ Holds(q + Len(z), a) /\ Len(z \o a) = Len(z) + Len(a)
    BY <1>l, <2>1, HoldsParts, SMT
  <2>3. Len(c) = Len(z \o a)
    BY <1>e, Zenon
  <2> QED
    BY <1>2, <2>2, <2>3, Zenon
<1>8. Holds(q, y) /\ Holds(q + Len(y), j) /\ Len(z) = Len(y) + 4
  <2>1. Holds(q, y \o j)
    BY <1>0, <1>4, <1>5, <1>7, Zenon
  <2>2. Holds(q, y) /\ Holds(q + Len(y), j) /\ Len(y \o j) = Len(y) + Len(j)
    BY <1>l, <2>1, HoldsParts, SMT
  <2>3. Len(z) = Len(y \o j)
    BY <1>5, Zenon
  <2> QED
    BY <1>0, <2>2, <2>3, Zenon
<1>9. Holds(q, x) /\ Holds(q + Len(x), h) /\ Len(y) = Len(x) + 4
  <2>1. Holds(q, x \o h)
    BY <1>0, <1>3, <1>4, <1>8, Zenon
  <2>2. Holds(q, x) /\ Holds(q + Len(x), h) /\ Len(x \o h) = Len(x) + Len(h)
    BY <1>l, <2>1, HoldsParts, SMT
  <2>3. Len(y) = Len(x \o h)
    BY <1>4, Zenon
  <2> QED
    BY <1>0, <2>2, <2>3, Zenon
<1>10. Holds(q, g) /\ Holds(q + 8, s) /\ Len(x) = 8 + Len(s)
  <2>1. Holds(q, g \o s)
    BY <1>0, <1>1, <1>3, <1>9, Zenon
  <2>2. Holds(q, g) /\ Holds(q + Len(g), s) /\ Len(g \o s) = Len(g) + Len(s)
    BY <1>l, <2>1, HoldsParts, SMT
  <2>3. Len(x) = Len(g \o s)
    BY <1>3, Zenon
  <2> QED
    BY <1>0, <2>2, <2>3, Zenon
<1>11. /\ q \in Nat /\ Len(s) \in Nat /\ Len(a) \in Nat
       /\ (q + 8) + Len(s) = q + Len(x) /\ (q + Len(x)) + 4 = q + Len(y)
       /\ (q + Len(y)) + 4 = q + Len(z) /\ (q + Len(z)) + Len(a) = q + Len(c)
  <2>1. q \in Nat
    BY <1>7, Zenon DEF Holds
  <2>2. Len(s) \in Nat /\ Len(a) \in Nat
    BY <1>l
  <2> QED
    BY <1>7, <1>8, <1>9, <1>10, <2>1, <2>2
<1>12. ReadVal(q, 8) = At(q + 8, g)
  BY <1>0, <1>10, ValRead, Zenon
<1>13. ReadString(q + 8) = At(q + Len(x), m.name)
  BY <1>1, <1>10, <1>11, MemberFields, StringRead, Zenon
<1>14. ReadVal(q + Len(x), 4) = At(q + Len(y), h)
  BY <1>0, <1>9, <1>11, ValRead, Zenon
<1>15. ReadVal(q + Len(y), 4) = At(q + Len(z), j)
  BY <1>0, <1>8, <1>11, ValRead, Zenon
<1>16. ReadArray(q + Len(z), 4, kMaxAuras) = At(q + Len(c), m.auras)
  <2>1. m.auras \in Most(Bytes(4), kMaxAuras) /\ 4 \in Nat
    BY MemberFields
  <2>2. Holds(q + Len(z), WriteArray(m.auras, kMaxAuras))
    BY <1>2, <1>7, Zenon
  <2>3. ReadArray(q + Len(z), 4, kMaxAuras)
          = At((q + Len(z)) + Len(WriteArray(m.auras, kMaxAuras)), m.auras)
    BY <2>1, <2>2, MaxAuras, ArrayRead, Zenon
  <2> QED
    BY <1>2, <1>11, <2>3, Zenon
<1>17. \A b, v : At(b, v).p = b /\ At(b, v).val = v /\ At(b, v).ok = TRUE
  BY DEF At
<1>18. q + Len(c) <= Len(buf)
  BY <1>6, Zenon DEF Holds
<1>19. ReadGroupMember(q) =
         [p |-> q + Len(c),
          val |-> [guid |-> g, name |-> m.name, health |-> h, maxHealth |-> j, auras |-> m.auras],
          ok |-> TRUE /\ q + Len(c) <= Len(buf)]
  <2>1. /\ ReadVal(q, Width.u64).p = q + 8 /\ ReadVal(q, Width.u64).val = g
        /\ ReadString(q + 8).p = q + Len(x) /\ ReadString(q + 8).val = m.name
        /\ ReadVal(q + Len(x), Width.u32).p = q + Len(y)
        /\ ReadVal(q + Len(x), Width.u32).val = h
        /\ ReadVal(q + Len(y), Width.u32).p = q + Len(z)
        /\ ReadVal(q + Len(y), Width.u32).val = j
        /\ ReadArray(q + Len(z), Width.spellId, kMaxAuras).p = q + Len(c)
        /\ ReadArray(q + Len(z), Width.spellId, kMaxAuras).val = m.auras
        /\ ReadArray(q + Len(z), Width.spellId, kMaxAuras).ok = TRUE
    BY <1>12, <1>13, <1>14, <1>15, <1>16, <1>17, Widths
  <2> QED
    BY <2>1 DEF ReadGroupMember
<1>20. m = [guid |-> g, name |-> m.name, health |-> h, maxHealth |-> j, auras |-> m.auras]
  BY <1>0, MemberFields, Zenon
<1> QED
  BY <1>6, <1>18, <1>19, <1>20, Zenon DEF At

\* Members is the function its recursion defines.
LEMMA MembersAre ==
  ASSUME NEW q, NEW n \in Nat
  PROVE  /\ Members(q, n)[0] = At(q, <<>>)
         /\ \A i \in 1 .. n :
              Members(q, n)[i] =
                IF Members(q, n)[i - 1].ok
                THEN Appended(Members(q, n)[i - 1], ReadGroupMember(Members(q, n)[i - 1].p))
                ELSE Members(q, n)[i - 1]
<1> DEFINE Step(r) == IF r.ok THEN Appended(r, ReadGroupMember(r.p)) ELSE r
           Def(g, m) == g = [i \in 0 .. m |-> IF i = 0 THEN At(q, <<>>) ELSE Step(g[i - 1])]
           S == {m \in Nat : \E g : Def(g, m)}
<1> HIDE DEF Step
<1>1. 0 \in S
  <2>1. Def([i \in 0 .. 0 |-> At(q, <<>>)], 0)
    OBVIOUS
  <2> QED
    BY <2>1
<1>2. ASSUME NEW m \in Nat, m \in S PROVE m + 1 \in S
  <2>1. PICK g : Def(g, m)
    BY <1>2
  <2> DEFINE h == [i \in 0 .. m + 1 |-> IF i = m + 1 THEN Step(g[m]) ELSE g[i]]
  <2>2. Def(h, m + 1)
    BY <2>1
  <2> HIDE DEF h, Def
  <2>3. \E f : Def(f, m + 1)
    BY <2>2, Zenon
  <2> QED
    BY <2>3
<1>3. n \in S
  <2> HIDE DEF S
  <2> QED
    BY <1>1, <1>2, Induction
<1>4. PICK f : f = Members(q, n)
  OBVIOUS
<1>5. Def(f, n)
  <2>1. \E g : Def(g, n)
    BY <1>3
  <2> QED
    BY <1>4, <2>1, Zenon DEF Members, Step
<1>6. f[0] = At(q, <<>>) /\ \A i \in 1 .. n : f[i] = Step(f[i - 1])
  BY <1>5
<1> QED
  BY <1>4, <1>6, Zenon DEF Step

\* What is written of a list of members.
Pieces(v) == [i \in 1 .. Len(v) |-> WriteGroupMember(v[i])]

\* The bytes of a list of members: its count, and its members.
LEMMA MembersWritten ==
  ASSUME NEW v \in Most(GroupMember, MaxLength)
  PROVE  /\ v \in Seq(GroupMember) /\ Len(v) \in Nat /\ Len(v) <= MaxLength
         /\ Pieces(v) \in Seq(Seq(Byte)) /\ Len(Pieces(v)) = Len(v)
         /\ U32(Len(v)) \in Seq(Byte) /\ Len(U32(Len(v))) = 4
         /\ FlattenSeq(Pieces(v)) \in Seq(Byte)
         /\ U32(Len(v)) \o FlattenSeq(Pieces(v)) \in Seq(Byte)
         /\ Len(U32(Len(v)) \o FlattenSeq(Pieces(v))) = 4 + Offsets(Pieces(v))[Len(v)]
<1>1. v \in Seq(GroupMember) /\ Len(v) \in Nat /\ Len(v) <= MaxLength
  BY DEF Most
<1>2. \A i \in 1 .. Len(v) : WriteGroupMember(v[i]) \in Seq(Byte)
  <2>1. \A i \in 1 .. Len(v) : v[i] \in GroupMember
    BY <1>1
  <2> QED
    BY <2>1, MemberWritten, Zenon
<1>3. Pieces(v) \in Seq(Seq(Byte)) /\ Len(Pieces(v)) = Len(v)
  BY <1>1, <1>2 DEF Pieces
<1>4. U32(Len(v)) \in Seq(Byte) /\ Len(U32(Len(v))) = 4
  BY <1>1, NumberIs, BytesAre
<1>5. /\ FlattenSeq(Pieces(v)) \in Seq(Byte)
      /\ Len(FlattenSeq(Pieces(v))) = Offsets(Pieces(v))[Len(v)]
  BY <1>3, FlattenKeeps, Zenon
<1>6. /\ U32(Len(v)) \o FlattenSeq(Pieces(v)) \in Seq(Byte)
      /\ Len(U32(Len(v)) \o FlattenSeq(Pieces(v))) = Len(U32(Len(v))) + Len(FlattenSeq(Pieces(v)))
  BY <1>4, <1>5, Joining, Zenon
<1> QED
  BY <1>1, <1>3, <1>4, <1>5, <1>6, Zenon

\* A list of members held is read, and accepted.
LEMMA MembersRead ==
  ASSUME buf \in Seq(Byte), NEW v \in Most(GroupMember, MaxLength),
         NEW q, NEW w, w = U32(Len(v)) \o FlattenSeq(Pieces(v)), Holds(q, w)
  PROVE  ReadMembers(q) = At(q + Len(w), v)
<1>1. PICK n \in Nat : n = Len(v) /\ n <= MaxLength
  BY MembersWritten
<1>2. PICK ps \in Seq(Seq(Byte)) : ps = Pieces(v) /\ Len(ps) = n
  BY <1>1, MembersWritten
<1>3. Holds(q, U32(n)) /\ Holds(q + 4, FlattenSeq(ps))
  <2>1. /\ U32(n) \in Seq(Byte) /\ Len(U32(n)) = 4 /\ FlattenSeq(ps) \in Seq(Byte)
        /\ Holds(q, U32(n) \o FlattenSeq(ps))
    BY <1>1, <1>2, MembersWritten, Zenon
  <2>2. Holds(q, U32(n)) /\ Holds(q + Len(U32(n)), FlattenSeq(ps))
    BY <2>1, HoldsParts
  <2> QED
    BY <2>1, <2>2, Zenon
<1>4. ReadVal(q, 4) = At(q + 4, U32(n)) /\ Number(U32(n)) = n
  BY <1>1, <1>3, NumberRead
<1>5. ReadMembers(q) = Members(q + 4, n)[n]
  <2>1. At(q + 4, U32(n)).p = q + 4 /\ At(q + 4, U32(n)).val = U32(n)
    BY DEF At
  <2> QED
    BY <1>4, <2>1, Zenon DEF ReadMembers
<1>6. PICK f : f = Members(q + 4, n)
  OBVIOUS
<1>7. /\ f[0] = At(q + 4, <<>>)
      /\ \A i \in 1 .. n :
           f[i] = IF f[i - 1].ok THEN Appended(f[i - 1], ReadGroupMember(f[i - 1].p)) ELSE f[i - 1]
  <2>1. PICK r : r = q + 4
    OBVIOUS
  <2>2. f = Members(r, n)
    BY <1>6, <2>1, Zenon
  <2>3. /\ f[0] = At(r, <<>>)
        /\ \A i \in 1 .. n :
             f[i] = IF f[i - 1].ok THEN Appended(f[i - 1], ReadGroupMember(f[i - 1].p)) ELSE f[i - 1]
    BY <2>2, MembersAre
  <2> QED
    BY <2>1, <2>3, Zenon
<1>8. PICK pos : pos = [i \in 0 .. n |-> (q + 4) + Offsets(ps)[i]]
  OBVIOUS
<1>9. q \in Nat
  BY <1>3, Zenon DEF Holds
<1>10. f[0] = At(pos[0], <<>>)
  <2>1. Offsets(ps)[0] = 0
    BY <1>2, OffsetsSum
  <2>2. pos[0] = (q + 4) + Offsets(ps)[0]
    BY <1>1, <1>8
  <2>3. pos[0] = q + 4
    BY <1>9, <2>1, <2>2
  <2> QED
    BY <1>7, <2>3, Zenon
<1>11. ASSUME NEW i \in 1 .. n, f[i - 1] = At(pos[i - 1], SubSeq(v, 1, i - 1))
       PROVE  f[i] = Appended(f[i - 1], At(pos[i], v[i]))
  <2>1. i \in 1 .. Len(ps) /\ i - 1 \in 0 .. n /\ i \in 0 .. n
    BY <1>1, <1>2
  <2>2. Holds((q + 4) + Offsets(ps)[i - 1], ps[i])
    BY <1>2, <1>3, <2>1, HoldsPieces, Zenon
  <2>3. v[i] \in GroupMember /\ ps[i] = WriteGroupMember(v[i]) /\ ps[i] \in Seq(Byte)
    <3>1. v[i] \in GroupMember
      BY <1>1, MembersWritten
    <3>2. ps[i] = WriteGroupMember(v[i])
      BY <1>1, <1>2 DEF Pieces
    <3> QED
      BY <3>1, <3>2, MemberWritten
  <2>4. pos[i - 1] = (q + 4) + Offsets(ps)[i - 1]
    BY <1>8, <2>1, Zenon
  <2>5. pos[i] = pos[i - 1] + Len(ps[i])
    <3>1. Offsets(ps)[i] = Offsets(ps)[i - 1] + Len(ps[i]) /\ Offsets(ps)[i - 1] \in Nat
      BY <1>2, <2>1, OffsetsSum
    <3>2. pos[i] = (q + 4) + Offsets(ps)[i]
      BY <1>8, <2>1, Zenon
    <3>3. Len(ps[i]) \in Nat
      BY <2>3
    <3> QED
      BY <1>9, <2>4, <3>1, <3>2, <3>3
  <2>6. ReadGroupMember(pos[i - 1]) = At(pos[i], v[i])
    <3>1. Holds(pos[i - 1], WriteGroupMember(v[i]))
      BY <2>2, <2>3, <2>4, Zenon
    <3>2. ReadGroupMember(pos[i - 1]) = At(pos[i - 1] + Len(WriteGroupMember(v[i])), v[i])
      BY <2>3, <3>1, MemberRead
    <3> QED
      BY <2>3, <2>5, <3>2, Zenon
  <2>7. f[i - 1].p = pos[i - 1] /\ f[i - 1].ok = TRUE
    BY <1>11 DEF At
  <2>8. f[i] = Appended(f[i - 1], ReadGroupMember(f[i - 1].p))
    BY <1>7, <2>7
  <2> QED
    BY <2>6, <2>7, <2>8, Zenon
<1>12. f[Len(v)] = At(pos[Len(v)], v)
  <2>1. \A i \in 1 .. Len(v) : f[i - 1] = At(pos[i - 1], SubSeq(v, 1, i - 1)) =>
                                f[i] = Appended(f[i - 1], At(pos[i], v[i]))
    BY <1>1, <1>11, Zenon
  <2>2. v \in Seq(GroupMember)
    BY MembersWritten
  <2> QED
    BY <1>10, <2>1, <2>2, ListRead
<1>13. pos[n] = q + (4 + Offsets(ps)[n])
  <2>1. Offsets(ps) \in [0 .. n -> Nat] /\ n \in 0 .. n
    <3>1. Offsets(ps) \in [0 .. n -> Nat]
      BY <1>2, OffsetsSum, Zenon
    <3>2. n \in 0 .. n
      OBVIOUS
    <3> QED
      BY <3>1, <3>2
  <2>2. pos[n] = (q + 4) + Offsets(ps)[n]
    BY <1>8, <2>1, Zenon
  <2>3. Offsets(ps)[n] \in Nat
    BY <2>1, Zenon
  <2>4. \A a, b \in Nat : (a + 4) + b = a + (4 + b)
    OBVIOUS
  <2> QED
    BY <1>9, <2>2, <2>3, <2>4, Zenon
<1>14. Len(w) = 4 + Offsets(ps)[n]
  <2>1. Len(U32(Len(v)) \o FlattenSeq(Pieces(v))) = 4 + Offsets(Pieces(v))[Len(v)]
    BY MembersWritten, Zenon
  <2>2. w = U32(Len(v)) \o FlattenSeq(Pieces(v))
    OBVIOUS
  <2>3. Len(w) = 4 + Offsets(Pieces(v))[Len(v)]
    BY <2>1, <2>2, Zenon
  <2> QED
    BY <1>1, <1>2, <2>3, Zenon
<1> QED
  BY <1>1, <1>5, <1>6, <1>12, <1>13, <1>14, Zenon

----------------------------------------------------------------------------
(* Fields of each type. *)

Kinds == {"string", "auras", "events", "members", "u8", "u32", "u64"}

\* How the fields of each type are written and read.
LEMMA OfKind ==
  /\ \A v : WriteField("string", v) = WriteString(v)
  /\ \A v : WriteField("auras", v) = WriteArray(v, kMaxAuras)
  /\ \A v : WriteField("events", v) = WriteArray(v, kMaxCombatLogEvents)
  /\ \A v : WriteField("members", v) = U32(Len(v)) \o FlattenSeq(Pieces(v))
  /\ \A v : WriteField("u8", v) = v /\ WriteField("u32", v) = v /\ WriteField("u64", v) = v
  /\ Values("string") = Most(Byte, MaxLength)
  /\ Values("auras") = Most(Bytes(4), kMaxAuras)
  /\ Values("events") = Most(Bytes(56), kMaxCombatLogEvents)
  /\ Values("members") = Most(GroupMember, MaxLength)
  /\ Values("u8") = Bytes(1) /\ Values("u32") = Bytes(4) /\ Values("u64") = Bytes(8)
  /\ \A q : ReadKind("string", q) = ReadString(q)
  /\ \A q : ReadKind("auras", q) = ReadArray(q, 4, kMaxAuras)
  /\ \A q : ReadKind("events", q) = ReadArray(q, 56, kMaxCombatLogEvents)
  /\ \A q : ReadKind("members", q) = ReadMembers(q)
  /\ \A q : /\ ReadKind("u8", q) = ReadVal(q, 1) /\ ReadKind("u32", q) = ReadVal(q, 4)
            /\ ReadKind("u64", q) = ReadVal(q, 8)
<1>1. /\ \A v : WriteField("string", v) = WriteString(v)
      /\ \A v : WriteField("auras", v) = WriteArray(v, kMaxAuras)
      /\ \A v : WriteField("events", v) = WriteArray(v, kMaxCombatLogEvents)
      /\ \A v : WriteField("u8", v) = v /\ WriteField("u32", v) = v /\ WriteField("u64", v) = v
  BY DEF WriteField
<1>2. \A v : WriteField("members", v) = U32(Len(v)) \o FlattenSeq(Pieces(v))
  BY DEF WriteField, Pieces
<1>3. /\ Values("string") = Most(Byte, MaxLength)
      /\ Values("auras") = Most(Bytes(4), kMaxAuras)
      /\ Values("events") = Most(Bytes(56), kMaxCombatLogEvents)
      /\ Values("members") = Most(GroupMember, MaxLength)
      /\ Values("u8") = Bytes(1) /\ Values("u32") = Bytes(4) /\ Values("u64") = Bytes(8)
  BY Widths DEF Values
<1>4. /\ \A q : ReadKind("string", q) = ReadString(q)
      /\ \A q : ReadKind("auras", q) = ReadArray(q, 4, kMaxAuras)
      /\ \A q : ReadKind("events", q) = ReadArray(q, 56, kMaxCombatLogEvents)
      /\ \A q : ReadKind("members", q) = ReadMembers(q)
      /\ \A q : /\ ReadKind("u8", q) = ReadVal(q, 1) /\ ReadKind("u32", q) = ReadVal(q, 4)
                /\ ReadKind("u64", q) = ReadVal(q, 8)
  BY Widths DEF ReadKind
<1> QED
  BY <1>1, <1>2, <1>3, <1>4, Zenon

\* Every field is written as at least one byte.
LEMMA FieldWritten ==
  ASSUME NEW kind \in Kinds, NEW v \in Values(kind)
  PROVE  WriteField(kind, v) \in Seq(Byte) /\ Len(WriteField(kind, v)) \in Nat \ {0}
<1> DEFINE Good(c) == c \in Seq(Byte) /\ Len(c) \in Nat \ {0}
<1>1. \A n \in Nat : 4 + n \in Nat \ {0}
  OBVIOUS
<1>2. CASE kind = "string"
  <2>1. v \in Most(Byte, MaxLength)
    BY <1>2, OfKind, Zenon
  <2>2. Good(WriteString(v))
    BY <1>1, <2>1, StringWritten
  <2> QED
    BY <1>2, <2>2, OfKind, Zenon
<1>3. CASE kind = "auras"
  <2>1. v \in Most(Bytes(4), kMaxAuras)
    BY <1>3, OfKind, Zenon
  <2>2. /\ v \in Seq(Seq(Byte)) /\ Len(v) \in Nat /\ WriteArray(v, kMaxAuras) \in Seq(Byte)
        /\ Len(WriteArray(v, kMaxAuras)) = 4 + Offsets(v)[Len(v)]
    BY <2>1, MaxAuras, ArrayWritten
  <2>3. Offsets(v)[Len(v)] \in Nat
    BY <2>2, OffsetsSum
  <2>4. Good(WriteArray(v, kMaxAuras))
    BY <1>1, <2>2, <2>3, Zenon
  <2> QED
    BY <1>3, <2>4, OfKind, Zenon
<1>4. CASE kind = "events"
  <2>1. v \in Most(Bytes(56), kMaxCombatLogEvents)
    BY <1>4, OfKind, Zenon
  <2>2. /\ v \in Seq(Seq(Byte)) /\ Len(v) \in Nat /\ WriteArray(v, kMaxCombatLogEvents) \in Seq(Byte)
        /\ Len(WriteArray(v, kMaxCombatLogEvents)) = 4 + Offsets(v)[Len(v)]
    BY <2>1, MaxAuras, ArrayWritten
  <2>3. Offsets(v)[Len(v)] \in Nat
    BY <2>2, OffsetsSum
  <2>4. Good(WriteArray(v, kMaxCombatLogEvents))
    BY <1>1, <2>2, <2>3, Zenon
  <2> QED
    BY <1>4, <2>4, OfKind, Zenon
<1>5. CASE kind = "members"
  <2>1. v \in Most(GroupMember, MaxLength)
    BY <1>5, OfKind, Zenon
  <2>2. PICK c : c = U32(Len(v)) \o FlattenSeq(Pieces(v))
    OBVIOUS
  <2>3. PICK n \in Nat : n = Len(v)
    BY <2>1, MembersWritten
  <2>4. c \in Seq(Byte) /\ Len(c) = 4 + Offsets(Pieces(v))[n]
    BY <2>1, <2>2, <2>3, MembersWritten, Zenon
  <2>5. Offsets(Pieces(v))[n] \in Nat
    <3>1. Pieces(v) \in Seq(Seq(Byte)) /\ Len(Pieces(v)) = n
      BY <2>1, <2>3, MembersWritten
    <3> QED
      BY <3>1, OffsetsSum
  <2>6. Good(c)
    BY <1>1, <2>4, <2>5, Zenon
  <2> QED
    BY <1>5, <2>2, <2>6, OfKind, Zenon
<1>6. CASE kind \in {"u8", "u32", "u64"}
  <2>1. v \in Bytes(1) \/ v \in Bytes(4) \/ v \in Bytes(8)
    BY <1>6, OfKind, Zenon
  <2>2. Good(v)
    BY <2>1, BytesAre
  <2>3. WriteField(kind, v) = v
    BY <1>6, OfKind, Zenon
  <2> QED
    BY <2>2, <2>3, Zenon
<1> QED
  BY <1>2, <1>3, <1>4, <1>5, <1>6 DEF Kinds

\* A field held is read, and accepted.
LEMMA FieldRead ==
  ASSUME buf \in Seq(Byte), NEW kind \in Kinds, NEW v \in Values(kind),
         NEW q, Holds(q, WriteField(kind, v))
  PROVE  ReadKind(kind, q) = At(q + Len(WriteField(kind, v)), v)
<1>1. CASE kind = "string"
  <2>1. v \in Most(Byte, MaxLength)
    BY <1>1, OfKind, Zenon
  <2>2. WriteField(kind, v) = WriteString(v) /\ ReadKind(kind, q) = ReadString(q)
    BY <1>1, OfKind, Zenon
  <2> QED
    BY <2>1, <2>2, StringRead
<1>2. CASE kind = "auras"
  <2>1. v \in Most(Bytes(4), kMaxAuras) /\ 4 \in Nat
    BY <1>2, OfKind
  <2>2. WriteField(kind, v) = WriteArray(v, kMaxAuras) /\ ReadKind(kind, q) = ReadArray(q, 4, kMaxAuras)
    BY <1>2, OfKind, Zenon
  <2> QED
    BY <2>1, <2>2, MaxAuras, ArrayRead
<1>3. CASE kind = "events"
  <2>1. v \in Most(Bytes(56), kMaxCombatLogEvents) /\ 56 \in Nat
    BY <1>3, OfKind
  <2>2. /\ WriteField(kind, v) = WriteArray(v, kMaxCombatLogEvents)
        /\ ReadKind(kind, q) = ReadArray(q, 56, kMaxCombatLogEvents)
    BY <1>3, OfKind, Zenon
  <2> QED
    BY <2>1, <2>2, MaxAuras, ArrayRead
<1>4. CASE kind = "members"
  <2>1. v \in Most(GroupMember, MaxLength)
    BY <1>4, OfKind, Zenon
  <2>2. PICK c : c = WriteField(kind, v)
    OBVIOUS
  <2>3. c = U32(Len(v)) \o FlattenSeq(Pieces(v)) /\ ReadKind(kind, q) = ReadMembers(q)
    BY <1>4, <2>2, OfKind, Zenon
  <2>4. Holds(q, c)
    BY <2>2, Zenon
  <2>5. ReadMembers(q) = At(q + Len(c), v)
    BY <2>1, <2>3, <2>4, MembersRead
  <2> QED
    BY <2>2, <2>3, <2>5, Zenon
<1>5. CASE kind \in {"u8", "u32", "u64"}
  <2>1. \/ v \in Bytes(1) /\ ReadKind(kind, q) = ReadVal(q, 1)
        \/ v \in Bytes(4) /\ ReadKind(kind, q) = ReadVal(q, 4)
        \/ v \in Bytes(8) /\ ReadKind(kind, q) = ReadVal(q, 8)
    BY <1>5, OfKind, Zenon
  <2>2. v \in Seq(Byte) /\ ReadKind(kind, q) = ReadVal(q, Len(v))
    BY <2>1, BytesAre
  <2>3. WriteField(kind, v) = v
    BY <1>5, OfKind, Zenon
  <2>4. Holds(q, v)
    BY <2>3, Zenon
  <2> QED
    BY <2>2, <2>3, <2>4, ValRead
<1> QED
  BY <1>1, <1>2, <1>3, <1>4, <1>5 DEF Kinds

----------------------------------------------------------------------------
(* Whatever the buffer holds. *)

InBuffer(q, r) == r.p \in q .. Len(buf) /\ r.ok \in BOOLEAN

\* The read of a scalar does not leave the buffer.
LEMMA ValBounds ==
  ASSUME buf \in Seq(Byte), NEW q \in 0 .. Len(buf), NEW w \in Nat
  PROVE  InBuffer(q, ReadVal(q, w)) /\ ReadVal(q, w).ok = TRUE /\ ReadVal(q, w).val \in Bytes(w)
<1>0. Len(buf) \in Nat
  OBVIOUS
<1>1. CASE q + w > Len(buf)
  <2>1. ReadVal(q, w) = At(q, Zeros(w))
    BY <1>1, Zenon DEF ReadVal
  <2>2. Zeros(w) \in Bytes(w)
    BY DEF Zeros, Bytes, Byte
  <2> QED
    BY <1>0, <2>1, <2>2 DEF At, InBuffer
<1>2. CASE ~ (q + w > Len(buf))
  <2>1. ReadVal(q, w) = At(q + w, SubSeq(buf, q + 1, q + w))
    BY <1>2, Zenon DEF ReadVal
  <2>2. SubSeq(buf, q + 1, q + w) \in Bytes(w)
    <3>1. \A i \in 1 .. w : q + i \in 1 .. Len(buf) /\ buf[q + i] \in Byte
      BY <1>0, <1>2
    <3>2. SubSeq(buf, q + 1, q + w) = [i \in 1 .. w |-> buf[q + i]]
      BY <1>0, <1>2
    <3> QED
      BY <3>1, <3>2 DEF Bytes
  <2> QED
    BY <1>0, <1>2, <2>1, <2>2 DEF At, InBuffer
<1> QED
  BY <1>1, <1>2

\* Four bytes are a number.
LEMMA NumberNat ==
  ASSUME NEW b \in Bytes(4)
  PROVE  Number(b) \in Nat
<1>1. b[1] \in Nat /\ b[2] \in Nat /\ b[3] \in Nat /\ b[4] \in Nat
  BY DEF Bytes, Byte
<1>2. PICK x \in Nat, y \in Nat, z \in Nat, t \in Nat : x = b[1] /\ y = b[2] /\ z = b[3] /\ t = b[4]
  BY <1>1
<1>3. x + 256 * y + 65536 * z + 16777216 * t \in Nat
  BY SMT
<1> QED
  BY <1>2, <1>3, SMT DEF Number

\* The read of a length or count does not leave the buffer.
LEMMA CountBounds ==
  ASSUME buf \in Seq(Byte), NEW q \in 0 .. Len(buf)
  PROVE  /\ ReadVal(q, 4).p \in q .. Len(buf) /\ ReadVal(q, 4).p \in 0 .. Len(buf)
         /\ Number(ReadVal(q, 4).val) \in Nat
<1>1. ReadVal(q, 4).p \in q .. Len(buf) /\ ReadVal(q, 4).val \in Bytes(4)
  BY ValBounds DEF InBuffer
<1>2. ReadVal(q, 4).p \in 0 .. Len(buf)
  BY <1>1
<1> QED
  BY <1>1, <1>2, NumberNat

\* A read that stays in the buffer does not go back.
LEMMA Place ==
  ASSUME buf \in Seq(Byte), NEW q \in 0 .. Len(buf), NEW r, InBuffer(q, r)
  PROVE  r.p \in q .. Len(buf) /\ r.p \in 0 .. Len(buf) /\ r.ok \in BOOLEAN
<1>1. Len(buf) \in Nat /\ r.p \in q .. Len(buf) /\ r.ok \in BOOLEAN
  BY DEF InBuffer
<1> QED
  BY <1>1

\* The read of a text does not leave the buffer.
LEMMA StringBounds ==
  ASSUME buf \in Seq(Byte), NEW q \in 0 .. Len(buf)
  PROVE  InBuffer(q, ReadString(q))
<1>0. Len(buf) \in Nat
  OBVIOUS
<1>1. PICK a, n : /\ a = ReadVal(q, 4).p /\ n = Number(ReadVal(q, 4).val)
                  /\ a \in q .. Len(buf) /\ n \in Nat
  BY CountBounds
<1>2. CASE a = q \/ a + n > Len(buf)
  <2>1. ReadString(q) = At(a, <<>>)
    BY <1>1, <1>2, Zenon DEF ReadString
  <2> QED
    BY <1>1, <2>1 DEF At, InBuffer
<1>3. CASE ~ (a = q \/ a + n > Len(buf))
  <2>1. ReadString(q) = At(a + n, SubSeq(buf, a + 1, a + n))
    BY <1>1, <1>3, Zenon DEF ReadString
  <2>2. a + n \in q .. Len(buf)
    BY <1>0, <1>1, <1>3
  <2> QED
    BY <2>1, <2>2 DEF At, InBuffer
<1> QED
  BY <1>2, <1>3

\* The read of the entries of a list does not leave the buffer.
LEMMA EntriesBounds ==
  ASSUME buf \in Seq(Byte), NEW q \in 0 .. Len(buf), NEW w \in Nat, NEW n \in Nat
  PROVE  /\ InBuffer(q, Entries(q, w, n)[n])
         /\ Len(Entries(q, w, n)[n].val) = n
<1>1. PICK f : f = Entries(q, w, n)
  OBVIOUS
<1>2. /\ f[0] = At(q, <<>>)
      /\ \A i \in 1 .. n : f[i] = Appended(f[i - 1], ReadVal(f[i - 1].p, w))
  BY <1>1, EntriesAre
<1>3. Len(buf) \in Nat
  OBVIOUS
<1> DEFINE Good(m) == /\ f[m].p \in q .. Len(buf) /\ f[m].ok = TRUE
                      /\ f[m].val \in Seq(Bytes(w)) /\ Len(f[m].val) = m
           T == {m \in Nat : m <= n => Good(m)}
<1>4. 0 \in T
  <2>1. Good(0)
    BY <1>2, <1>3 DEF At
  <2> QED
    BY <2>1
<1>5. ASSUME NEW m \in Nat, m \in T PROVE m + 1 \in T
  <2> SUFFICES ASSUME m + 1 <= n PROVE Good(m + 1)
    <3> HIDE DEF Good
    <3> QED
      OBVIOUS
  <2>1. PICK a, s : /\ a = f[m].p /\ s = f[m].val /\ a \in q .. Len(buf)
                    /\ s \in Seq(Bytes(w)) /\ Len(s) = m
    BY <1>5
  <2>2. PICK b, v : /\ b = ReadVal(a, w).p /\ v = ReadVal(a, w).val
                    /\ b \in a .. Len(buf) /\ v \in Bytes(w) /\ ReadVal(a, w).ok = TRUE
    <3>1. a \in 0 .. Len(buf)
      BY <1>3, <2>1
    <3> QED
      BY <3>1, ValBounds DEF InBuffer
  <2>3. f[m + 1] = Appended(f[m], ReadVal(a, w))
    <3>1. m + 1 \in 1 .. n /\ (m + 1) - 1 = m
      OBVIOUS
    <3> QED
      BY <1>2, <2>1, <3>1
  <2>4. f[m + 1] = [p |-> b, val |-> Append(s, v), ok |-> TRUE]
    BY <2>1, <2>2, <2>3, Zenon DEF Appended
  <2>5. Append(s, v) \in Seq(Bytes(w)) /\ Len(Append(s, v)) = m + 1
    BY <2>1, <2>2
  <2>6. b \in q .. Len(buf)
    BY <1>3, <2>1, <2>2
  <2> QED
    BY <2>4, <2>5, <2>6
<1>6. n \in T
  <2> HIDE DEF T
  <2> QED
    BY <1>4, <1>5, Induction
<1>7. Good(n)
  BY <1>6
<1> QED
  BY <1>1, <1>7 DEF InBuffer

\* The read of a list does not leave the buffer, and stores no more than its array takes.
LEMMA ArrayBounds ==
  ASSUME buf \in Seq(Byte), NEW q \in 0 .. Len(buf), NEW w \in Nat, NEW max \in Nat
  PROVE  InBuffer(q, ReadArray(q, w, max)) /\ Len(ReadArray(q, w, max).val) <= max
<1>0. Len(buf) \in Nat
  OBVIOUS
<1>1. PICK a, n : /\ a = ReadVal(q, 4).p /\ n = Number(ReadVal(q, 4).val)
                  /\ a \in q .. Len(buf) /\ a \in 0 .. Len(buf) /\ n \in Nat
  BY CountBounds
<1>2. CASE n > max
  <2>1. ReadArray(q, w, max) = [p |-> a, val |-> <<>>, ok |-> FALSE]
    BY <1>1, <1>2, Zenon DEF ReadArray
  <2>2. Len(<<>>) = 0
    OBVIOUS
  <2> QED
    BY <1>1, <2>1, <2>2 DEF InBuffer
<1>3. CASE ~ (n > max)
  <2>1. ReadArray(q, w, max) = Entries(a, w, n)[n]
    BY <1>1, <1>3, Zenon DEF ReadArray
  <2>2. InBuffer(a, Entries(a, w, n)[n]) /\ Len(Entries(a, w, n)[n].val) = n
    BY <1>1, EntriesBounds
  <2>3. InBuffer(q, Entries(a, w, n)[n])
    BY <1>0, <1>1, <2>2 DEF InBuffer
  <2>4. n <= max
    BY <1>1, <1>3
  <2> QED
    BY <2>1, <2>2, <2>3, <2>4, Zenon
<1> QED
  BY <1>2, <1>3

\* The read of a member does not leave the buffer.
LEMMA MemberBounds ==
  ASSUME buf \in Seq(Byte), NEW q \in 0 .. Len(buf)
  PROVE  InBuffer(q, ReadGroupMember(q))
<1>0. Len(buf) \in Nat
  OBVIOUS
<1>1. PICK a : a = ReadVal(q, Width.u64).p /\ a \in q .. Len(buf) /\ a \in 0 .. Len(buf)
  <2>1. Width.u64 \in Nat /\ q \in 0 .. Len(buf)
    BY Widths
  <2>2. InBuffer(q, ReadVal(q, Width.u64))
    BY <2>1, ValBounds, Zenon
  <2> QED
    BY <2>2, Place, Zenon
<1>2. PICK b : b = ReadString(a).p /\ b \in a .. Len(buf) /\ b \in 0 .. Len(buf)
  BY <1>1, StringBounds, Place
<1>3. PICK c : c = ReadVal(b, Width.u32).p /\ c \in b .. Len(buf) /\ c \in 0 .. Len(buf)
  <2>1. Width.u32 \in Nat
    BY Widths
  <2>2. InBuffer(b, ReadVal(b, Width.u32))
    BY <1>2, <2>1, ValBounds, Zenon
  <2> QED
    BY <1>2, <2>2, Place, Zenon
<1>4. PICK d : d = ReadVal(c, Width.u32).p /\ d \in c .. Len(buf) /\ d \in 0 .. Len(buf)
  <2>1. Width.u32 \in Nat
    BY Widths
  <2>2. InBuffer(c, ReadVal(c, Width.u32))
    BY <1>3, <2>1, ValBounds, Zenon
  <2> QED
    BY <1>3, <2>2, Place, Zenon
<1>5. PICK r : r = ReadArray(d, Width.spellId, kMaxAuras) /\ r.p \in d .. Len(buf) /\ r.ok \in BOOLEAN
  BY <1>4, ArrayBounds, MaxAuras, Place, Widths
<1>6. ReadGroupMember(q) =
        [p |-> r.p,
         val |-> [guid |-> ReadVal(q, Width.u64).val, name |-> ReadString(a).val,
                  health |-> ReadVal(b, Width.u32).val, maxHealth |-> ReadVal(c, Width.u32).val,
                  auras |-> r.val],
         ok |-> r.ok /\ r.p <= Len(buf)]
  BY <1>1, <1>2, <1>3, <1>4, <1>5, Zenon DEF ReadGroupMember
<1>7. r.p \in q .. Len(buf)
  <2>1. \A x, y \in 0 .. Len(buf) : y \in x .. Len(buf) =>
          \A z \in y .. Len(buf) : z \in x .. Len(buf)
    BY <1>0
  <2>4. b \in q .. Len(buf)
    BY <1>1, <1>2, <2>1, Zenon
  <2>2. c \in q .. Len(buf)
    BY <1>2, <1>3, <2>1, <2>4, Zenon
  <2>3. d \in q .. Len(buf)
    BY <1>3, <1>4, <2>1, <2>2, Zenon
  <2> QED
    BY <1>4, <1>5, <2>1, <2>3, Zenon
<1>8. (r.ok /\ r.p <= Len(buf)) \in BOOLEAN
  <2>1. r.p <= Len(buf)
    BY <1>0, <1>7
  <2>2. (r.ok /\ r.p <= Len(buf)) = r.ok
    BY <1>5, <2>1, Zenon
  <2> QED
    BY <1>5, <2>2, Zenon
<1>9. PICK v, t : ReadGroupMember(q) = [p |-> r.p, val |-> v, ok |-> t] /\ t \in BOOLEAN
  BY <1>6, <1>8, Zenon
<1>10. ReadGroupMember(q).p = r.p /\ ReadGroupMember(q).ok = t
  BY <1>9
<1> QED
  BY <1>7, <1>9, <1>10, Zenon DEF InBuffer

\* The read of the members does not leave the buffer.
LEMMA MembersBounds ==
  ASSUME buf \in Seq(Byte), NEW q \in 0 .. Len(buf), NEW n \in Nat
  PROVE  InBuffer(q, Members(q, n)[n])
<1>1. PICK f : f = Members(q, n)
  OBVIOUS
<1>2. /\ f[0] = At(q, <<>>)
      /\ \A i \in 1 .. n :
           f[i] = IF f[i - 1].ok THEN Appended(f[i - 1], ReadGroupMember(f[i - 1].p)) ELSE f[i - 1]
  BY <1>1, MembersAre
<1>3. Len(buf) \in Nat
  OBVIOUS
<1> DEFINE T == {m \in Nat : m <= n => InBuffer(q, f[m])}
<1>4. 0 \in T
  <2>1. InBuffer(q, f[0])
    BY <1>2, <1>3 DEF At, InBuffer
  <2> QED
    BY <2>1
<1>5. ASSUME NEW m \in Nat, m \in T PROVE m + 1 \in T
  <2> SUFFICES ASSUME m + 1 <= n PROVE InBuffer(q, f[m + 1])
    OBVIOUS
  <2>1. InBuffer(q, f[m])
    BY <1>5
  <2>2. f[m + 1] = IF f[m].ok THEN Appended(f[m], ReadGroupMember(f[m].p)) ELSE f[m]
    <3>1. m + 1 \in 1 .. n /\ (m + 1) - 1 = m
      OBVIOUS
    <3> QED
      BY <1>2, <3>1
  <2>3. CASE f[m].ok
    <3>1. f[m].p \in q .. Len(buf) /\ f[m].p \in 0 .. Len(buf)
      BY <2>1, Place
    <3>2. /\ ReadGroupMember(f[m].p).p \in f[m].p .. Len(buf)
          /\ ReadGroupMember(f[m].p).ok \in BOOLEAN
      BY <3>1, MemberBounds, Place
    <3>3. ReadGroupMember(f[m].p).p \in q .. Len(buf)
      BY <1>3, <3>1, <3>2
    <3>4. f[m + 1] = Appended(f[m], ReadGroupMember(f[m].p))
      BY <2>2, <2>3, Zenon
    <3> QED
      BY <3>2, <3>3, <3>4 DEF Appended, InBuffer
  <2>4. CASE ~ f[m].ok
    BY <2>1, <2>2, <2>4, Zenon
  <2> QED
    BY <2>3, <2>4
<1>6. n \in T
  <2> HIDE DEF T
  <2> QED
    BY <1>4, <1>5, Induction
<1> QED
  BY <1>1, <1>6

\* The read of a field, of whatever there is, does not leave the buffer.
LEMMA KindBounds ==
  ASSUME buf \in Seq(Byte), NEW kind \in Kinds, NEW q \in 0 .. Len(buf)
  PROVE  /\ InBuffer(q, ReadKind(kind, q))
         /\ kind = "auras" => Len(ReadKind(kind, q).val) <= kMaxAuras
         /\ kind = "events" => Len(ReadKind(kind, q).val) <= kMaxCombatLogEvents
<1>1. CASE kind = "string"
  <2>1. ReadKind(kind, q) = ReadString(q)
    BY <1>1, OfKind, Zenon
  <2> QED
    BY <1>1, <2>1, StringBounds
<1>2. CASE kind = "auras"
  <2>1. ReadKind(kind, q) = ReadArray(q, 4, kMaxAuras)
    BY <1>2, OfKind, Zenon
  <2> QED
    BY <1>2, <2>1, ArrayBounds, MaxAuras
<1>3. CASE kind = "events"
  <2>1. ReadKind(kind, q) = ReadArray(q, 56, kMaxCombatLogEvents)
    BY <1>3, OfKind, Zenon
  <2> QED
    BY <1>3, <2>1, ArrayBounds, MaxAuras
<1>4. CASE kind = "members"
  <2>1. ReadKind(kind, q) = ReadMembers(q)
    BY <1>4, OfKind, Zenon
  <2>2. PICK a, n : /\ a = ReadVal(q, 4).p /\ n = Number(ReadVal(q, 4).val)
                    /\ a \in q .. Len(buf) /\ a \in 0 .. Len(buf) /\ n \in Nat
    BY CountBounds
  <2>3. ReadMembers(q) = Members(a, n)[n]
    BY <2>2, Zenon DEF ReadMembers
  <2>4. InBuffer(a, Members(a, n)[n])
    BY <2>2, MembersBounds
  <2>5. InBuffer(q, Members(a, n)[n])
    <3>1. Len(buf) \in Nat
      OBVIOUS
    <3> QED
      BY <2>2, <2>4, <3>1 DEF InBuffer
  <2> QED
    BY <1>4, <2>1, <2>3, <2>5
<1>5. CASE kind \in {"u8", "u32", "u64"}
  <2>1. \/ ReadKind(kind, q) = ReadVal(q, 1) \/ ReadKind(kind, q) = ReadVal(q, 4)
        \/ ReadKind(kind, q) = ReadVal(q, 8)
    BY <1>5, OfKind, Zenon
  <2> QED
    BY <1>5, <2>1, ValBounds
<1> QED
  BY <1>1, <1>2, <1>3, <1>4, <1>5 DEF Kinds

----------------------------------------------------------------------------
(* The list of the fields. *)

\* There are 52 fields, written and read.
LEMMA WrittenLength ==
  Len(Written) = 52 /\ Len(ReadOrder) = 52
BY DEF Written, ReadOrder, Named

\* They are read in the order they are written.
LEMMA ReadAsWritten ==
  ReadOrder = Written
BY DEF ReadOrder, Written

\* No field is written twice.
LEMMA NamesDiffer ==
  \A i, j \in 1 .. 52 : Written[i][1] = Written[j][1] => i = j
BY SMTT(60) DEF Written, Named

\* The fields that are bounded lists.
LEMMA ListFields ==
  Written[41] = <<"auras", "auras">> /\ Written[42] = <<"targetAuras", "auras">>
  /\ Written[43] = <<"combatLogEvents", "events">>
BY DEF Written, Named

\* The fields that are bounded lists have the type of their array.
LEMMA ListKinds ==
  ASSUME NEW i \in 1 .. 52
  PROVE  /\ Written[i][1] \in {"auras", "targetAuras"} => Written[i][2] = "auras"
         /\ Written[i][1] = "combatLogEvents" => Written[i][2] = "events"
<1>1. CASE Written[i][1] = "auras"
  <2>1. Written[41] = <<"auras", "auras">> /\ 41 \in 1 .. 52
    BY ListFields
  <2>2. Written[i][1] = Written[41][1]
    BY <1>1, <2>1
  <2>3. i = 41
    BY <2>1, <2>2, NamesDiffer, Zenon
  <2> QED
    BY <1>1, <2>1, <2>3
<1>2. CASE Written[i][1] = "targetAuras"
  <2>1. Written[42] = <<"targetAuras", "auras">> /\ 42 \in 1 .. 52
    BY ListFields
  <2>2. Written[i][1] = Written[42][1]
    BY <1>2, <2>1
  <2>3. i = 42
    BY <2>1, <2>2, NamesDiffer, Zenon
  <2> QED
    BY <1>2, <2>1, <2>3
<1>3. CASE Written[i][1] = "combatLogEvents"
  <2>1. Written[43] = <<"combatLogEvents", "events">> /\ 43 \in 1 .. 52
    BY ListFields
  <2>2. Written[i][1] = Written[43][1]
    BY <1>3, <2>1
  <2>3. i = 43
    BY <2>1, <2>2, NamesDiffer, Zenon
  <2> QED
    BY <1>3, <2>1, <2>3
<1> QED
  BY <1>1, <1>2, <1>3

\* Every field is of one of the types.
LEMMA WrittenKinds ==
  \A i \in 1 .. 52 : Written[i][2] \in Kinds
<1>1. \A i \in 1 .. 13 : Written[i][2] \in Kinds
  BY SMTT(30) DEF Written, Named, Kinds
<1>2. \A i \in 14 .. 26 : Written[i][2] \in Kinds
  BY SMTT(30) DEF Written, Named, Kinds
<1>3. \A i \in 27 .. 39 : Written[i][2] \in Kinds
  BY SMTT(30) DEF Written, Named, Kinds
<1>4. \A i \in 40 .. 52 : Written[i][2] \in Kinds
  BY SMTT(30) DEF Written, Named, Kinds
<1> QED
  BY <1>1, <1>2, <1>3, <1>4

----------------------------------------------------------------------------
(* The whole buffer. *)

\* What is written of each field of a snapshot.
LEMMA ChunksAre ==
  ASSUME NEW data, IsGameData(data)
  PROVE  /\ Chunks(data) \in Seq(Seq(Byte)) /\ Len(Chunks(data)) = 52
         /\ \A i \in 1 .. 52 :
              /\ data[Written[i][1]] \in Values(Written[i][2])
              /\ Chunks(data)[i] = WriteField(Written[i][2], data[Written[i][1]])
              /\ Chunks(data)[i] \in Seq(Byte) /\ Len(Chunks(data)[i]) \in Nat \ {0}
<1>1. \A i \in 1 .. 52 : data[Written[i][1]] \in Values(Written[i][2])
  BY WrittenLength, Zenon DEF IsGameData
<1>2. Chunks(data) = [i \in 1 .. 52 |-> WriteField(Written[i][2], data[Written[i][1]])]
  BY WrittenLength, Zenon DEF Chunks
<1>3. \A i \in 1 .. 52 : Chunks(data)[i] = WriteField(Written[i][2], data[Written[i][1]])
  BY <1>2, Zenon
<1>4. \A i \in 1 .. 52 : Chunks(data)[i] \in Seq(Byte) /\ Len(Chunks(data)[i]) \in Nat \ {0}
  <2> SUFFICES ASSUME NEW i \in 1 .. 52
               PROVE  Chunks(data)[i] \in Seq(Byte) /\ Len(Chunks(data)[i]) \in Nat \ {0}
    OBVIOUS
  <2>1. Written[i][2] \in Kinds /\ data[Written[i][1]] \in Values(Written[i][2])
    BY <1>1, WrittenKinds, Zenon
  <2>2. /\ WriteField(Written[i][2], data[Written[i][1]]) \in Seq(Byte)
        /\ Len(WriteField(Written[i][2], data[Written[i][1]])) \in Nat \ {0}
    BY <2>1, FieldWritten, Zenon
  <2> QED
    BY <1>3, <2>2, Zenon
<1>5. Chunks(data) \in Seq(Seq(Byte)) /\ Len(Chunks(data)) = 52
  <2>1. PICK c : c = Chunks(data)
    OBVIOUS
  <2>2. c = [i \in 1 .. 52 |-> c[i]] /\ \A i \in 1 .. 52 : c[i] \in Seq(Byte)
    BY <1>2, <1>4, <2>1, Zenon
  <2>3. c \in Seq(Seq(Byte)) /\ Len(c) = 52
    BY <2>2
  <2> QED
    BY <2>1, <2>3, Zenon
<1> QED
  BY <1>1, <1>3, <1>4, <1>5, Zenon

\* Where the pieces are when they are put one after the other.
LEMMA PlacesAre ==
  ASSUME NEW n \in Nat \ {0}, NEW c \in Seq(Seq(Byte)), Len(c) = n, Len(c[1]) \in Nat \ {0}
  PROVE  /\ Offsets(c)[0] = 0
         /\ FlattenSeq(c) \in Seq(Byte) /\ Len(FlattenSeq(c)) = Offsets(c)[n]
         /\ \A i \in 1 .. n :
              /\ Offsets(c)[i] \in Nat \ {0} /\ Offsets(c)[i - 1] \in Nat
              /\ Offsets(c)[i] = Offsets(c)[i - 1] + Len(c[i])
              /\ \A j \in 1 .. Len(c[i]) : FlattenSeq(c)[Offsets(c)[i - 1] + j] = c[i][j]
         /\ \A j \in 1 .. n : \A i \in 1 .. j : Offsets(c)[i] <= Offsets(c)[j]
<1>1. /\ Offsets(c) \in [0 .. Len(c) -> Nat] /\ Offsets(c)[0] = 0
      /\ \A i \in 1 .. Len(c) : Offsets(c)[i] = Offsets(c)[i - 1] + Len(c[i])
      /\ \A j \in 0 .. Len(c) : \A i \in 0 .. j : Offsets(c)[i] <= Offsets(c)[j]
  BY OffsetsSum, Zenon
<1>2. PICK off : off = Offsets(c)
  OBVIOUS
<1>3. /\ off \in [0 .. n -> Nat] /\ off[0] = 0
      /\ \A i \in 1 .. n : off[i] = off[i - 1] + Len(c[i])
      /\ \A j \in 0 .. n : \A i \in 0 .. j : off[i] <= off[j]
  BY <1>1, <1>2, Zenon
<1>4. off[1] \in Nat \ {0}
  <2>1. 1 \in 1 .. n /\ 1 - 1 = 0
    OBVIOUS
  <2>2. off[1] = 0 + Len(c[1])
    BY <1>3, <2>1
  <2> QED
    BY <2>2
<1>5. \A j \in 1 .. n : \A i \in 1 .. j : off[i] <= off[j]
  <2> SUFFICES ASSUME NEW j \in 1 .. n, NEW i \in 1 .. j PROVE off[i] <= off[j]
    OBVIOUS
  <2>1. j \in 0 .. n /\ i \in 0 .. j
    OBVIOUS
  <2> QED
    BY <1>3, <2>1, Zenon
<1>6. \A i \in 1 .. n : off[i] \in Nat \ {0} /\ off[i - 1] \in Nat
  <2> SUFFICES ASSUME NEW i \in 1 .. n PROVE off[i] \in Nat \ {0} /\ off[i - 1] \in Nat
    OBVIOUS
  <2>1. i \in 0 .. n /\ i - 1 \in 0 .. n /\ 1 \in 1 .. i
    OBVIOUS
  <2>2. off[i] \in Nat /\ off[i - 1] \in Nat
    BY <1>3, <2>1, Zenon
  <2>3. off[1] <= off[i]
    BY <1>5, <2>1, Zenon
  <2> QED
    BY <1>4, <2>2, <2>3
<1>7. /\ FlattenSeq(c) \in Seq(Byte) /\ Len(FlattenSeq(c)) = off[n]
      /\ \A i \in 1 .. n : \A j \in 1 .. Len(c[i]) : FlattenSeq(c)[off[i - 1] + j] = c[i][j]
  <2>1. /\ FlattenSeq(c) \in Seq(Byte)
        /\ Len(FlattenSeq(c)) = Offsets(c)[Len(c)]
        /\ \A i \in 1 .. Len(c) : \A j \in 1 .. Len(c[i]) :
             FlattenSeq(c)[Offsets(c)[i - 1] + j] = c[i][j]
    BY FlattenKeeps, Zenon
  <2> QED
    BY <1>2, <2>1, Zenon
<1> QED
  BY <1>2, <1>3, <1>5, <1>6, <1>7, Zenon

\* Where the fields of a snapshot end in the whole buffer.
LEMMA EndsAre ==
  ASSUME NEW data, IsGameData(data)
  PROVE  /\ SerializeGameData(data) \in Seq(Byte)
         /\ Len(SerializeGameData(data)) = Ends(data)[52]
         /\ \A i \in 1 .. 52 : Ends(data)[i] \in Nat \ {0}
         /\ \A i \in 1 .. 52 : Ends(data)[i] = Offsets(Chunks(data))[i]
         /\ \A j \in 1 .. 52 : \A i \in 1 .. j : Ends(data)[i] <= Ends(data)[j]
<1>1. PICK c \in Seq(Seq(Byte)) : c = Chunks(data) /\ Len(c) = 52 /\ Len(c[1]) \in Nat \ {0}
  BY ChunksAre
<1>2. PICK n \in Nat \ {0} : n = 52
  OBVIOUS
<1>3. /\ FlattenSeq(c) \in Seq(Byte) /\ Len(FlattenSeq(c)) = Offsets(c)[n]
      /\ \A i \in 1 .. n : Offsets(c)[i] \in Nat \ {0}
      /\ \A j \in 1 .. n : \A i \in 1 .. j : Offsets(c)[i] <= Offsets(c)[j]
  <2>1. Len(c) = n
    BY <1>1, <1>2, Zenon
  <2> QED
    BY <1>1, <2>1, PlacesAre, Zenon
<1>4. \A i \in 1 .. n : Ends(data)[i] = Offsets(c)[i]
  <2>1. Ends(data) = [i \in 1 .. n |-> Offsets(c)[i]]
    BY <1>1, <1>2, WrittenLength, Zenon DEF Ends
  <2> QED
    BY <2>1, Zenon
<1>5. SerializeGameData(data) = FlattenSeq(c)
  BY <1>1, Zenon DEF SerializeGameData
<1>6. n \in 1 .. n /\ \A j \in 1 .. n : \A i \in 1 .. j : i \in 1 .. n
  OBVIOUS
<1>7. /\ Len(SerializeGameData(data)) = Ends(data)[n]
      /\ \A i \in 1 .. n : Ends(data)[i] \in Nat \ {0}
      /\ \A j \in 1 .. n : \A i \in 1 .. j : Ends(data)[i] <= Ends(data)[j]
  BY <1>3, <1>4, <1>5, <1>6, Zenon
<1> QED
  BY <1>1, <1>2, <1>3, <1>4, <1>5, <1>7, Zenon

\* The buffer is what was written of the snapshot, or the beginning of it.
IsSent ==
  /\ sent \in Snapshots
  /\ ends = Ends(sent)
  /\ buf \in Seq(Byte)
  /\ Len(buf) <= ends[52]
  /\ \A i \in 1 .. Len(buf) : buf[i] = SerializeGameData(sent)[i]

\* What is within the part is within the whole.
LEMMA Within ==
  ASSUME NEW q \in Nat, NEW l \in Nat, NEW m \in Nat, q + l <= m, NEW j \in 1 .. l
  PROVE  q + j \in 1 .. m
OBVIOUS

\* A field all of whose bytes came is read as it was written.
LEMMA FieldFound ==
  ASSUME IsSent, NEW i \in 1 .. 52, ends[i] <= Len(buf),
         NEW q, q = IF i = 1 THEN 0 ELSE ends[i - 1]
  PROVE  ReadKind(Written[i][2], q) = At(ends[i], sent[Written[i][1]])
<1>1. IsGameData(sent) /\ buf \in Seq(Byte) /\ Len(buf) \in Nat
  BY SnapshotAssumption DEF IsSent
<1>2. PICK c \in Seq(Seq(Byte)) :
        /\ c = Chunks(sent) /\ Len(c) = 52
        /\ c[i] = WriteField(Written[i][2], sent[Written[i][1]])
        /\ c[i] \in Seq(Byte) /\ Len(c[i]) \in Nat
        /\ Written[i][2] \in Kinds /\ sent[Written[i][1]] \in Values(Written[i][2])
  BY <1>1, ChunksAre, WrittenKinds
<1>3. PICK n \in Nat \ {0} : n = 52
  OBVIOUS
<1>4. /\ Offsets(c)[0] = 0
      /\ \A h \in 1 .. n :
           /\ Offsets(c)[h] \in Nat \ {0} /\ Offsets(c)[h - 1] \in Nat
           /\ Offsets(c)[h] = Offsets(c)[h - 1] + Len(c[h])
           /\ \A j \in 1 .. Len(c[h]) : FlattenSeq(c)[Offsets(c)[h - 1] + j] = c[h][j]
  <2>1. Len(c) = n /\ Len(c[1]) \in Nat \ {0}
    <3>1. 1 \in 1 .. 52
      OBVIOUS
    <3>2. Len(Chunks(sent)[1]) \in Nat \ {0}
      BY <1>1, <3>1, ChunksAre, Zenon
    <3> QED
      BY <1>2, <1>3, <3>2, Zenon
  <2> QED
    BY <1>2, <1>3, <2>1, PlacesAre, ZenonT(40)
<1>5. i \in 1 .. n
  BY <1>3
<1>6. q = Offsets(c)[i - 1] /\ ends[i] = Offsets(c)[i]
  <2>1. \A j \in 1 .. 52 : ends[j] = Offsets(c)[j]
    <3>1. ends = Ends(sent)
      BY Zenon DEF IsSent
    <3>2. \A j \in 1 .. 52 : Ends(sent)[j] = Offsets(Chunks(sent))[j]
      BY <1>1, EndsAre, Zenon
    <3> QED
      BY <1>2, <3>1, <3>2, Zenon
  <2>2. CASE i = 1
    <3>1. Offsets(c)[0] = 0
      BY <1>4, Zenon
    <3>2. i - 1 = 0 /\ q = 0
      BY <2>2
    <3> QED
      BY <2>1, <3>1, <3>2, Zenon
  <2>3. CASE i # 1
    <3>1. i - 1 \in 1 .. 52
      BY <2>3
    <3> QED
      BY <2>1, <2>3, <3>1, Zenon
  <2> QED
    BY <2>2, <2>3
<1>7. /\ q \in Nat /\ ends[i] = q + Len(c[i])
      /\ \A j \in 1 .. Len(c[i]) : FlattenSeq(c)[q + j] = c[i][j]
  BY <1>6, <1>4, <1>5, Zenon
<1>8. ASSUME NEW j \in 1 .. Len(c[i]) PROVE buf[q + j] = c[i][j]
  <2>1. SerializeGameData(sent)[q + j] = c[i][j]
    BY <1>2, <1>7, Zenon DEF SerializeGameData
  <2>2. q + j \in 1 .. Len(buf)
    <3>1. PICK l \in Nat : l = Len(c[i])
      BY <1>2
    <3>2. q + l <= Len(buf)
      BY <1>7, <3>1, Zenon
    <3>3. q \in Nat /\ l \in Nat /\ Len(buf) \in Nat /\ j \in 1 .. l
      BY <1>1, <1>7, <3>1, Zenon
    <3> QED
      BY <3>2, <3>3, Within, Zenon
  <2> QED
    BY <2>1, <2>2, Zenon DEF IsSent
<1>9. Holds(q, c[i])
  BY <1>7, <1>8 DEF Holds
<1>10. ReadKind(Written[i][2], q) = At(q + Len(c[i]), sent[Written[i][1]])
  BY <1>1, <1>2, <1>9, FieldRead
<1> QED
  BY <1>7, <1>10, Zenon

----------------------------------------------------------------------------
(* The call. *)

\* As far as the fields came whole the cursor is where they end.
Cursor ==
  /\ k = 0 => p = 0
  /\ \A i \in 1 .. 52 : k = i /\ ends[i] <= Len(buf) => p = ends[i]

CodecInv ==
  /\ TypeOK /\ IsSent /\ Cursor
  /\ out = [f \in DOMAIN out |-> out[f]]
  /\ WholeFieldsSurvive
  /\ Len(buf) = Full => result # "false"
  /\ result = "true" => k = 52

\* The whole buffer ends where the last field does.
LEMMA FullIs == Full = ends[52] /\ Full' = ends'[52]
BY WrittenLength, Zenon DEF Full

\* Each field ends behind those before it.
LEMMA EndsKeep ==
  ASSUME IsSent
  PROVE  /\ \A i \in 1 .. 52 : ends[i] \in Nat \ {0}
         /\ \A j \in 1 .. 52 : \A i \in 1 .. j : ends[i] <= ends[j]
<1>1. ends = Ends(sent) /\ IsGameData(sent)
  BY SnapshotAssumption, Zenon DEF IsSent
<1> QED
  BY <1>1, EndsAre, Zenon

\* The invariant holds of a call that begins on what was written.
LEMMA CodecInit ==
  ASSUME Init
  PROVE  CodecInv
<1>1. IsGameData(sent) /\ ends = Ends(sent) /\ buf = SerializeGameData(sent)
  BY SnapshotAssumption, Zenon DEF Init
<1>2. buf \in Seq(Byte) /\ Len(buf) = ends[52]
  BY <1>1, EndsAre, Zenon
<1>3. Len(buf) \in Nat
  BY <1>2
<1>4. IsSent
  BY <1>1, <1>2, <1>3 DEF IsSent, Init
<1>5. p = 0 /\ k = 0 /\ out = <<>> /\ result = "reading" /\ DOMAIN out = {}
  BY DEF Init
<1>6. TypeOK
  BY <1>2, <1>3, <1>5, FullIs, WrittenLength DEF TypeOK
<1>7. Cursor
  BY <1>5 DEF Cursor
<1>8. out = [f \in DOMAIN out |-> out[f]]
  BY <1>5
<1>9. WholeFieldsSurvive
  BY <1>5, Zenon DEF WholeFieldsSurvive
<1> QED
  BY <1>4, <1>5, <1>6, <1>7, <1>8, <1>9 DEF CodecInv

\* Losing the end of the buffer keeps it.
LEMMA TruncateKeeps ==
  ASSUME CodecInv, Truncate
  PROVE  CodecInv'
<1>1. /\ buf \in Seq(Byte) /\ buf # <<>> /\ buf' = Front(buf) /\ k = 0 /\ p = 0 /\ result = "reading"
      /\ sent' = sent /\ ends' = ends /\ p' = p /\ k' = k /\ out' = out /\ result' = result
  BY DEF CodecInv, IsSent, Cursor, Truncate
<1>2. PICK n \in Nat : Len(buf) = n + 1 /\ Len(buf) \in Nat
  <2>1. Len(buf) \in Nat /\ Len(buf) # 0
    BY <1>1
  <2>2. Len(buf) - 1 \in Nat /\ Len(buf) = (Len(buf) - 1) + 1
    BY <2>1
  <2> QED
    BY <2>1, <2>2, Zenon
<1>3. buf' \in Seq(Byte) /\ Len(buf') = n /\ \A i \in 1 .. n : buf'[i] = buf[i]
  BY <1>1, <1>2 DEF Front
<1>4. IsSent'
  <2>1. Len(buf') <= ends'[52]
    <3>1. Len(buf) <= ends[52] /\ ends[52] \in Nat
      <4>1. 52 \in 1 .. 52
        OBVIOUS
      <4> QED
        BY <4>1, EndsKeep, Zenon DEF CodecInv, IsSent
    <3> QED
      BY <1>1, <1>2, <1>3, <3>1
  <2>2. \A i \in 1 .. Len(buf') : buf'[i] = SerializeGameData(sent')[i]
    <3> SUFFICES ASSUME NEW i \in 1 .. n PROVE buf'[i] = SerializeGameData(sent)[i]
      BY <1>1, <1>3, Zenon
    <3>1. i \in 1 .. Len(buf)
      BY <1>2
    <3> QED
      BY <1>3, <3>1, Zenon DEF CodecInv, IsSent
  <2> QED
    BY <1>1, <1>3, <2>1, <2>2, Zenon DEF CodecInv, IsSent
<1>5. k = 0 /\ DOMAIN out = {}
  <2>1. DOMAIN out = {ReadOrder[i][1] : i \in 1 .. k}
    BY Zenon DEF CodecInv, TypeOK
  <2>2. 1 .. 0 = {}
    OBVIOUS
  <2> QED
    BY <1>1, <2>1, <2>2
<1>6. TypeOK'
  <2>1. 0 \in 0 .. Len(buf')
    BY <1>3
  <2>2. Len(buf') <= Full'
    BY <1>4, FullIs, Zenon DEF IsSent
  <2> QED
    BY <1>1, <2>1, <2>2, Zenon DEF CodecInv, TypeOK
<1>7. Cursor'
  BY <1>1 DEF Cursor
<1>8. WholeFieldsSurvive'
  BY <1>1, <1>5 DEF WholeFieldsSurvive
<1> QED
  BY <1>1, <1>4, <1>6, <1>7, <1>8 DEF CodecInv

\* Setting the result alone keeps it.
LEMMA EndsUnchanged ==
  ASSUME CodecInv, UNCHANGED <<sent, ends, buf, p, k, out>>,
         result' \in {"reading", "true", "false"},
         Len(buf) = Full => result' # "false",
         result' = "true" => k = 52
  PROVE  CodecInv'
<1>1. /\ sent' = sent /\ ends' = ends /\ buf' = buf /\ p' = p /\ k' = k /\ out' = out
      /\ Full' = Full
  BY FullIs
<1>2. IsSent' /\ Cursor' /\ WholeFieldsSurvive'
  BY <1>1 DEF CodecInv, IsSent, Cursor, WholeFieldsSurvive
<1>3. TypeOK'
  BY <1>1, Zenon DEF CodecInv, TypeOK
<1> QED
  BY <1>1, <1>2, <1>3, Zenon DEF CodecInv

\* Refusing an empty buffer keeps it.
LEMMA RefuseEmptyKeeps ==
  ASSUME CodecInv, RefuseEmpty
  PROVE  CodecInv'
<1>1. /\ UNCHANGED <<sent, ends, buf, p, k, out>>
      /\ result' \in {"reading", "true", "false"} /\ result' # "true"
      /\ Len(buf) = 0
  BY DEF RefuseEmpty
<1>2. Len(buf) # Full
  <2>1. 52 \in 1 .. 52
    OBVIOUS
  <2>2. ends[52] \in Nat \ {0}
    BY <2>1, EndsKeep, Zenon DEF CodecInv
  <2> QED
    BY <1>1, <2>2, FullIs
<1> QED
  BY <1>1, <1>2, EndsUnchanged, Zenon

\* Returning keeps it.
LEMMA ReturnKeeps ==
  ASSUME CodecInv, Return
  PROVE  CodecInv'
<1>1. /\ UNCHANGED <<sent, ends, buf, p, k, out>>
      /\ k = 52 /\ result' = "true"
  <2>1. p <= Len(buf)
    <3>1. buf \in Seq(Byte) /\ p \in 0 .. Len(buf)
      BY Zenon DEF CodecInv, IsSent, TypeOK
    <3> QED
      BY <3>1
  <2> QED
    BY <2>1, WrittenLength, Zenon DEF Return
<1>2. result' \in {"reading", "true", "false"} /\ result' # "false"
  BY <1>1
<1> QED
  BY <1>1, <1>2, EndsUnchanged, Zenon

\* The step that reads field i, its read being r.
FieldStep(i, r) ==
  /\ i = k + 1 /\ r = ReadKind(Written[i][2], p)
  /\ p' = r.p /\ r.p \in 0 .. Len(buf)
  /\ k' = i
  /\ DOMAIN out' = DOMAIN out \cup {Written[i][1]}
  /\ out' = [f \in DOMAIN out' |-> out'[f]]
  /\ out'[Written[i][1]] = r.val
  /\ \A f \in DOMAIN out : f # Written[i][1] => out'[f] = out[f]
  /\ Written[i][2] = "auras" => Len(r.val) <= kMaxAuras
  /\ Written[i][2] = "events" => Len(r.val) <= kMaxCombatLogEvents
  /\ result = "reading" /\ result' = IF r.ok THEN result ELSE "false"
  /\ sent' = sent /\ ends' = ends /\ buf' = buf

\* Reading a field, of whatever there is, is such a step.
LEMMA FieldIsRead ==
  ASSUME CodecInv, ReadField
  PROVE  \E i \in 1 .. 52 : \E r : FieldStep(i, r)
<1>1. k + 1 \in 1 .. 52 /\ k \in Nat
  <2>1. k \in 0 .. 52 /\ k < 52
    BY WrittenLength, Zenon DEF CodecInv, TypeOK, ReadField
  <2> QED
    BY <2>1
<1>2. PICK i \in 1 .. 52 : i = k + 1
  BY <1>1
<1>3. PICK name, kind : name = Written[i][1] /\ kind = Written[i][2] /\ kind \in Kinds
  BY WrittenKinds, Zenon
<1>4. PICK r : r = ReadKind(kind, p)
  OBVIOUS
<1>5. buf \in Seq(Byte) /\ p \in 0 .. Len(buf)
  BY Zenon DEF CodecInv, TypeOK, IsSent
<1>6. /\ r.p \in 0 .. Len(buf)
      /\ kind = "auras" => Len(r.val) <= kMaxAuras
      /\ kind = "events" => Len(r.val) <= kMaxCombatLogEvents
  BY <1>3, <1>4, <1>5, KindBounds, Place, Zenon
<1>7. /\ p' = r.p /\ out' = [f \in DOMAIN out \cup {name} |-> IF f = name THEN r.val ELSE out[f]]
      /\ result = "reading" /\ result' = (IF r.ok THEN result ELSE "false")
      /\ k' = k + 1 /\ sent' = sent /\ ends' = ends /\ buf' = buf
  BY <1>2, <1>3, <1>4, ReadAsWritten, Zenon DEF ReadField
<1>8. /\ DOMAIN out' = DOMAIN out \cup {name}
      /\ out' = [f \in DOMAIN out' |-> out'[f]]
      /\ out'[name] = r.val
      /\ \A f \in DOMAIN out : f # name => out'[f] = out[f]
  BY <1>7
<1>9. FieldStep(i, r)
  BY <1>2, <1>3, <1>4, <1>6, <1>7, <1>8, Zenon DEF FieldStep
<1> QED
  BY <1>9, Zenon

\* A field that came whole is the one that was sent.
LEMMA WholeField ==
  ASSUME CodecInv, NEW i \in 1 .. 52, i = k + 1, ends[i] <= Len(buf)
  PROVE  ReadKind(Written[i][2], p) = At(ends[i], sent[Written[i][1]])
<1>1. p = IF i = 1 THEN 0 ELSE ends[i - 1]
  <2>1. CASE i = 1
    <3>1. k = 0
      <4>1. k \in 0 .. 52
        BY WrittenLength, Zenon DEF CodecInv, TypeOK
      <4> QED
        BY <2>1, <4>1
    <3> QED
      BY <2>1, <3>1, Zenon DEF CodecInv, Cursor
  <2>2. CASE i # 1
    <3>1. k \in 1 .. 52 /\ k = i - 1 /\ k \in 1 .. i
      <4>1. k \in 0 .. 52
        BY WrittenLength, Zenon DEF CodecInv, TypeOK
      <4> QED
        BY <2>2, <4>1
    <3>2. ends[k] <= Len(buf)
      <4>1. ends[k] <= ends[i] /\ ends[k] \in Nat /\ ends[i] \in Nat
        BY <3>1, EndsKeep, Zenon DEF CodecInv
      <4>2. buf \in Seq(Byte)
        BY Zenon DEF CodecInv, IsSent
      <4> QED
        BY <4>1, <4>2
    <3> QED
      BY <2>2, <3>1, <3>2, Zenon DEF CodecInv, Cursor
  <2> QED
    BY <2>1, <2>2
<1> QED
  BY <1>1, FieldFound, Zenon DEF CodecInv

\* Reading a field keeps it.
LEMMA ReadFieldKeeps ==
  ASSUME CodecInv, ReadField
  PROVE  CodecInv'
<1>1. PICK i \in 1 .. 52 : \E r : FieldStep(i, r)
  BY FieldIsRead, Zenon
<1>2. PICK r :
        /\ i = k + 1 /\ r = ReadKind(Written[i][2], p)
        /\ p' = r.p /\ r.p \in 0 .. Len(buf)
        /\ k' = i
        /\ DOMAIN out' = DOMAIN out \cup {Written[i][1]}
        /\ out' = [f \in DOMAIN out' |-> out'[f]]
        /\ out'[Written[i][1]] = r.val
        /\ \A f \in DOMAIN out : f # Written[i][1] => out'[f] = out[f]
        /\ Written[i][2] = "auras" => Len(r.val) <= kMaxAuras
        /\ Written[i][2] = "events" => Len(r.val) <= kMaxCombatLogEvents
        /\ result = "reading" /\ result' = IF r.ok THEN result ELSE "false"
        /\ sent' = sent /\ ends' = ends /\ buf' = buf
  BY <1>1, Zenon DEF FieldStep
<1>3. ends[i] <= Len(buf) => r.p = ends[i] /\ r.val = sent[Written[i][1]] /\ r.ok = TRUE
  <2> SUFFICES ASSUME ends[i] <= Len(buf)
               PROVE  r.p = ends[i] /\ r.val = sent[Written[i][1]] /\ r.ok = TRUE
    OBVIOUS
  <2>1. r = At(ends[i], sent[Written[i][1]])
    BY <1>2, WholeField, Zenon
  <2> QED
    BY <2>1 DEF At
<1>4. /\ k' = i /\ i = k + 1 /\ p' = r.p /\ r.p \in 0 .. Len(buf)
      /\ sent' = sent /\ ends' = ends /\ buf' = buf
  BY <1>2, Zenon
<1>5. IsSent'
  BY <1>4 DEF CodecInv, IsSent
<1>6. Cursor'
  <2>1. k' # 0
    <3>1. i # 0
      OBVIOUS
    <3> QED
      BY <1>4, <3>1, Zenon
  <2>2. ASSUME NEW j \in 1 .. 52, k' = j, ends'[j] <= Len(buf') PROVE p' = ends'[j]
    <3>1. ends[i] <= Len(buf) /\ ends'[j] = ends[i]
      BY <1>4, <2>2
    <3> QED
      BY <1>3, <1>4, <3>1, Zenon
  <2> QED
    BY <2>1, <2>2, Zenon DEF Cursor
<1>7. TypeOK'
  <2>1. /\ p \in 0 .. Len(buf) /\ Len(buf) <= Full
        /\ k \in 0 .. 52 /\ DOMAIN out = {Written[h][1] : h \in 1 .. k}
        /\ \A f \in {"auras", "targetAuras"} \cap DOMAIN out : Len(out[f]) <= kMaxAuras
        /\ "combatLogEvents" \in DOMAIN out => Len(out["combatLogEvents"]) <= kMaxCombatLogEvents
    <3>1. k \in 0 .. Len(ReadOrder) /\ DOMAIN out = {ReadOrder[h][1] : h \in 1 .. k}
      BY Zenon DEF CodecInv, TypeOK
    <3>2. k \in 0 .. 52 /\ DOMAIN out = {Written[h][1] : h \in 1 .. k}
      BY <3>1, WrittenLength, ReadAsWritten
    <3> QED
      BY <3>2, Zenon DEF CodecInv, TypeOK
  <2>2. p' \in 0 .. Len(buf') /\ Len(buf') <= Full'
    <3>1. Full' = Full
      BY <1>4, FullIs, Zenon
    <3> QED
      BY <1>4, <2>1, <3>1
  <2>3. k' \in 0 .. 52
    BY <1>2
  <2>4. DOMAIN out' = {Written[h][1] : h \in 1 .. k'}
    <3>1. 1 .. i = (1 .. k) \cup {i}
      BY <1>4, <2>1
    <3>2. {Written[h][1] : h \in 1 .. i} = {Written[h][1] : h \in 1 .. k} \cup {Written[i][1]}
      BY <3>1
    <3> QED
      BY <1>2, <2>1, <3>2, Zenon
  <2>5. ASSUME NEW f \in {"auras", "targetAuras"} \cap DOMAIN out' PROVE Len(out'[f]) <= kMaxAuras
    <3>1. CASE f = Written[i][1]
      BY <1>2, <3>1, ListKinds, Zenon
    <3>2. CASE f # Written[i][1]
      BY <1>2, <2>1, <3>2, Zenon
    <3> QED
      BY <3>1, <3>2
  <2>6. ASSUME "combatLogEvents" \in DOMAIN out'
        PROVE  Len(out'["combatLogEvents"]) <= kMaxCombatLogEvents
    <3>1. CASE Written[i][1] = "combatLogEvents"
      BY <1>2, <3>1, ListKinds, Zenon
    <3>2. CASE Written[i][1] # "combatLogEvents"
      BY <1>2, <2>1, <2>6, <3>2, Zenon
    <3> QED
      BY <3>1, <3>2
  <2>7. result' \in {"reading", "true", "false"}
    BY <1>2
  <2>8. k' \in 0 .. Len(ReadOrder) /\ DOMAIN out' = {ReadOrder[h][1] : h \in 1 .. k'}
    BY <2>3, <2>4, WrittenLength, ReadAsWritten
  <2> QED
    BY <2>2, <2>5, <2>6, <2>7, <2>8, Zenon DEF TypeOK
<1>8. WholeFieldsSurvive'
  <2> SUFFICES ASSUME NEW j \in 1 .. 52, Written[j][1] \in DOMAIN out', ends[j] <= Len(buf)
               PROVE  out'[Written[j][1]] = sent[Written[j][1]]
    BY <1>2, WrittenLength, Zenon DEF WholeFieldsSurvive
  <2>1. CASE Written[j][1] = Written[i][1]
    <3>1. j = i
      BY <2>1, NamesDiffer, Zenon
    <3> QED
      BY <1>2, <1>3, <3>1, Zenon
  <2>2. CASE Written[j][1] # Written[i][1]
    <3>1. Written[j][1] \in DOMAIN out /\ out'[Written[j][1]] = out[Written[j][1]]
      BY <1>2, <2>2, Zenon
    <3> QED
      BY <3>1, WrittenLength, Zenon DEF CodecInv, WholeFieldsSurvive
  <2> QED
    BY <2>1, <2>2
<1>9. Len(buf') = Full' => result' # "false"
  <2> SUFFICES ASSUME Len(buf) = ends[52] PROVE result' = "reading"
    BY <1>2, FullIs, Zenon
  <2>1. 52 \in 1 .. 52 /\ i \in 1 .. 52
    OBVIOUS
  <2>2. ends[i] <= ends[52]
    BY <2>1, EndsKeep, Zenon DEF CodecInv
  <2> QED
    BY <1>2, <1>3, <2>2
<1>10. result' # "true"
  BY <1>2
<1> QED
  BY <1>2, <1>5, <1>6, <1>7, <1>8, <1>9, <1>10, Zenon DEF CodecInv

\* Every step keeps it.
LEMMA CodecNext ==
  ASSUME CodecInv, [Next]_vars
  PROVE  CodecInv'
<1>1. CASE Next
  BY <1>1, TruncateKeeps, RefuseEmptyKeeps, ReadFieldKeeps, ReturnKeeps, Zenon DEF Next
<1>2. CASE UNCHANGED vars
  <2>1. UNCHANGED <<sent, ends, buf, p, k, out>> /\ result' = result
    BY <1>2 DEF vars
  <2>2. /\ result \in {"reading", "true", "false"}
        /\ Len(buf) = Full => result # "false"
        /\ result = "true" => k = 52
    BY Zenon DEF CodecInv, TypeOK
  <2> QED
    BY <2>1, <2>2, EndsUnchanged, Zenon
<1> QED
  BY <1>1, <1>2

\* It implies the three invariants.
LEMMA CodecGives ==
  ASSUME CodecInv
  PROVE  TypeOK /\ RoundTrip /\ WholeFieldsSurvive
<1>1. ASSUME Len(buf) = Full, result # "reading"
      PROVE  result = "true" /\ out = sent /\ p = Full
  <2>1. result = "true" /\ k = 52
    BY <1>1, Zenon DEF CodecInv, TypeOK
  <2>2. p = Full
    <3>1. \A i \in 1 .. 52 : k = i /\ ends[i] <= Len(buf) => p = ends[i]
      BY Zenon DEF CodecInv, Cursor
    <3>2. ends[52] <= Len(buf) /\ 52 \in 1 .. 52
      <4>1. buf \in Seq(Byte) /\ Len(buf) = ends[52]
        BY <1>1, FullIs, Zenon DEF CodecInv, IsSent
      <4> QED
        BY <4>1
    <3> QED
      BY <2>1, <3>1, <3>2, FullIs, Zenon
  <2>3. DOMAIN out = Fields
    <3>1. DOMAIN out = {ReadOrder[i][1] : i \in 1 .. k}
      BY Zenon DEF CodecInv, TypeOK
    <3>2. k = Len(Written)
      BY <2>1, WrittenLength, ZenonT(40)
    <3> QED
      BY <3>1, <3>2, ReadAsWritten, Zenon DEF Fields
  <2>4. \A f \in Fields : out[f] = sent[f]
    <3> SUFFICES ASSUME NEW i \in 1 .. 52 PROVE out[Written[i][1]] = sent[Written[i][1]]
      BY WrittenLength, Zenon DEF Fields
    <3>1. Written[i][1] \in DOMAIN out
      BY <2>3, WrittenLength, Zenon DEF Fields
    <3>2. ends[i] <= Len(buf)
      <4>1. i \in 1 .. 52 /\ 52 \in 1 .. 52
        OBVIOUS
      <4>2. ends[i] <= ends[52]
        BY <4>1, EndsKeep, Zenon DEF CodecInv
      <4> QED
        BY <1>1, <4>2, FullIs, Zenon
    <3> QED
      BY <3>1, <3>2, WrittenLength, Zenon DEF CodecInv, WholeFieldsSurvive
  <2>5. sent = [name \in Fields |-> sent[name]]
    BY SnapshotAssumption, Zenon DEF CodecInv, IsSent, IsGameData
  <2>6. out = [name \in Fields |-> out[name]]
    BY <2>3, Zenon DEF CodecInv
  <2>7. out = sent
    BY <2>4, <2>5, <2>6
  <2> QED
    BY <2>1, <2>2, <2>7, Zenon
<1> QED
  BY <1>1, Zenon DEF CodecInv, RoundTrip

(* DeserializeGameData, of any snapshot that was written and however much  *)
(* of its end is missing: the cursor stays in the buffer, every field is   *)
(* stored once and in turn, and no list is longer than its array.          *)
THEOREM CodecTypeOK == Spec => []TypeOK
<1>1. Init => CodecInv
  BY CodecInit, Zenon
<1>2. CodecInv /\ [Next]_vars => CodecInv'
  BY CodecNext, Zenon
<1>3. CodecInv => TypeOK
  BY CodecGives, Zenon
<1> QED
  BY <1>1, <1>2, <1>3, PTL DEF Spec

(* A whole buffer of any snapshot is accepted, consumed to its end and     *)
(* gives the snapshot: the two functions of wowmemory.cpp, which name the  *)
(* fields and widths separately, are inverse for texts, lists and members  *)
(* of every length.                                                        *)
THEOREM CodecRoundTrip == Spec => []RoundTrip
<1>1. Init => CodecInv
  BY CodecInit, Zenon
<1>2. CodecInv /\ [Next]_vars => CodecInv'
  BY CodecNext, Zenon
<1>3. CodecInv => RoundTrip
  BY CodecGives, Zenon
<1> QED
  BY <1>1, <1>2, <1>3, PTL DEF Spec

(* Each field all of whose bytes came is the one sent, whatever is missing *)
(* behind it.                                                              *)
THEOREM CodecWholeFieldsSurvive == Spec => []WholeFieldsSurvive
<1>1. Init => CodecInv
  BY CodecInit, Zenon
<1>2. CodecInv /\ [Next]_vars => CodecInv'
  BY CodecNext, Zenon
<1>3. CodecInv => WholeFieldsSurvive
  BY CodecGives, Zenon
<1> QED
  BY <1>1, <1>2, <1>3, PTL DEF Spec
=============================================================================

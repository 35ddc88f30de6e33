------------------------- MODULE GrpcFramingProofs -------------------------
(* Proofs of the safety properties of GrpcFraming, for every byte size, every *)
(* set of messages that fit into frames and every way to cut the stream.      *)
EXTENDS GrpcFraming, SequenceTheorems, WellFoundedInduction, TLAPS

-----------------------------------------------------------------------------
(* Induction over the natural numbers, by sets *)

\* A set of natural numbers that is not empty has a least member.
LEMMA LeastMember ==
  ASSUME NEW S \in SUBSET Nat, S # {}
  PROVE  \E n \in S : \A m \in S : n <= m
<1> DEFINE R == OpToRel(<, Nat)
<1>1. IsWellFoundedOn(R, Nat)
  BY NatLessThanWellFounded, Zenon
<1>2. \A x, y \in Nat : <<x, y>> \in R <=> x < y
  BY DEF OpToRel
<1> HIDE DEF R
<1>3. PICK n \in S : \A m \in S : ~ (<<m, n>> \in R)
  BY <1>1, WFMin, Zenon
<1>4. \A m \in S : ~ (m < n)
  BY <1>2, <1>3, Zenon
<1>5. \A m \in S : n <= m
  BY <1>4
<1> QED BY <1>5

\* A set that has 0, and with a number its successor, has all natural numbers.
LEMMA Induction ==
  ASSUME NEW S, 0 \in S, \A n \in Nat : n \in S => n + 1 \in S
  PROVE  \A n \in Nat : n \in S
<1> SUFFICES ASSUME Nat \ S # {} PROVE FALSE
  OBVIOUS
<1>1. PICK n \in Nat \ S : \A m \in Nat \ S : n <= m
  BY LeastMember, Zenon
<1>2. n # 0 /\ n - 1 \in Nat /\ n - 1 \notin Nat \ S
  BY <1>1
<1> QED BY <1>1, <1>2

\* A set that has a number whenever it has all smaller ones has all natural numbers.
LEMMA StrongInduction ==
  ASSUME NEW S, \A n \in Nat : (\A m \in 0..(n - 1) : m \in S) => n \in S
  PROVE  \A n \in Nat : n \in S
<1> SUFFICES ASSUME Nat \ S # {} PROVE FALSE
  OBVIOUS
<1>1. PICK n \in Nat \ S : \A m \in Nat \ S : n <= m
  BY LeastMember, Zenon
<1>2. \A m \in 0..(n - 1) : m \in S
  BY <1>1
<1> QED BY <1>1, <1>2

-----------------------------------------------------------------------------
(* Varints *)

\* What dividing by a byte does.
LEMMA Division ==
  ASSUME NEW v \in Nat
  PROVE  /\ v \div Cont \in Nat /\ v % Cont \in 0..(Cont - 1)
         /\ v = ((v \div Cont) * Cont) + (v % Cont)
         /\ v >= Cont => v \div Cont < v
         /\ v < Cont => v % Cont = v
         /\ ((v % Cont) + Cont) % Cont = v % Cont
<1>1. Cont \in Nat /\ Cont > 1
  BY FramingAssumption
<1>2. v \div Cont \in Nat /\ v % Cont \in 0..(Cont - 1)
  BY ONLY <1>1, v \in Nat
<1>3. v = ((v \div Cont) * Cont) + (v % Cont)
  BY ONLY <1>1, v \in Nat
<1>4. v >= Cont => v \div Cont < v
  BY ONLY <1>1, v \in Nat
<1>5. v < Cont => v % Cont = v
  BY ONLY <1>1, v \in Nat
<1>6. ((v % Cont) + Cont) % Cont = v % Cont
  BY ONLY <1>1, v \in Nat
<1> QED BY <1>2, <1>3, <1>4, <1>5, <1>6

\* The largest number that a length takes.
LEMMA LengthFacts ==
  /\ Cont \in Nat /\ Cont > 1 /\ Base \in Nat /\ Base = 2 * Cont
  /\ \E top \in Nat : U32 = 0..top
<1>1. Cont \in Nat /\ Cont > 1
  BY FramingAssumption
<1>2. Base \in Nat /\ Base = 2 * Cont /\ Base > 1
  BY <1>1 DEF Base
<1>3. Base * Base \in Nat /\ Base * Base > 1
  BY ONLY <1>2
<1>4. Base * Base * Base \in Nat /\ Base * Base * Base > 1
  BY ONLY <1>2, <1>3
<1>5. Base * Base * Base * Base - 1 \in Nat
  BY ONLY <1>2, <1>4
<1> QED BY <1>1, <1>2, <1>5 DEF U32

\* varint_size is defined by its loop.
LEMMA VarintSizesDef ==
  \A v \in U32 : VarintSizes[v] = IF v < Cont THEN 1 ELSE 1 + VarintSizes[v \div Cont]
<1> DEFINE Loop(f, v) == IF v < Cont THEN 1 ELSE 1 + f[v \div Cont]
           Solves(f, n) == f \in [0..n -> Nat] /\ \A v \in 0..n : f[v] = Loop(f, v)
           S == {n \in Nat : \E f : Solves(f, n)}
<1>1. 0 \in S
  <2> DEFINE f == [v \in 0..0 |-> 1]
  <2>1. Solves(f, 0)
    BY LengthFacts
  <2> QED BY <2>1
<1>2. ASSUME NEW n \in Nat, n \in S PROVE n + 1 \in S
  <2>1. PICK f : Solves(f, n)
    BY <1>2
  <2> DEFINE g == [v \in 0..(n + 1) |-> IF v = n + 1 THEN Loop(f, v) ELSE f[v]]
  <2>2. ASSUME NEW v \in 0..(n + 1)
        PROVE  g[v] = Loop(f, v) /\ Loop(f, v) = Loop(g, v) /\ g[v] \in Nat
    <3>1. CASE v < Cont
      BY <2>1, <3>1
    <3>2. CASE ~(v < Cont)
      <4>1. v \in Nat /\ v >= Cont
        BY <3>2, LengthFacts
      <4>2. v \div Cont \in Nat /\ v \div Cont < v
        BY ONLY <4>1, Division
      <4>3. v \div Cont \in 0..n /\ v \div Cont # n + 1
        BY ONLY <4>2, v \in 0..(n + 1), n \in Nat
      <4>4. g[v \div Cont] = f[v \div Cont] /\ f[v \div Cont] \in Nat
        BY <2>1, <4>3
      <4> QED BY SMTT(30), <2>1, <3>2, <4>4
    <3> QED BY <3>1, <3>2
  <2>3. g \in [0..(n + 1) -> Nat]
    <3>1. \A v \in 0..(n + 1) : g[v] \in Nat
      BY <2>2, Zenon
    <3>2. g = [v \in 0..(n + 1) |-> g[v]]
      OBVIOUS
    <3> HIDE DEF g
    <3> QED BY <3>1, <3>2
  <2>4. Solves(g, n + 1)
    <3> HIDE DEF g, Loop
    <3> QED BY <2>2, <2>3
  <2>5. n + 1 \in Nat
    OBVIOUS
  <2> HIDE DEF g, Solves
  <2> QED BY <2>4, <2>5
<1>3. \A n \in Nat : n \in S
  <2> HIDE DEF S
  <2> QED BY <1>1, <1>2, Induction
<1>4. PICK top \in Nat : U32 = 0..top
  BY LengthFacts
<1>5. PICK f : Solves(f, top)
  BY <1>3, <1>4, Zenon
<1>6. f = [v \in U32 |-> f[v]] /\ \A v \in U32 : f[v] = Loop(f, v)
  BY <1>4, <1>5
<1>7. f = [v \in U32 |-> IF v < Cont THEN 1 ELSE 1 + f[v \div Cont]]
  BY <1>6
<1>8. VarintSizes = [v \in U32 |-> IF v < Cont THEN 1 ELSE 1 + VarintSizes[v \div Cont]]
  BY <1>7, Zenon DEF VarintSizes
<1> QED BY <1>8

\* write_varint is defined by its loop.
LEMMA WriteVarintDef ==
  \A v \in U32 : WriteVarint[v] = IF v < Cont THEN <<v>>
                                  ELSE <<(v % Cont) + Cont>> \o WriteVarint[v \div Cont]
<1> DEFINE Loop(f, v) == IF v < Cont THEN <<v>> ELSE <<(v % Cont) + Cont>> \o f[v \div Cont]
           Solves(f, n) == DOMAIN f = 0..n /\ f = [v \in 0..n |-> f[v]] /\ \A v \in 0..n : f[v] = Loop(f, v)
           S == {n \in Nat : \E f : Solves(f, n)}
<1>1. 0 \in S
  <2> DEFINE f == [v \in 0..0 |-> <<v>>]
  <2>1. Solves(f, 0)
    BY LengthFacts
  <2> QED BY <2>1, Zenon
<1>2. ASSUME NEW n \in Nat, n \in S PROVE n + 1 \in S
  <2>1. PICK f : Solves(f, n)
    BY Zenon, <1>2
  <2> DEFINE g == [v \in 0..(n + 1) |-> IF v = n + 1 THEN Loop(f, v) ELSE f[v]]
  <2>2. ASSUME NEW v \in 0..(n + 1)
        PROVE  g[v] = Loop(f, v) /\ Loop(f, v) = Loop(g, v)
    <3>1. CASE v < Cont
      <4>1. Loop(f, v) = <<v>> /\ Loop(g, v) = <<v>>
        BY <3>1
      <4>2. g[v] = Loop(f, v)
        <5> HIDE DEF Loop
        <5> QED BY <2>1
      <4> QED BY <4>1, <4>2, Zenon
    <3>2. CASE ~(v < Cont)
      <4>1. v \in Nat /\ v >= Cont
        BY <3>2, LengthFacts
      <4>2. v \div Cont \in Nat /\ v \div Cont < v
        BY ONLY <4>1, Division
      <4>3. v \div Cont \in 0..(n + 1) /\ v \div Cont # n + 1
        BY ONLY <4>2, v \in 0..(n + 1), n \in Nat
      <4>4. g[v \div Cont] = f[v \div Cont]
        BY <4>3, Zenon
      <4>5. Loop(f, v) = Loop(g, v)
        BY <4>4, Zenon
      <4>6. g[v] = Loop(f, v)
        <5> HIDE DEF Loop
        <5> QED BY <2>1
      <4> QED BY Zenon, <4>5, <4>6
    <3> QED BY Zenon, <3>1, <3>2
  <2>3. DOMAIN g = 0..(n + 1) /\ g = [v \in 0..(n + 1) |-> g[v]]
    OBVIOUS
  <2>4. Solves(g, n + 1)
    <3> HIDE DEF g, Loop
    <3> QED BY <2>2, <2>3
  <2>5. n + 1 \in Nat
    OBVIOUS
  <2> HIDE DEF g, Solves
  <2> QED BY <2>4, <2>5
<1>3. \A n \in Nat : n \in S
  <2> HIDE DEF S
  <2> QED BY <1>1, <1>2, Induction
<1>4. PICK top \in Nat : U32 = 0..top
  BY LengthFacts
<1>5. PICK f : Solves(f, top)
  BY Zenon, <1>3, <1>4
<1>6. f = [v \in U32 |-> f[v]] /\ \A v \in U32 : f[v] = Loop(f, v)
  BY <1>4, <1>5, Zenon
<1>7. f = [v \in U32 |-> IF v < Cont THEN <<v>> ELSE <<(v % Cont) + Cont>> \o f[v \div Cont]]
  BY <1>6, Zenon
<1>8. WriteVarint = [v \in U32 |-> IF v < Cont THEN <<v>>
                                   ELSE <<(v % Cont) + Cont>> \o WriteVarint[v \div Cont]]
  BY <1>7, Zenon DEF WriteVarint
<1> QED BY <1>8, Zenon

\* The bytes w are the varint of v: only the last is below Cont, and the numbers
\* below it, added from the end, make v.
Varint(v, w) ==
  /\ w \in Seq(Bytes) /\ Len(w) \in Nat \ {0}
  /\ w[Len(w)] < Cont
  /\ \A i \in 1..(Len(w) - 1) : w[i] >= Cont
  /\ \E c \in [0..Len(w) -> Nat] :
       /\ c[0] = 0 /\ c[Len(w)] = v
       /\ \A k \in 1..Len(w) : c[k] = (c[k - 1] * Cont) + (w[Len(w) - k + 1] % Cont)

\* What write_varint writes is a varint of varint_size bytes.
LEMMA VarintFacts ==
  \A v \in U32 : Varint(v, WriteVarint[v]) /\ Len(WriteVarint[v]) = VarintSize(v)
<1> DEFINE S == {v \in Nat : v \in U32 => /\ Varint(v, WriteVarint[v])
                                          /\ Len(WriteVarint[v]) = VarintSizes[v]}
<1>1. ASSUME NEW v \in Nat, \A m \in 0..(v - 1) : m \in S PROVE v \in S
  <2> SUFFICES ASSUME v \in U32
               PROVE  Varint(v, WriteVarint[v]) /\ Len(WriteVarint[v]) = VarintSizes[v]
    OBVIOUS
  <2>1. CASE v < Cont
    <3>1. WriteVarint[v] = <<v>> /\ VarintSizes[v] = 1
      BY <2>1, WriteVarintDef, VarintSizesDef, Zenon
    <3>2. v \in Bytes
      BY <2>1, LengthFacts DEF Bytes
    <3> DEFINE w == <<v>>
               c == [k \in 0..1 |-> IF k = 0 THEN 0 ELSE v]
    <3>3. w \in Seq(Bytes) /\ Len(w) = 1 /\ w[1] = v
      BY <3>2
    <3>4. c \in [0..1 -> Nat] /\ c[0] = 0 /\ c[1] = v /\ v = (0 * Cont) + (v % Cont)
      <4>1. v % Cont = v
        BY ONLY <2>1, Division, v \in Nat
      <4>2. Cont \in Nat /\ 0 * Cont = 0
        BY LengthFacts
      <4> QED BY <4>1, <4>2
    <3> HIDE DEF w, c
    <3>5. \A k \in 1..1 : c[k] = (c[k - 1] * Cont) + (w[1 - k + 1] % Cont)
      BY <3>3, <3>4
    <3>6. Varint(v, w)
      BY <2>1, <3>3, <3>4, <3>5 DEF Varint
    <3> QED BY <3>1, <3>3, <3>6 DEF w
  <2>2. CASE ~(v < Cont)
    <3> DEFINE u == v \div Cont
               b == (v % Cont) + Cont
               x == WriteVarint[u]
               w == <<b>> \o x
    <3>1. /\ u \in Nat /\ u < v /\ v % Cont \in 0..(Cont - 1) /\ b % Cont = v % Cont
          /\ v = (u * Cont) + (v % Cont)
      <4>1. v >= Cont
        BY <2>2, LengthFacts
      <4> QED BY ONLY <4>1, Division, v \in Nat
    <3>2. u \in U32 /\ u \in 0..(v - 1)
      BY <3>1, LengthFacts
    <3>3. WriteVarint[v] = w /\ VarintSizes[v] = 1 + VarintSizes[u]
      BY <2>2, WriteVarintDef, VarintSizesDef, Zenon
    <3>4. Varint(u, x) /\ Len(x) = VarintSizes[u]
      BY <1>1, <3>2
    <3>5. b \in Bytes /\ b >= Cont /\ b \in Nat
      BY <3>1, LengthFacts DEF Bytes
    <3> HIDE DEF u, b, x
    <3>6. /\ x \in Seq(Bytes) /\ Len(x) \in Nat \ {0}
          /\ x[Len(x)] < Cont /\ \A i \in 1..(Len(x) - 1) : x[i] >= Cont
      BY <3>4 DEF Varint
    <3>7. /\ w \in Seq(Bytes) /\ Len(w) = Len(x) + 1 /\ w[1] = b
          /\ \A i \in 2..Len(w) : w[i] = x[i - 1]
      BY <3>5, <3>6
    <3> HIDE DEF w
    <3>8. w[Len(w)] < Cont /\ \A i \in 1..(Len(w) - 1) : w[i] >= Cont
      BY ONLY <3>5, <3>6, <3>7
    <3>9. PICK c \in [0..Len(x) -> Nat] :
            /\ c[0] = 0 /\ c[Len(x)] = u
            /\ \A k \in 1..Len(x) : c[k] = (c[k - 1] * Cont) + (x[Len(x) - k + 1] % Cont)
      BY SMTT(30), Zenon, <3>4 DEF Varint
    <3> DEFINE e == [k \in 0..Len(w) |-> IF k = Len(w) THEN v ELSE c[k]]
    <3>10. e \in [0..Len(w) -> Nat] /\ e[0] = 0 /\ e[Len(w)] = v /\ \A k \in 0..Len(x) : e[k] = c[k]
      BY <3>6, <3>7, <3>9
    <3> HIDE DEF e
    <3>11. ASSUME NEW k \in 1..Len(w)
           PROVE  e[k] = (e[k - 1] * Cont) + (w[Len(w) - k + 1] % Cont)
      <4>1. CASE k = Len(w)
        <5>1. k - 1 = Len(x) /\ Len(w) - k + 1 = 1
          BY <3>6, <3>7, <4>1
        <5>2. e[k] = v /\ e[k - 1] = u /\ w[Len(w) - k + 1] = b
          BY <3>6, <3>7, <3>9, <3>10, <4>1, <5>1
        <5> QED BY <3>1, <5>2
      <4>2. CASE k # Len(w)
        <5>1. /\ k \in 1..Len(x) /\ k - 1 \in 0..Len(x) /\ k \in 0..Len(x)
              /\ Len(w) - k + 1 \in 2..Len(w) /\ Len(w) - k + 1 - 1 = Len(x) - k + 1
          BY ONLY <3>6, <3>7, <4>2, k \in 1..Len(w)
        <5>2. /\ e[k] = c[k] /\ e[k - 1] = c[k - 1]
              /\ w[Len(w) - k + 1] = x[Len(x) - k + 1]
          <6>1. e[k] = c[k] /\ e[k - 1] = c[k - 1]
            BY ONLY <3>10, <5>1
          <6> DEFINE j == Len(w) - k + 1
          <6>2. j \in 2..Len(w) /\ j - 1 = Len(x) - k + 1
            BY ONLY <5>1
          <6> HIDE DEF j
          <6>3. w[j] = x[j - 1]
            BY ONLY <3>7, <6>2
          <6> QED BY ONLY <6>1, <6>2, <6>3 DEF j
        <5> QED BY <3>9, <5>1, <5>2
      <4> QED BY <4>1, <4>2
    <3>12. Varint(v, w)
      <4>1. \E f \in [0..Len(w) -> Nat] :
              /\ f[0] = 0 /\ f[Len(w)] = v
              /\ \A k \in 1..Len(w) : f[k] = (f[k - 1] * Cont) + (w[Len(w) - k + 1] % Cont)
        BY <3>10, <3>11, Zenon
      <4>2. Len(w) \in Nat \ {0}
        BY ONLY <3>6, <3>7
      <4> QED BY <3>7, <3>8, <4>1, <4>2, Zenon DEF Varint
    <3>13. Len(w) = VarintSizes[v]
      BY <3>3, <3>4, <3>6, <3>7
    <3> QED BY <3>3, <3>12, <3>13
  <2> QED BY <2>1, <2>2
<1>2. \A v \in Nat : v \in S
  <2> HIDE DEF S
  <2> QED BY <1>1, StrongInduction
<1>3. \A v \in U32 : v \in Nat
  BY LengthFacts
<1> QED BY <1>2, <1>3 DEF VarintSize

\* read_varint reads back what write_varint wrote, whatever follows it.
THEOREM ReadBack ==
  ASSUME NEW v \in U32, NEW d \in Seq(Bytes), NEW x, x = WriteVarint[v] \o d
  PROVE  ReadVarint(x) = <<v, VarintSize(v)>>
<1> DEFINE w == WriteVarint[v]
<1>1. Varint(v, w) /\ Len(w) = VarintSize(v)
  BY VarintFacts
<1> HIDE DEF w
<1>2. /\ w \in Seq(Bytes) /\ Len(w) \in Nat \ {0}
      /\ w[Len(w)] < Cont /\ \A i \in 1..(Len(w) - 1) : w[i] >= Cont
  BY <1>1 DEF Varint
<1>3. /\ x \in Seq(Bytes) /\ Len(x) = Len(w) + Len(d) /\ Len(d) \in Nat
      /\ \A i \in 1..Len(w) : x[i] = w[i]
  BY <1>2 DEF w
<1> DEFINE I == {i \in DOMAIN x : x[i] < Cont}
           last == CHOOSE i \in I : \A j \in I : i <= j
<1>4. Len(w) \in I /\ \A i \in I : Len(w) <= i
  <2>0. DOMAIN x = 1..Len(x)
    BY <1>3
  <2>1. ASSUME NEW i \in 1..(Len(w) - 1) PROVE ~(x[i] < Cont)
    <3>1. i \in 1..Len(w) /\ w[i] >= Cont
      BY <1>2
    <3>2. w[i] \in Bytes /\ x[i] = w[i]
      BY ONLY <1>2, <1>3, <3>1
    <3> QED BY SMTT(30), Zenon, <3>1, <3>2, LengthFacts DEF Bytes
  <2>2. Len(w) \in 1..Len(x) /\ x[Len(w)] < Cont
    BY <1>2, <1>3
  <2>3. \A i \in 1..Len(x) : Len(w) <= i \/ i \in 1..(Len(w) - 1)
    BY <1>2, <1>3
  <2> QED BY <2>0, <2>1, <2>2, <2>3
<1>5. last = Len(w) /\ I # {}
  <2> HIDE DEF I
  <2>1. \A i \in I : i \in Nat
    BY <1>3 DEF I
  <2>2. \A i \in I : (\A j \in I : i <= j) => i = Len(w)
    BY <1>2, <1>4, <2>1
  <2> QED BY <1>4, <2>2
<1>6. PICK c \in [0..Len(w) -> Nat] :
        /\ c[0] = 0 /\ c[Len(w)] = v
        /\ \A k \in 1..Len(w) : c[k] = (c[k - 1] * Cont) + (w[Len(w) - k + 1] % Cont)
  BY <1>1, Zenon DEF Varint
<1> DEFINE Rule(f) == [k \in 0..Len(w) |-> IF k = 0 THEN 0
                         ELSE (f[k - 1] * Cont) + (x[Len(w) - k + 1] % Cont)]
           value == CHOOSE f : f = Rule(f)
<1>7. c = Rule(c)
  <2>1. c = [k \in 0..Len(w) |-> c[k]]
    BY <1>6
  <2>2. ASSUME NEW k \in 0..Len(w)
        PROVE  c[k] = IF k = 0 THEN 0 ELSE (c[k - 1] * Cont) + (x[Len(w) - k + 1] % Cont)
    <3>1. CASE k = 0
      BY <1>6, <3>1
    <3>2. CASE k # 0
      <4>1. k \in 1..Len(w) /\ Len(w) - k + 1 \in 1..Len(w)
        BY <1>2, <3>2
      <4>2. x[Len(w) - k + 1] = w[Len(w) - k + 1]
        BY ONLY <1>3, <4>1, Zenon
      <4> QED BY <1>6, <3>2, <4>1, <4>2
    <3> QED BY <3>1, <3>2, Zenon
  <2> QED BY <2>1, <2>2, Zenon
<1>8. value = Rule(value)
  BY <1>7, Zenon
<1> HIDE DEF value
<1>9. /\ value[0] = 0
       /\ \A k \in 1..Len(w) : value[k] = (value[k - 1] * Cont) + (x[Len(w) - k + 1] % Cont)
  <2>1. value[0] = 0
    BY ONLY <1>2, <1>8
  <2>2. ASSUME NEW k \in 1..Len(w)
        PROVE  value[k] = (value[k - 1] * Cont) + (x[Len(w) - k + 1] % Cont)
    <3>1. k \in 0..Len(w) /\ k # 0
      BY <1>2
    <3>2. value[k] = Rule(value)[k]
      BY ONLY <1>8, Zenon
    <3> QED BY ONLY <3>1, <3>2
  <2> QED BY <2>1, <2>2, Zenon
<1> DEFINE S == {k \in Nat : k <= Len(w) => value[k] = c[k]}
<1>10. 0 \in S
  BY <1>6, <1>9
<1>11. ASSUME NEW k \in Nat, k \in S PROVE k + 1 \in S
  <2> SUFFICES ASSUME k + 1 <= Len(w) PROVE value[k + 1] = c[k + 1]
    OBVIOUS
  <2>1. PICK j \in 1..Len(w) : j = k + 1 /\ j - 1 = k /\ Len(w) - j + 1 \in 1..Len(w)
    BY <1>2
  <2>2. value[j - 1] = c[j - 1]
    BY <1>2, <1>11, <2>1
  <2>3. x[Len(w) - j + 1] = w[Len(w) - j + 1]
    BY ONLY <1>3, <2>1, Zenon
  <2> QED BY <1>6, <1>9, <2>1, <2>2, <2>3, ZenonT(60)
<1>12. \A k \in Nat : k \in S
  <2> HIDE DEF S
  <2> QED BY <1>10, <1>11, Induction, Zenon
<1>13. value[Len(w)] = v
  <2>1. Len(w) \in Nat /\ Len(w) <= Len(w)
    BY <1>2
  <2>2. Len(w) \in S
    BY ONLY <1>12, <2>1
  <2> QED BY ONLY <1>6, <2>1, <2>2
<1> DEFINE Value(l) ==
      CHOOSE f : f = [k \in 0..l |-> IF k = 0 THEN 0
                                     ELSE (f[k - 1] * Cont) + (x[l - k + 1] % Cont)]
<1>14. ReadVarint(x) = IF I = {} THEN <<>> ELSE <<Value(last)[last], last>>
  BY Zenon DEF ReadVarint
<1>15. Value(Len(w)) = value
  BY Zenon DEF value
<1> HIDE DEF I, last, Value
<1> QED BY <1>1, <1>5, <1>13, <1>14, <1>15, Zenon

-----------------------------------------------------------------------------
(* Frames *)

\* u32::from_be_bytes reads back what put_u32 wrote.
LEMMA HeaderFacts ==
  ASSUME NEW n \in U32, NEW h, h = Header(n)
  PROVE  /\ h \in Seq(Bytes) /\ Len(h) = 5
         /\ ((h[2] * Base + h[3]) * Base + h[4]) * Base + h[5] = n
<1> DEFINE n1 == n \div Base
           n2 == n1 \div Base
           n3 == n2 \div Base
<1>1. Base \in Nat /\ Base > 1 /\ n \in Nat /\ n < Base * Base * Base * Base
  BY LengthFacts DEF U32
<1>2. ASSUME NEW m \in Nat
      PROVE  /\ m \div Base \in Nat /\ m % Base \in 0..(Base - 1)
             /\ m = ((m \div Base) * Base) + (m % Base)
  BY ONLY <1>1, m \in Nat
<1>3. /\ n1 \in Nat /\ n % Base \in 0..(Base - 1) /\ n = n1 * Base + (n % Base)
  BY ONLY <1>1, <1>2
<1>4. /\ n2 \in Nat /\ n1 % Base \in 0..(Base - 1) /\ n1 = n2 * Base + (n1 % Base)
  BY ONLY <1>2, <1>3
<1>5. /\ n3 \in Nat /\ n2 % Base \in 0..(Base - 1) /\ n2 = n3 * Base + (n2 % Base)
  BY ONLY <1>2, <1>4
<1>6. n3 < Base
  <2> HIDE DEF n1, n2, n3
  <2>1. n1 * Base <= n /\ n2 * Base <= n1 /\ n3 * Base <= n2
    BY ONLY <1>1, <1>3, <1>4, <1>5
  <2>2. n1 < Base * Base * Base
    BY ONLY <1>1, <1>3, <2>1
  <2>3. n2 < Base * Base
    BY ONLY <1>1, <1>4, <2>1, <2>2
  <2> QED BY ONLY <1>1, <1>5, <2>1, <2>3
<1>7. n3 % Base = n3
  BY ONLY <1>1, <1>5, <1>6
<1>8. h = <<0, n3, n2 % Base, n1 % Base, n % Base>>
  BY <1>7 DEF Header
<1> HIDE DEF n1, n2, n3
<1>9. h \in Seq(Bytes) /\ Len(h) = 5
  BY <1>1, <1>3, <1>4, <1>5, <1>6, <1>8 DEF Bytes
<1>10. h[2] = n3 /\ h[3] = n2 % Base /\ h[4] = n1 % Base /\ h[5] = n % Base
  BY ONLY <1>8
<1> QED BY ONLY <1>3, <1>4, <1>5, <1>9, <1>10

\* Two sequences put together are found again at their places.
LEMMA Glued ==
  ASSUME NEW S, NEW a \in Seq(S), NEW b \in Seq(S)
  PROVE  /\ a \o b \in Seq(S) /\ Len(a \o b) = Len(a) + Len(b)
         /\ \A i \in 1..Len(a) : (a \o b)[i] = a[i]
         /\ \A i \in 1..Len(b) : (a \o b)[Len(a) + i] = b[i]
<1>1. /\ a \o b \in Seq(S) /\ Len(a \o b) = Len(a) + Len(b)
      /\ \A i \in 1..(Len(a) + Len(b)) :
           (a \o b)[i] = IF i <= Len(a) THEN a[i] ELSE b[i - Len(a)]
  BY ConcatProperties
<1>2. Len(a) \in Nat /\ Len(b) \in Nat
  OBVIOUS
<1>3. \A i \in 1..Len(a) : (a \o b)[i] = a[i]
  BY ONLY <1>1, <1>2
<1>4. ASSUME NEW i \in 1..Len(b) PROVE (a \o b)[Len(a) + i] = b[i]
  <2>1. /\ Len(a) + i \in 1..(Len(a) + Len(b)) /\ ~(Len(a) + i <= Len(a))
        /\ Len(a) + i - Len(a) = i
    BY ONLY <1>2, i \in 1..Len(b)
  <2> QED BY ONLY <1>1, <2>1
<1> QED BY <1>1, <1>3, <1>4

\* Cutting where they were put together gives the two back.
LEMMA CutApart ==
  ASSUME NEW S, NEW a \in Seq(S), NEW b \in Seq(S), NEW c, c = a \o b
  PROVE  SubSeq(c, Len(a) + 1, Len(a) + Len(b)) = b
<1>1. /\ Len(a) \in Nat /\ Len(b) \in Nat
      /\ c \in Seq(S) /\ Len(c) = Len(a) + Len(b)
      /\ \A i \in 1..Len(b) : c[Len(a) + i] = b[i]
  BY Glued
<1> DEFINE q == SubSeq(c, Len(a) + 1, Len(a) + Len(b))
<1>2. \A i \in (Len(a) + 1)..(Len(a) + Len(b)) : c[i] \in S
  BY <1>1
<1>3. /\ q \in Seq(S)
      /\ Len(q) = IF Len(a) + 1 <= Len(a) + Len(b) THEN Len(a) + Len(b) - (Len(a) + 1) + 1 ELSE 0
      /\ \A i \in 1..(Len(a) + Len(b) - (Len(a) + 1) + 1) : q[i] = c[Len(a) + 1 + i - 1]
  <2>1. Len(a) + 1 \in Int /\ Len(a) + Len(b) \in Int
    BY <1>1
  <2> QED BY <1>2, <2>1, SubSeqProperties
<1> HIDE DEF q
<1>4. Len(q) = Len(b)
  BY ONLY <1>1, <1>3
<1>5. ASSUME NEW i \in 1..Len(b) PROVE q[i] = b[i]
  <2>1. i \in 1..(Len(a) + Len(b) - (Len(a) + 1) + 1) /\ Len(a) + 1 + i - 1 = Len(a) + i
    BY ONLY <1>1, i \in 1..Len(b)
  <2>2. q[i] = c[Len(a) + i]
    BY ONLY <1>3, <2>1
  <2> QED BY ONLY <1>1, <2>2, i \in 1..Len(b)
<1>6. q = b
  BY <1>3, <1>4, <1>5, SeqEqual
<1> QED BY <1>6 DEF q

\* A header and the payload it announces make a frame that can be taken apart.
LEMMA FramedFacts ==
  ASSUME NEW p \in Seq(Bytes), Len(p) \in U32, NEW e, e = Header(Len(p)) \o p
  PROVE  /\ e \in Seq(Bytes) /\ Len(e) = 5 + Len(p) /\ GetU32(e) = Len(p)
         /\ SubSeq(e, 6, Len(e)) = p
<1> DEFINE h == Header(Len(p))
<1>1. /\ h \in Seq(Bytes) /\ Len(h) = 5
      /\ ((h[2] * Base + h[3]) * Base + h[4]) * Base + h[5] = Len(p)
  BY HeaderFacts
<1> HIDE DEF h
<1>2. /\ e \in Seq(Bytes) /\ Len(e) = 5 + Len(p) /\ \A i \in 1..5 : e[i] = h[i]
  <2>1. e = h \o p
    BY DEF h
  <2>2. /\ h \o p \in Seq(Bytes) /\ Len(h \o p) = Len(h) + Len(p)
        /\ \A i \in 1..Len(h) : (h \o p)[i] = h[i]
    <3>1. h \in Seq(Bytes) /\ p \in Seq(Bytes)
      BY <1>1
    <3> QED BY ONLY <3>1, Glued
  <2> QED BY ONLY <1>1, <2>1, <2>2
<1>3. e[2] = h[2] /\ e[3] = h[3] /\ e[4] = h[4] /\ e[5] = h[5]
  BY ONLY <1>2
<1>4. SubSeq(e, 5 + 1, 5 + Len(p)) = p
  BY <1>1, CutApart, ZenonT(60) DEF h
<1>5. GetU32(e) = Len(p)
  BY Zenon, <1>1, <1>3 DEF GetU32
<1>6. SubSeq(e, 6, Len(e)) = p
  BY ONLY <1>2, <1>4
<1> QED BY Zenon, <1>2, <1>5, <1>6

\* A field of data is decoded to the data.
LEMMA DataFacts ==
  ASSUME NEW d \in Seq(Bytes), Len(d) \in U32,
         NEW p, p = <<Tag>> \o (WriteVarint[Len(d)] \o d)
  PROVE  /\ p \in Seq(Bytes) /\ Len(p) = 1 + VarintSize(Len(d)) + Len(d)
         /\ DecodeGunPayload(p) = <<d>>
<1> DEFINE w == WriteVarint[Len(d)]
           x == w \o d
           t == <<Tag>>
<1>1. w \in Seq(Bytes) /\ Len(w) = VarintSize(Len(d)) /\ Len(w) \in Nat /\ Len(d) \in Nat
  BY VarintFacts DEF Varint
<1>2. ReadVarint(x) = <<Len(d), Len(w)>>
  BY <1>1, ReadBack, Zenon
<1> HIDE DEF w
<1>3. x \in Seq(Bytes) /\ Len(x) = Len(w) + Len(d)
  BY <1>1, Glued, Zenon
<1>4. t \in Seq(Bytes) /\ Len(t) = 1
  BY FramingAssumption, LengthFacts DEF Bytes
<1>5. p = t \o x /\ p = (t \o w) \o d
  <2>1. (t \o w) \o d = t \o (w \o d)
    BY SMTT(30), Zenon, <1>1, <1>4, ConcatAssociative
  <2> QED BY <2>1, Zenon DEF w
<1>6. t \o w \in Seq(Bytes) /\ Len(t \o w) = 1 + Len(w)
  BY <1>1, <1>4, Glued
<1> HIDE DEF x
<1>7. p \in Seq(Bytes) /\ Len(p) = 1 + Len(x)
  <2>1. t \o x \in Seq(Bytes) /\ Len(t \o x) = Len(t) + Len(x)
    BY <1>3, <1>4, Glued, ZenonT(60)
  <2> QED BY ONLY <1>4, <1>5, <2>1
<1>8. Head(p) = Tag /\ p # <<>>
  BY <1>3, <1>4, <1>5, <1>7
<1>9. Tail(p) = x
  <2>1. SubSeq(p, Len(t) + 1, Len(t) + Len(x)) = x
    BY <1>3, <1>4, <1>5, CutApart, Zenon
  <2>2. SubSeq(p, 2, Len(p)) = x
    BY ONLY <1>4, <1>7, <2>1
  <2>3. Tail(p) = SubSeq(p, 2, Len(p))
    BY <1>7, <1>8, TailIsSubSeq, Zenon
  <2> QED BY ONLY <2>2, <2>3
<1>10. SubSeq(p, 1 + Len(w) + 1, 1 + Len(w) + Len(d)) = d
  BY <1>5, <1>6, CutApart, ZenonT(60)
<1>11. ~(Len(p) < 1 + Len(w) + Len(d))
  BY ONLY <1>1, <1>3, <1>7
<1>12. DecodeGunPayload(p) = <<d>>
  <2> DEFINE r == <<Len(d), Len(w)>>
  <2>1. r[1] = Len(d) /\ r[2] = Len(w) /\ r # <<>>
    OBVIOUS
  <2>2. ReadVarint(Tail(p)) = r
    BY <1>2, <1>9, Zenon
  <2> HIDE DEF r
  <2> QED BY <1>8, <1>10, <1>11, <2>1, <2>2, Zenon DEF DecodeGunPayload
<1>13. Len(p) = 1 + VarintSize(Len(d)) + Len(d)
  BY ONLY <1>1, <1>3, <1>7
<1> QED BY <1>7, <1>12, <1>13

\* encode_grpc_frame and decode_gun_payload agree: the frame of a message holds
\* its length and what it carries.
THEOREM FrameFacts ==
  ASSUME NEW m \in Messages, NEW e, e = Encode(m)
  PROVE  /\ e \in Seq(Bytes) /\ Len(e) = 5 + GetU32(e) /\ GetU32(e) \in Nat
         /\ DecodeGunPayload(SubSeq(e, 6, Len(e))) = Payload(m)
<1>1. /\ m.kind \in {"data", "bare", "other"} /\ m.data \in Seq(Bytes)
      /\ m.kind = "bare" => m.data = <<>>
      /\ Len(m.data) \in U32 /\ 1 + VarintSize(Len(m.data)) + Len(m.data) \in U32
  BY FramingAssumption
<1>2. ASSUME NEW p \in Seq(Bytes), Len(p) \in U32, e = Header(Len(p)) \o p,
             DecodeGunPayload(p) = Payload(m)
      PROVE  /\ e \in Seq(Bytes) /\ Len(e) = 5 + GetU32(e) /\ GetU32(e) \in Nat
             /\ DecodeGunPayload(SubSeq(e, 6, Len(e))) = Payload(m)
  <2>1. /\ e \in Seq(Bytes) /\ Len(e) = 5 + Len(p) /\ GetU32(e) = Len(p)
        /\ SubSeq(e, 6, Len(e)) = p
    BY <1>2, FramedFacts, Zenon
  <2>2. Len(p) \in Nat
    BY <1>2
  <2> QED BY <1>2, <2>1, <2>2, Zenon
<1>3. CASE m.kind = "data"
  <2> DEFINE p == <<Tag>> \o (WriteVarint[Len(m.data)] \o m.data)
  <2>1. /\ p \in Seq(Bytes) /\ Len(p) = 1 + VarintSize(Len(m.data)) + Len(m.data)
        /\ DecodeGunPayload(p) = <<m.data>>
    BY <1>1, DataFacts, Zenon
  <2>2. e = Header(Len(p)) \o p
    BY <1>3, <2>1, Zenon DEF Encode, EncodeGrpcFrame
  <2> HIDE DEF p
  <2> QED BY <1>1, <1>2, <1>3, <2>1, <2>2, Zenon DEF Payload
<1>4. CASE m.kind = "bare"
  <2> DEFINE p == <<>>
  <2>1. p \in Seq(Bytes) /\ Len(p) = 0 /\ 0 \in U32
    BY LengthFacts
  <2>2. e = Header(0) /\ Header(0) \in Seq(Bytes)
    BY <1>4, <2>1, HeaderFacts DEF Encode
  <2>3. e = Header(Len(p)) \o p
    BY <2>1, <2>2
  <2>4. DecodeGunPayload(p) = Payload(m)
    BY <1>1, <1>4 DEF DecodeGunPayload, Payload
  <2> HIDE DEF p
  <2> QED BY <1>2, <2>1, <2>3, <2>4, Zenon
<1>5. CASE m.kind = "other"
  <2> DEFINE p == <<Tag + 1>> \o m.data
  <2>1. Tag + 1 \in Bytes /\ Tag + 1 # Tag
    BY FramingAssumption, LengthFacts DEF Bytes
  <2>2. /\ p \in Seq(Bytes) /\ Len(p) = 1 + Len(m.data) /\ p # <<>> /\ Head(p) # Tag
    BY <1>1, <2>1
  <2>3. Len(p) \in U32
    <3>1. VarintSize(Len(m.data)) \in Nat \ {0}
      BY <1>1, VarintFacts DEF Varint
    <3> QED BY <1>1, <2>2, <3>1, LengthFacts
  <2>4. e = Header(Len(p)) \o p
    BY <1>5, <2>2, Zenon DEF Encode
  <2>5. DecodeGunPayload(p) = Payload(m)
    <3> HIDE DEF p
    <3> QED BY <1>5, <2>2 DEF DecodeGunPayload, Payload
  <2> HIDE DEF p
  <2> QED BY <1>2, <2>2, <2>3, <2>4, <2>5, Zenon
<1> QED BY <1>1, <1>3, <1>4, <1>5

\* The three parts of a sequence, and the first two and the last two together.
Groups(S, a, b, c, ab, bc) ==
  a \in Seq(S) /\ b \in Seq(S) /\ c \in Seq(S) /\ ab = a \o b /\ bc = b \o c

\* Concatenation is associative.
LEMMA Regroup ==
  ASSUME NEW S, NEW a, NEW b, NEW c, NEW ab, NEW bc, Groups(S, a, b, c, ab, bc)
  PROVE  ab \o c = a \o bc
<1>1. a \in Seq(S) /\ b \in Seq(S) /\ c \in Seq(S)
  BY DEF Groups
<1>2. (a \o b) \o c = a \o (b \o c)
  BY ONLY <1>1, ConcatAssociative
<1>3. ab = a \o b /\ bc = b \o c
  BY DEF Groups
<1> QED BY ONLY <1>2, <1>3

\* A sequence cut in two, put together again, is the sequence.
LEMMA CutInTwo ==
  ASSUME NEW S, NEW a \in Seq(S), NEW n \in 0..Len(a)
  PROVE  /\ SubSeq(a, 1, n) \in Seq(S) /\ Len(SubSeq(a, 1, n)) = n
         /\ SubSeq(a, n + 1, Len(a)) \in Seq(S)
         /\ a = SubSeq(a, 1, n) \o SubSeq(a, n + 1, Len(a))
<1>1. Len(a) \in Nat /\ n \in Nat /\ n <= Len(a) /\ \A i \in 1..Len(a) : a[i] \in S
  OBVIOUS
<1>2. SubSeq(a, 1, n) \in Seq(S) /\ Len(SubSeq(a, 1, n)) = n
  <2>1. 1 \in Int /\ n \in Int /\ \A i \in 1..n : a[i] \in S
    BY ONLY <1>1
  <2>2. SubSeq(a, 1, n) \in Seq(S) /\ Len(SubSeq(a, 1, n)) = IF 1 <= n THEN n - 1 + 1 ELSE 0
    BY <2>1, SubSeqProperties
  <2> QED BY ONLY <1>1, <2>2
<1>3. SubSeq(a, n + 1, Len(a)) \in Seq(S)
  <2>1. n + 1 \in Int /\ Len(a) \in Int /\ \A i \in (n + 1)..Len(a) : a[i] \in S
    BY ONLY <1>1
  <2> QED BY <2>1, SubSeqProperties, Zenon
<1>4. SubSeq(a, 1, n) \o SubSeq(a, n + 1, Len(a)) = SubSeq(a, 1, Len(a))
  <2>1. 1 \in 1..(Len(a) + 1) /\ n \in (1 - 1)..Len(a) /\ Len(a) \in n..Len(a)
    BY ONLY <1>1
  <2> QED BY <2>1, ConcatAdjacentSubSeq, Zenon
<1>5. SubSeq(a, 1, Len(a)) = a
  BY SubSeqFull
<1> QED BY <1>2, <1>3, <1>4, <1>5, Zenon

\* a \o x and e \o y are the same sequence, and r is what a has after e's place.
TwoWays(S, a, x, e, y, r) ==
  /\ a \in Seq(S) /\ x \in Seq(S) /\ e \in Seq(S) /\ y \in Seq(S)
  /\ a \o x = e \o y /\ Len(e) <= Len(a)
  /\ r = SubSeq(a, Len(e) + 1, Len(a))

\* Of two ways to put the same sequence together, the longer first part starts
\* with the shorter one; taking that off both leaves the same.
LEMMA TakeOff ==
  ASSUME NEW S, NEW a, NEW x, NEW e, NEW y, NEW r, TwoWays(S, a, x, e, y, r)
  PROVE  r \in Seq(S) /\ a = e \o r /\ r \o x = y
<1> USE DEF TwoWays
<1> DEFINE b == SubSeq(a, 1, Len(e))
<1>1. Len(e) \in 0..Len(a)
  OBVIOUS
<1>2. b \in Seq(S) /\ Len(b) = Len(e) /\ r \in Seq(S) /\ a = b \o r
  BY <1>1, CutInTwo, Zenon
<1> HIDE DEF b
<1>3. \A i \in 1..Len(e) : (a \o x)[i] = a[i] /\ (e \o y)[i] = e[i] /\ a[i] = b[i]
  <2>1. \A i \in 1..Len(a) : (a \o x)[i] = a[i]
    BY Glued, Zenon
  <2>2. \A i \in 1..Len(e) : (e \o y)[i] = e[i]
    BY Glued, Zenon
  <2>3. \A i \in 1..Len(b) : (b \o r)[i] = b[i]
    BY <1>2, Glued, ZenonT(60)
  <2>4. \A i \in 1..Len(e) : i \in 1..Len(a)
    BY <1>1
  <2> QED BY ONLY <1>2, <2>1, <2>2, <2>3, <2>4
<1>4. b = e
  <2>1. \A i \in 1..Len(b) : b[i] = e[i]
    BY ONLY <1>2, <1>3, a \o x = e \o y
  <2> QED BY <1>2, <2>1, SeqEqual, Zenon
<1> DEFINE z == r \o x
<1>5. a = e \o r
  BY ONLY <1>2, <1>4
<1>6. z = y
  <2>1. z \in Seq(S)
    BY <1>2, Glued, Zenon
  <2>0. z = r \o x
    OBVIOUS
  <2> HIDE DEF z
  <2>2. a \o x = e \o z
    <3>1. e \in Seq(S) /\ r \in Seq(S) /\ x \in Seq(S)
      BY Zenon, <1>2
    <3> QED BY ONLY SMTT(60), ZenonT(60), <1>5, <2>0, <3>1
  <2>3. \A s, t, v \in Seq(S) : s \o t = s \o v => t = v
    BY ConcatSimplifications, Zenon
  <2> QED BY ONLY <2>1, <2>2, <2>3, a \o x = e \o y, e \in Seq(S), y \in Seq(S), Zenon
<1> QED BY <1>2, <1>5, <1>6, Zenon

\* The start of a buffer that holds a whole header says how long the frame is.
LEMMA SameHeader ==
  ASSUME NEW a \in Seq(Bytes), NEW x \in Seq(Bytes), NEW e \in Seq(Bytes), NEW y \in Seq(Bytes),
         a \o x = e \o y, Len(a) >= 5, Len(e) >= 5
  PROVE  GetU32(a) = GetU32(e)
<1>1. \A i \in 1..Len(a) : (a \o x)[i] = a[i]
  BY Glued, Zenon
<1>2. \A i \in 1..Len(e) : (e \o y)[i] = e[i]
  BY Glued, ZenonT(60)
<1>3. \A i \in 1..5 : i \in 1..Len(a) /\ i \in 1..Len(e)
  OBVIOUS
<1>4. \A i \in 1..5 : a[i] = e[i]
  BY ONLY <1>1, <1>2, <1>3, a \o x = e \o y
<1>5. a[2] = e[2] /\ a[3] = e[3] /\ a[4] = e[4] /\ a[5] = e[5]
  BY ONLY <1>4
<1> QED BY <1>5, Zenon DEF GetU32

-----------------------------------------------------------------------------
(* What is left of the stream, and of what it carries *)

\* q[i] is what the parts after the i-th make together, the parts being n.
Tails(q, parts, n, S) ==
  /\ q \in [0..n -> Seq(S)] /\ q[n] = <<>>
  /\ \A i \in 1..n : parts[i] \in Seq(S) /\ q[i - 1] = parts[i] \o q[i]

\* c[i] is what the first i of n parts make together.
Heads(c, parts, n, S) ==
  /\ c \in [0..n -> Seq(S)] /\ c[0] = <<>>
  /\ \A i \in 1..n : parts[i] \in Seq(S) /\ c[i] = c[i - 1] \o parts[i]

Framed(messages) == [i \in 1..Len(messages) |-> Encode(messages[i])]
Payloads(messages) == [i \in 1..Len(messages) |-> Payload(messages[i])]

\* One part more: every tail grows by it.
LEMMA TailsGrow ==
  ASSUME NEW S, NEW n \in Nat, NEW q, NEW parts, Tails(q, parts, n, S),
         NEW more, \A i \in 1..n : more[i] = parts[i], more[n + 1] \in Seq(S),
         NEW r, r = [i \in 0..(n + 1) |-> IF i = n + 1 THEN <<>> ELSE q[i] \o more[n + 1]]
  PROVE  Tails(r, more, n + 1, S)
<1>1. \A i \in 0..n : q[i] \in Seq(S)
  BY DEF Tails
<1>2. ASSUME NEW i \in 0..n PROVE r[i] = q[i] \o more[n + 1]
  <2>1. i # n + 1 /\ i \in 0..(n + 1)
    BY ONLY n \in Nat, i \in 0..n
  <2> QED BY <2>1, Zenon
<1>3. n + 1 \in 0..(n + 1) /\ r[n + 1] = <<>>
  OBVIOUS
<1>4. r \in [0..(n + 1) -> Seq(S)]
  <2>1. \A i \in 0..n : q[i] \o more[n + 1] \in Seq(S)
    BY <1>1, Glued
  <2>2. <<>> \in Seq(S)
    OBVIOUS
  <2>3. ASSUME NEW i \in 0..(n + 1)
        PROVE  (IF i = n + 1 THEN <<>> ELSE q[i] \o more[n + 1]) \in Seq(S)
    <3>1. i = n + 1 \/ i \in 0..n
      OBVIOUS
    <3> QED BY <2>1, <2>2, <3>1
  <2> QED BY <2>3
<1>5. ASSUME NEW i \in 1..(n + 1)
      PROVE  more[i] \in Seq(S) /\ r[i - 1] = more[i] \o r[i]
  <2>1. CASE i = n + 1
    <3>1. n \in 0..n /\ i - 1 = n
      BY <2>1
    <3>2. r[n] = <<>> \o more[n + 1] /\ r[i] = <<>>
      BY <1>2, <1>3, <2>1, <3>1 DEF Tails
    <3>3. <<>> \o more[n + 1] = more[n + 1] /\ more[n + 1] \o <<>> = more[n + 1]
      BY ConcatEmptySeq
    <3> QED BY ONLY <2>1, <3>1, <3>2, <3>3, more[n + 1] \in Seq(S)
  <2>2. CASE i # n + 1
    <3>1. i \in 1..n /\ i \in 0..n /\ i - 1 \in 0..n
      BY <2>2
    <3> DEFINE x == parts[i]
               y == q[i]
               z == more[n + 1]
               yz == y \o z
    <3>2. x \in Seq(S) /\ y \in Seq(S) /\ z \in Seq(S) /\ q[i - 1] = x \o y
      BY <1>1, <3>1, Zenon DEF Tails
    <3>3. r[i] = yz /\ r[i - 1] = q[i - 1] \o z /\ more[i] = x
      BY <1>2, <3>1, Zenon
    <3>4. yz = y \o z
      OBVIOUS
    <3> HIDE DEF x, y, z, yz
    <3>5. q[i - 1] \o z = x \o yz
      BY ONLY SMTT(30), Zenon, <3>2, <3>4
    <3> QED BY ONLY <3>2, <3>3, <3>5
  <2> QED BY Zenon, <2>1, <2>2
<1> QED BY <1>3, <1>4, <1>5, Zenon DEF Tails

\* One part more: it comes after all that the others make.
LEMMA HeadsGrow ==
  ASSUME NEW S, NEW n \in Nat, NEW c, NEW parts, Heads(c, parts, n, S),
         NEW more, \A i \in 1..n : more[i] = parts[i], more[n + 1] \in Seq(S),
         NEW d, d = [i \in 0..(n + 1) |-> IF i = n + 1 THEN c[n] \o more[n + 1] ELSE c[i]]
  PROVE  Heads(d, more, n + 1, S)
<1>1. \A i \in 0..n : c[i] \in Seq(S) /\ d[i] = c[i]
  BY DEF Heads
<1>2. d[n + 1] = c[n] \o more[n + 1] /\ c[n] \o more[n + 1] \in Seq(S)
  <2>1. n \in 0..n /\ n + 1 \in 0..(n + 1)
    OBVIOUS
  <2>2. c[n] \in Seq(S)
    BY SMTT(30), Zenon, <1>1, <2>1
  <2>3. c[n] \o more[n + 1] \in Seq(S)
    BY ONLY <2>2, more[n + 1] \in Seq(S), Glued, Zenon
  <2>4. d[n + 1] = c[n] \o more[n + 1]
    BY <2>1, Zenon
  <2> QED BY <2>3, <2>4, Zenon
<1>3. d \in [0..(n + 1) -> Seq(S)]
  <2>1. ASSUME NEW i \in 0..(n + 1)
        PROVE  (IF i = n + 1 THEN c[n] \o more[n + 1] ELSE c[i]) \in Seq(S)
    <3>1. i = n + 1 \/ i \in 0..n
      OBVIOUS
    <3> QED BY <1>1, <1>2, <3>1, Zenon
  <2> QED BY <2>1
<1>4. d[0] = <<>>
  BY <1>1 DEF Heads
<1>5. ASSUME NEW i \in 1..(n + 1)
      PROVE  more[i] \in Seq(S) /\ d[i] = d[i - 1] \o more[i]
  <2>1. CASE i = n + 1
    <3>1. n \in 0..n /\ i - 1 = n
      BY <2>1
    <3> QED BY <1>1, <1>2, <2>1, <3>1, Zenon
  <2>2. CASE i # n + 1
    <3>1. i \in 1..n /\ i \in 0..n /\ i - 1 \in 0..n
      BY <2>2
    <3> QED BY <1>1, <3>1, Zenon DEF Heads
  <2> QED BY <2>1, <2>2, Zenon
<1> QED BY <1>2, <1>3, <1>4, <1>5, Zenon DEF Heads

\* What messages carry is what all their payloads make together.
LEMMA CarriedIs ==
  ASSUME NEW messages \in Seq(Messages), NEW c,
         Heads(c, Payloads(messages), Len(messages), Seq(Bytes))
  PROVE  Carried(messages) = c[Len(messages)]
<1> DEFINE n == Len(messages)
           Loop(f, k) == IF k = 0 THEN <<>> ELSE f[k - 1] \o Payload(messages[k])
           first == CHOOSE f : f = [k \in 0..n |-> Loop(f, k)]
<1>1. n \in Nat
  OBVIOUS
<1>2. \A i \in 1..n : c[i] = c[i - 1] \o Payload(messages[i])
  BY Zenon DEF Heads, Payloads
<1>3. c = [k \in 0..n |-> c[k]] /\ c[0] = <<>>
  BY DEF Heads
<1>4. Carried(messages) = first[n]
  BY DEF Carried
<1>5. ASSUME NEW k \in 0..n PROVE c[k] = Loop(c, k)
  <2>1. k = 0 \/ k \in 1..n
    BY <1>1
  <2> QED BY <1>2, <1>3, <2>1
<1> HIDE DEF Loop, n
<1>6. c = [k \in 0..n |-> Loop(c, k)]
  BY <1>3, <1>5
<1>7. first = [k \in 0..n |-> Loop(first, k)]
  BY <1>6, Zenon
<1> HIDE DEF first
<1> DEFINE Same == {k \in Nat : k <= n => first[k] = c[k]}
<1>8. 0 \in Same
  <2>1. 0 \in 0..n
    BY <1>1
  <2>2. first[0] = Loop(first, 0)
    BY <1>7, <2>1, Zenon
  <2> QED BY <1>3, <2>2 DEF Loop
<1>9. ASSUME NEW k \in Nat, k \in Same PROVE k + 1 \in Same
  <2> SUFFICES ASSUME k + 1 <= n PROVE first[k + 1] = c[k + 1]
    OBVIOUS
  <2>1. k + 1 \in 0..n /\ k + 1 # 0 /\ k + 1 - 1 = k /\ k <= n
    BY <1>1
  <2>2. first[k] = c[k]
    BY <1>9, <2>1
  <2>3. first[k + 1] = Loop(first, k + 1) /\ c[k + 1] = Loop(c, k + 1)
    BY <1>5, <1>7, <2>1, Zenon
  <2>4. Loop(first, k + 1) = Loop(c, k + 1)
    <3> DEFINE j == k + 1
    <3>1. j # 0 /\ first[j - 1] = c[j - 1]
      BY <2>1, <2>2
    <3> HIDE DEF j
    <3>2. Loop(first, j) = Loop(c, j)
      BY ONLY <3>1 DEF Loop
    <3> QED BY <3>2 DEF j
  <2> QED BY ONLY <2>3, <2>4
<1> HIDE DEF Same
<1>10. \A k \in Nat : k \in Same
  BY <1>8, <1>9, Induction
<1>11. first[n] = c[n]
  BY <1>1, <1>10 DEF Same
<1> QED BY <1>4, <1>11 DEF n

-----------------------------------------------------------------------------
(* The invariant *)

\* The reader has made out of the first k messages, and the bytes in its buffer
\* and on the wire are the frames of the others, up to what the peer cut off.
Progress(k, frames, payloads, carried, cut) ==
  /\ k \in 0..Len(sent)
  /\ Tails(frames, Framed(sent), Len(sent), Bytes)
  /\ Tails(payloads, Payloads(sent), Len(sent), Seq(Bytes))
  /\ Heads(carried, Payloads(sent), Len(sent), Seq(Bytes))
  /\ cut \in Seq(Bytes) /\ (~gone => cut = <<>>)
  /\ buf \o (wire \o cut) = frames[k]
  /\ out \in Seq(Seq(Bytes)) /\ out \o payloads[k] = carried[Len(sent)]

IInv ==
  /\ TypeOK
  /\ \E k, frames, payloads, carried, cut : Progress(k, frames, payloads, carried, cut)

\* The first bytes of a buffer are a length.
LEMMA LengthRead ==
  ASSUME NEW b \in Seq(Bytes), Len(b) >= 5
  PROVE  GetU32(b) \in Nat
<1>1. b[2] \in Nat /\ b[3] \in Nat /\ b[4] \in Nat /\ b[5] \in Nat /\ Base \in Nat
  <2>1. Bytes \subseteq Nat /\ Base \in Nat
    BY LengthFacts DEF Bytes
  <2>2. \A i \in 1..Len(b) : b[i] \in Bytes
    OBVIOUS
  <2>3. 2 \in 1..Len(b) /\ 3 \in 1..Len(b) /\ 4 \in 1..Len(b) /\ 5 \in 1..Len(b)
    OBVIOUS
  <2> QED BY ONLY <2>1, <2>2, <2>3, Zenon
<1>2. \A x, y \in Nat : x * Base + y \in Nat
  BY <1>1
<1>3. b[2] * Base + b[3] \in Nat
  BY SMTT(30), Zenon, <1>1, <1>2
<1>4. (b[2] * Base + b[3]) * Base + b[4] \in Nat
  BY <1>1, <1>2, <1>3, Zenon
<1>5. ((b[2] * Base + b[3]) * Base + b[4]) * Base + b[5] \in Nat
  BY <1>1, <1>2, <1>4, Zenon
<1> QED BY <1>5 DEF GetU32

\* What is in the buffer starts with the next message's frame, if one is left,
\* and next_frame sees that all of it is there just when it is.
LEMMA NextFrame ==
  ASSUME TypeOK, NEW k, NEW frames, NEW payloads, NEW carried, NEW cut,
         Progress(k, frames, payloads, carried, cut)
  PROVE  /\ k = Len(sent) => buf = <<>> /\ wire = <<>>
         /\ k # Len(sent) =>
              /\ k + 1 \in 1..Len(sent) /\ sent[k + 1] \in Messages
              /\ frames[k + 1] \in Seq(Bytes) /\ payloads[k + 1] \in Seq(Seq(Bytes))
              /\ buf \o (wire \o cut) = Encode(sent[k + 1]) \o frames[k + 1]
              /\ payloads[k] = Payload(sent[k + 1]) \o payloads[k + 1]
              /\ Len(buf) >= 5 => OuterLen = GetU32(Encode(sent[k + 1]))
<1>1. /\ buf \in Seq(Bytes) /\ wire \in Seq(Bytes) /\ cut \in Seq(Bytes)
      /\ sent \in Seq(Messages) /\ Len(sent) \in Nat
  BY DEF TypeOK, Progress
<1>2. wire \o cut \in Seq(Bytes)
  BY <1>1, Glued, Zenon
<1>3. ASSUME k = Len(sent) PROVE buf = <<>> /\ wire = <<>>
  <2>1. buf \o (wire \o cut) = <<>>
    BY <1>3 DEF Progress, Tails
  <2>2. \A s, t \in Seq(Bytes) : s \o t = <<>> => s = <<>> /\ t = <<>>
    BY ConcatSimplifications
  <2> DEFINE x == wire \o cut
  <2>3. x \in Seq(Bytes) /\ buf \o x = <<>>
    BY <1>2, <2>1
  <2> HIDE DEF x
  <2>4. buf = <<>> /\ x = <<>>
    BY ONLY <1>1, <2>2, <2>3
  <2>5. wire \o cut = <<>>
    BY <2>4 DEF x
  <2> QED BY ONLY <1>1, <2>2, <2>4, <2>5
<1>4. ASSUME k # Len(sent)
      PROVE  /\ k + 1 \in 1..Len(sent) /\ sent[k + 1] \in Messages
             /\ frames[k + 1] \in Seq(Bytes) /\ payloads[k + 1] \in Seq(Seq(Bytes))
             /\ buf \o (wire \o cut) = Encode(sent[k + 1]) \o frames[k + 1]
             /\ payloads[k] = Payload(sent[k + 1]) \o payloads[k + 1]
             /\ Len(buf) >= 5 => OuterLen = GetU32(Encode(sent[k + 1]))
  <2> DEFINE j == k + 1
             e == Encode(sent[j])
             x == wire \o cut
  <2>1. j \in 1..Len(sent) /\ j \in 0..Len(sent) /\ j - 1 = k
    BY <1>1, <1>4 DEF Progress
  <2> HIDE DEF j
  <2>2. sent[j] \in Messages
    BY <1>1, <2>1
  <2>3. /\ frames[j] \in Seq(Bytes) /\ frames[k] = e \o frames[j]
        /\ payloads[j] \in Seq(Seq(Bytes)) /\ payloads[k] = Payload(sent[j]) \o payloads[j]
    BY <2>1, Zenon DEF Progress, Tails, Framed, Payloads
  <2>4. buf \o x = e \o frames[j]
    BY <2>3 DEF Progress
  <2>5. e \in Seq(Bytes) /\ Len(e) >= 5
    <3>1. /\ e \in Seq(Bytes) /\ Len(e) = 5 + GetU32(e) /\ GetU32(e) \in Nat
      BY <2>2, FrameFacts, Zenon
    <3> QED BY <3>1
  <2> HIDE DEF e, x
  <2>6. Len(buf) >= 5 => GetU32(buf) = GetU32(e)
    BY <1>1, <1>2, <2>3, <2>4, <2>5, SameHeader, Zenon DEF x
  <2> QED BY <2>1, <2>2, <2>3, <2>4, <2>6 DEF j, e, x, OuterLen
<1> QED BY <1>3, <1>4, Zenon

\* A frame taken off the buffer is the next message's, and gives its payload.
LEMMA FrameStep ==
  ASSUME IInv, Frame PROVE IInv'
<1>1. TypeOK
  BY DEF IInv
<1>2. PICK k, frames, payloads, carried, cut : Progress(k, frames, payloads, carried, cut)
  BY DEF IInv
<1>3. /\ buf \in Seq(Bytes) /\ wire \in Seq(Bytes) /\ cut \in Seq(Bytes)
      /\ Len(buf) \in Nat /\ Len(sent) \in Nat
  BY <1>1, <1>2 DEF TypeOK, Progress
<1>4. k # Len(sent)
  <2>1. buf # <<>>
    BY <1>3 DEF Frame, Complete
  <2> QED BY <1>1, <1>2, <2>1, NextFrame, Zenon
<1> DEFINE j == k + 1
           m == sent[k + 1]
           e == Encode(m)
           x == wire \o cut
           r == SubSeq(buf, Len(e) + 1, Len(buf))
<1>5. /\ j \in 1..Len(sent) /\ m \in Messages
      /\ frames[j] \in Seq(Bytes) /\ payloads[j] \in Seq(Seq(Bytes))
      /\ buf \o x = e \o frames[j]
      /\ payloads[k] = Payload(m) \o payloads[j]
      /\ Len(buf) >= 5 => OuterLen = GetU32(e)
  BY <1>1, <1>2, <1>4, NextFrame, Zenon
<1>6. x \in Seq(Bytes)
  BY <1>3, Glued, Zenon
<1>7. /\ e \in Seq(Bytes) /\ Len(e) = 5 + GetU32(e) /\ GetU32(e) \in Nat
      /\ DecodeGunPayload(SubSeq(e, 6, Len(e))) = Payload(m)
  BY <1>5, FrameFacts, Zenon
<1>8. Payload(m) \in Seq(Seq(Bytes))
  BY <1>5, FramingAssumption DEF Payload
<1>9. x = wire \o cut
  OBVIOUS
<1> HIDE DEF j, m, e, x
<1>10. FrameLen = Len(e) /\ Len(e) <= Len(buf)
  BY <1>3, <1>5, <1>7 DEF Frame, Complete, FrameLen
<1>11. r \in Seq(Bytes) /\ buf = e \o r /\ r \o x = frames[j]
  <2>1. /\ buf \in Seq(Bytes) /\ x \in Seq(Bytes) /\ e \in Seq(Bytes) /\ frames[j] \in Seq(Bytes)
        /\ buf \o x = e \o frames[j] /\ Len(e) <= Len(buf)
        /\ r = SubSeq(buf, Len(e) + 1, Len(buf))
    BY <1>3, <1>5, <1>6, <1>7, <1>10
  <2> HIDE DEF r
  <2>2. TwoWays(Bytes, buf, x, e, frames[j], r)
    BY ONLY <2>1 DEF TwoWays
  <2> QED BY ONLY SMTT(30), <2>2, TakeOff
<1>12. buf' = r
  BY <1>10 DEF Frame
<1> HIDE DEF r
<1>13. SubSeq(buf, 6, Len(e)) = SubSeq(e, 6, Len(e))
  <2>1. CASE Len(e) >= 6
    <3>1. 6 \in 1..Len(e) /\ Len(e) \in 1..Len(e)
      BY <1>7, <2>1
    <3>2. SubSeq(e \o r, 6, Len(e)) = SubSeq(e, 6, Len(e))
      BY SMTT(30), Zenon, <1>7, <1>11, <3>1, SubSeqOfConcat1
    <3> QED BY ONLY <1>11, <3>2
  <2>2. CASE ~(Len(e) >= 6)
    <3>1. 6 \in Int /\ Len(e) \in Int /\ Len(e) < 6
      BY <1>7, <2>2
    <3> QED BY <3>1, SubSeqEmpty
  <2> QED BY <2>1, <2>2
<1>14. out' = out \o Payload(m)
  BY <1>7, <1>10, <1>13, Zenon DEF Frame
<1>15. out' \in Seq(Seq(Bytes)) /\ out' \o payloads[j] = carried[Len(sent)]
  <2>1. out \in Seq(Seq(Bytes)) /\ out \o payloads[k] = carried[Len(sent)]
    BY <1>2 DEF Progress
  <2>2. out' \o payloads[j] = out \o payloads[k]
    <3> DEFINE o == out'
               p == Payload(m)
               a == payloads[j]
               b == payloads[k]
    <3>1. /\ out \in Seq(Seq(Bytes)) /\ p \in Seq(Seq(Bytes)) /\ a \in Seq(Seq(Bytes))
          /\ o = out \o p /\ b = p \o a
      BY <1>5, <1>8, <1>14, <2>1
    <3> HIDE DEF o, p, a, b
    <3>2. o \o a = out \o b
      BY ONLY SMTT(30), <3>1
    <3> QED BY <3>2 DEF o, a, b
  <2>3. out \o Payload(m) \in Seq(Seq(Bytes))
    BY <1>8, <2>1, Glued, Zenon
  <2> QED BY ONLY <1>14, <2>1, <2>2, <2>3
<1>16. Progress(j, frames, payloads, carried, cut)'
  <2>1. UNCHANGED <<sent, wire, gone, pc>>
    BY DEF Frame
  <2>2. j \in 0..Len(sent)
    BY <1>3, <1>5
  <2>3. buf' \o (wire' \o cut) = frames[j]
    BY <1>9, <1>11, <1>12, <2>1
  <2> QED BY <1>2, <1>15, <2>1, <2>2, <2>3 DEF Progress, Framed, Payloads
<1>17. TypeOK'
  <2>1. Len(r) <= Len(buf) /\ Len(r) \in Nat
    <3>1. Len(e \o r) = Len(e) + Len(r)
      BY <1>7, <1>11, Glued, Zenon
    <3> QED BY <1>7, <1>11, <3>1
  <2>2. Len(buf) < 5 + MaxFrame + MaxChunk /\ MaxFrame \in Nat /\ MaxChunk \in Nat
    BY <1>1, FramingAssumption DEF TypeOK
  <2>3. Len(r) < 5 + MaxFrame + MaxChunk
    BY ONLY <1>3, <2>1, <2>2
  <2> QED BY <1>1, <1>11, <1>12, <2>3, Zenon DEF TypeOK, Frame
<1> QED BY <1>16, <1>17 DEF IInv

\* A chunk moves bytes from the wire to the buffer: none is lost or reordered,
\* and the buffer that waits for it holds less than a frame.
LEMMA ChunkStep ==
  ASSUME IInv, NEW n \in 1..MaxChunk, Chunk(n) PROVE IInv'
<1>1. TypeOK
  BY DEF IInv
<1>2. PICK k, frames, payloads, carried, cut : Progress(k, frames, payloads, carried, cut)
  BY DEF IInv
<1>3. /\ buf \in Seq(Bytes) /\ wire \in Seq(Bytes) /\ cut \in Seq(Bytes)
      /\ Len(buf) \in Nat /\ Len(wire) \in Nat
  BY <1>1, <1>2 DEF TypeOK, Progress
<1>4. MaxChunk \in Nat /\ MaxFrame \in Nat /\ n \in Nat /\ n <= MaxChunk
  BY FramingAssumption
<1> DEFINE a == SubSeq(wire, 1, n)
           b == SubSeq(wire, n + 1, Len(wire))
<1>5. a \in Seq(Bytes) /\ Len(a) = n /\ b \in Seq(Bytes) /\ wire = a \o b
  <2>1. n \in 0..Len(wire)
    BY <1>3, <1>4 DEF Chunk
  <2> QED BY <1>3, <2>1, CutInTwo, Zenon
<1>6. buf' = buf \o a /\ wire' = b
  BY DEF Chunk
<1> HIDE DEF a, b
<1>7. buf' \in Seq(Bytes) /\ Len(buf') = Len(buf) + n
  <2>1. buf \o a \in Seq(Bytes) /\ Len(buf \o a) = Len(buf) + Len(a)
    BY <1>3, <1>5, Glued, Zenon
  <2> QED BY ONLY <1>5, <1>6, <2>1
<1>8. Len(buf) < 5 + MaxFrame
  <2>1. CASE Len(buf) < 5
    BY ONLY <1>3, <1>4, <2>1
  <2>2. CASE Len(buf) >= 5
    <3>1. OuterLen \in Nat
      BY <1>3, <2>2, LengthRead DEF OuterLen
    <3>2. ~(OuterLen > MaxFrame) /\ ~(Len(buf) >= 5 + OuterLen)
      BY <2>2 DEF Chunk, TooLarge, Complete
    <3> QED BY ONLY <1>3, <1>4, <3>1, <3>2
  <2> QED BY ONLY <1>3, <2>1, <2>2
<1>9. TypeOK'
  <2>1. Len(buf') < 5 + MaxFrame + MaxChunk
    BY ONLY <1>3, <1>4, <1>7, <1>8
  <2> QED BY Zenon, <1>1, <1>5, <1>6, <1>7, <2>1 DEF TypeOK, Chunk
<1>10. buf' \o (wire' \o cut) = buf \o (wire \o cut)
  <2> DEFINE w == wire \o cut
             v == b \o cut
             f == buf \o a
  <2>1. w = wire \o cut /\ v = b \o cut /\ f = buf \o a /\ v \in Seq(Bytes)
    BY <1>3, <1>5, Glued
  <2>2. buf' \o (wire' \o cut) = f \o v
    BY <1>6
  <2> HIDE DEF w, v, f
  <2>3. Groups(Bytes, a, b, cut, wire, v) /\ Groups(Bytes, buf, a, v, f, w)
    <3>1. Groups(Bytes, a, b, cut, wire, v)
      BY <1>3, <1>5, <2>1 DEF Groups
    <3>2. wire \o cut = a \o v
      BY ONLY SMTT(30), <3>1, Regroup
    <3> QED BY <1>3, <1>5, <2>1, <3>1, <3>2 DEF Groups
  <2>4. f \o v = buf \o w
    BY ONLY SMTT(30), Zenon, <2>3, Regroup
  <2> QED BY ONLY <2>1, <2>2, <2>4
<1>11. Progress(k, frames, payloads, carried, cut)'
  <2>1. UNCHANGED <<sent, gone, out, pc>>
    BY DEF Chunk
  <2> QED BY <1>2, <1>10, <2>1 DEF Progress, Framed, Payloads
<1> QED BY <1>9, <1>11 DEF IInv

\* What the peer cuts off when it ends the stream is the end of the frames.
LEMMA FinishStep ==
  ASSUME IInv, Finish PROVE IInv'
<1>1. TypeOK
  BY DEF IInv
<1>2. PICK k, frames, payloads, carried, cut : Progress(k, frames, payloads, carried, cut)
  BY DEF IInv
<1>3. /\ buf \in Seq(Bytes) /\ wire \in Seq(Bytes) /\ cut = <<>>
  BY <1>1, <1>2 DEF TypeOK, Progress, Finish
<1>4. PICK n \in 0..Len(wire) : wire' = SubSeq(wire, 1, n)
  BY DEF Finish
<1>5. PICK a, b : a \in Seq(Bytes) /\ b \in Seq(Bytes) /\ wire = a \o b /\ wire' = a
  <2>1. /\ SubSeq(wire, 1, n) \in Seq(Bytes) /\ SubSeq(wire, n + 1, Len(wire)) \in Seq(Bytes)
        /\ wire = SubSeq(wire, 1, n) \o SubSeq(wire, n + 1, Len(wire))
    BY <1>3, <1>4, CutInTwo, Zenon
  <2> QED BY <1>4, <2>1, Zenon
<1>7. wire' \o b = wire \o cut
  <2>1. wire \o <<>> = wire
    BY <1>3, ConcatEmptySeq
  <2> QED BY ONLY <1>3, <1>5, <2>1
<1>8. TypeOK'
  BY <1>1, <1>5 DEF TypeOK, Finish
<1>9. Progress(k, frames, payloads, carried, b)'
  <2>1. UNCHANGED <<sent, buf, out, pc>> /\ gone'
    BY DEF Finish
  <2>2. buf' \o (wire' \o b) = buf \o (wire \o cut)
    BY ONLY <1>7, <2>1
  <2> QED BY <1>2, <1>5, <2>1, <2>2, Zenon DEF Progress, Framed, Payloads
<1> QED BY <1>8, <1>9 DEF IInv

\* A message that is written comes after all that was written before.
LEMMA SendStep ==
  ASSUME IInv, NEW m \in Messages, Send(m) PROVE IInv'
<1>1. TypeOK
  BY DEF IInv
<1>2. PICK k, frames, payloads, carried, cut : Progress(k, frames, payloads, carried, cut)
  BY DEF IInv
<1> DEFINE e == Encode(m)
           p == Payload(m)
<1>0. PICK n : n = Len(sent)
  BY Zenon
<1>3. /\ buf \in Seq(Bytes) /\ wire \in Seq(Bytes) /\ cut = <<>> /\ sent \in Seq(Messages)
      /\ n \in Nat /\ k \in 0..n
  BY <1>0, <1>1, <1>2 DEF TypeOK, Progress, Send
<1>4. e \in Seq(Bytes)
  BY FrameFacts, Zenon
<1>5. p \in Seq(Seq(Bytes))
  BY FramingAssumption DEF Payload
<1>6. sent' = Append(sent, m) /\ wire' = wire \o e
  BY DEF Send
<1>7. /\ sent' \in Seq(Messages) /\ Len(sent') = n + 1
      /\ \A i \in 1..n : sent'[i] = sent[i]
      /\ sent'[n + 1] = m
  BY <1>0, <1>3, <1>6
<1>8. /\ \A i \in 1..n : Framed(sent')[i] = Framed(sent)[i]
      /\ Framed(sent')[n + 1] = e
  BY <1>0, <1>3, <1>7 DEF Framed
<1>9. /\ \A i \in 1..n : Payloads(sent')[i] = Payloads(sent)[i]
      /\ Payloads(sent')[n + 1] = p
  BY <1>0, <1>3, <1>7 DEF Payloads
<1> HIDE DEF e, p
<1> DEFINE fr == [i \in 0..(n + 1) |-> IF i = n + 1 THEN <<>> ELSE frames[i] \o e]
           pa == [i \in 0..(n + 1) |-> IF i = n + 1 THEN <<>> ELSE payloads[i] \o p]
           ca == [i \in 0..(n + 1) |-> IF i = n + 1 THEN carried[n] \o p ELSE carried[i]]
<1>10. Tails(fr, Framed(sent'), n + 1, Bytes)
  <2>1. Tails(frames, Framed(sent), n, Bytes)
    BY <1>0, <1>2 DEF Progress
  <2> QED BY <1>3, <1>4, <1>8, <2>1, TailsGrow, Zenon
<1>11. Tails(pa, Payloads(sent'), n + 1, Seq(Bytes))
  <2>1. Tails(payloads, Payloads(sent), n, Seq(Bytes))
    BY <1>0, <1>2 DEF Progress
  <2> QED BY <1>3, <1>5, <1>9, <2>1, TailsGrow, Zenon
<1>12. Heads(ca, Payloads(sent'), n + 1, Seq(Bytes)) /\ ca[n + 1] = carried[n] \o p
  <2>1. Heads(carried, Payloads(sent), n, Seq(Bytes))
    BY <1>0, <1>2 DEF Progress
  <2>2. Heads(ca, Payloads(sent'), n + 1, Seq(Bytes))
    BY <1>3, <1>5, <1>9, <2>1, HeadsGrow, Zenon
  <2>3. ca[n + 1] = carried[n] \o p
    BY SMTT(30), Zenon, <1>3
  <2> QED BY <2>2, <2>3, Zenon
<1>13. fr[k] = frames[k] \o e /\ pa[k] = payloads[k] \o p
  <2>1. k \in 0..(n + 1) /\ k # n + 1
    BY <1>3
  <2> QED BY <2>1, Zenon
<1>14. frames[k] \in Seq(Bytes) /\ payloads[k] \in Seq(Seq(Bytes))
  BY <1>0, <1>2, <1>3, Zenon DEF Progress, Tails
<1> HIDE DEF fr, pa, ca
<1>15. buf' \o (wire' \o cut) = fr[k]
  <2>1. wire \o <<>> = wire
    BY <1>3, ConcatEmptySeq
  <2> DEFINE w == wire \o e
  <2>2. w = wire \o e /\ w \in Seq(Bytes)
    BY <1>3, <1>4, Glued
  <2>3. w \o <<>> = w /\ w = wire' /\ buf' = buf
    BY <1>6, <2>2, ConcatEmptySeq DEF Send
  <2> HIDE DEF w
  <2>4. buf \o wire = frames[k]
    BY Zenon, <1>2, <1>3, <2>1 DEF Progress
  <2> DEFINE g == frames[k]
  <2>5. g = buf \o wire /\ fr[k] = g \o e
    BY <1>13, <2>4
  <2> HIDE DEF g
  <2>6. buf \o w = g \o e
    BY ONLY SMTT(30), <1>3, <1>4, <2>2, <2>5
  <2> QED BY ONLY Zenon, <1>3, <2>3, <2>5, <2>6
<1>16. out' \o pa[k] = ca[n + 1]
  <2> DEFINE x == payloads[k]
             y == carried[n]
             z == pa[k]
  <2>1. /\ out \in Seq(Seq(Bytes)) /\ x \in Seq(Seq(Bytes)) /\ z = x \o p /\ out \o x = y
        /\ out' = out
    BY <1>0, <1>2, <1>13, <1>14 DEF Progress, Send
  <2> HIDE DEF x, y, z
  <2>2. Groups(Seq(Bytes), out, x, p, y, z)
    BY <1>5, <2>1 DEF Groups
  <2>3. y \o p = out \o z
    BY ONLY <2>2, Regroup
  <2> QED BY <1>12, <2>1, <2>3 DEF y, z
<1>17. TypeOK'
  <2>1. wire \o e \in Seq(Bytes)
    BY <1>3, <1>4, Glued, Zenon
  <2> QED BY <1>1, <1>6, <1>7, <2>1 DEF TypeOK, Send
<1>18. Progress(k, fr, pa, ca, cut)'
  <2>1. k \in 0..(n + 1)
    BY <1>3
  <2>2. UNCHANGED <<gone, buf, out, pc>>
    BY DEF Send
  <2> QED BY SMTT(30), Zenon, <1>2, <1>7, <1>10, <1>11, <1>12, <1>15, <1>16, <2>1, <2>2 DEF Progress
<1> QED BY <1>17, <1>18 DEF IInv

\* The reader and the peer keep to the invariant: at every moment the bytes in
\* GrpcFrameReader::buf and on the wire are the frames of the messages that the
\* reader has not delivered, up to what the peer cut off at the end.
THEOREM Invariance == Spec => []IInv
<1>1. Init => IInv
  <2> SUFFICES ASSUME Init PROVE IInv
    OBVIOUS
  <2> DEFINE one == [i \in 0..0 |-> <<>>]
  <2>1. Len(sent) = 0 /\ one[0] = <<>>
    BY DEF Init
  <2>2. /\ one \in [0..0 -> Seq(Bytes)] /\ one \in [0..0 -> Seq(Seq(Bytes))]
    OBVIOUS
  <2> HIDE DEF one
  <2>3. /\ Tails(one, Framed(sent), Len(sent), Bytes)
        /\ Tails(one, Payloads(sent), Len(sent), Seq(Bytes))
        /\ Heads(one, Payloads(sent), Len(sent), Seq(Bytes))
    BY <2>1, <2>2 DEF Tails, Heads
  <2>4. Progress(0, one, one, one, <<>>)
    <3>1. /\ buf = <<>> /\ wire = <<>> /\ out = <<>>
      BY DEF Init
    <3>2. <<>> \o (<<>> \o <<>>) = <<>> /\ <<>> \o <<>> = <<>>
      OBVIOUS
    <3>3. 0 \in 0..Len(sent) /\ <<>> \in Seq(Bytes) /\ <<>> \in Seq(Seq(Bytes))
      BY <2>1
    <3> QED BY <2>1, <2>3, <3>1, <3>2, <3>3 DEF Progress
  <2>5. TypeOK
    <3>1. Len(<<>>) = 0 /\ 0 < 5 + MaxFrame + MaxChunk
      BY FramingAssumption
    <3>2. /\ sent = <<>> /\ wire = <<>> /\ buf = <<>> /\ gone \in BOOLEAN
          /\ pc \in {"read", "end", "err"}
      BY Zenon DEF Init
    <3>3. <<>> \in Seq(Messages) /\ <<>> \in Seq(Bytes)
      OBVIOUS
    <3> QED BY ONLY <3>1, <3>2, <3>3, Zenon DEF TypeOK
  <2> QED BY <2>4, <2>5 DEF IInv
<1>2. IInv /\ [Next]_vars => IInv'
  <2> SUFFICES ASSUME IInv, [Next]_vars PROVE IInv'
    OBVIOUS
  <2>1. ASSUME UNCHANGED <<sent, wire, gone, buf, out>>, pc' \in {"read", "end", "err"}
        PROVE  IInv'
    <3>1. TypeOK'
      BY <2>1 DEF IInv, TypeOK
    <3>2. PICK k, frames, payloads, carried, cut : Progress(k, frames, payloads, carried, cut)
      BY DEF IInv
    <3>3. Progress(k, frames, payloads, carried, cut)'
      BY <2>1, <3>2 DEF Progress, Framed, Payloads
    <3> QED BY <3>1, <3>3 DEF IInv
  <2>2. CASE Frame
    BY <2>2, FrameStep
  <2>3. CASE Oversized
    BY <2>1, <2>3 DEF Oversized
  <2>4. CASE EndOfStream
    BY <2>1, <2>4 DEF EndOfStream
  <2>5. CASE Finish
    BY <2>5, FinishStep
  <2>6. ASSUME NEW n \in 1..MaxChunk, Chunk(n) PROVE IInv'
    BY <2>6, ChunkStep
  <2>7. ASSUME NEW m \in Messages, Send(m) PROVE IInv'
    BY <2>7, SendStep
  <2>8. CASE UNCHANGED vars
    BY <2>1, <2>8 DEF vars, IInv, TypeOK
  <2> QED BY <2>2, <2>3, <2>4, <2>5, <2>6, <2>7, <2>8 DEF Next
<1> QED BY <1>1, <1>2, PTL DEF Spec

\* Variables keep their types and GrpcFrameReader never buffers more than the
\* largest frame it accepts and one chunk, however large the announced frames.
THEOREM TypeCorrect == Spec => []TypeOK
<1>1. IInv => TypeOK
  BY DEF IInv
<1> QED BY <1>1, Invariance, PTL

\* Wherever HTTP/2 cuts the stream and wherever it ends, what the reader has
\* delivered is a prefix of what the messages carry.
THEOREM StreamsAreReassembled == Spec => []Reassembled
<1>1. IInv => Reassembled
  <2> SUFFICES ASSUME IInv PROVE Reassembled
    OBVIOUS
  <2>1. PICK k, frames, payloads, carried, cut : Progress(k, frames, payloads, carried, cut)
    BY DEF IInv
  <2> DEFINE a == payloads[k]
             c == carried[Len(sent)]
  <2>2. Carried(sent) = c
    BY <2>1, CarriedIs DEF IInv, TypeOK, Progress
  <2>3. out \in Seq(Seq(Bytes)) /\ a \in Seq(Seq(Bytes)) /\ c = out \o a
    BY <2>1, Zenon DEF Progress, Tails
  <2> HIDE DEF a, c
  <2>4. Len(c) = Len(out) + Len(a) /\ Len(out) \in Nat /\ Len(a) \in Nat
    BY <2>3, Glued
  <2>5. SubSeq(c, 1, Len(out)) = out
    <3>1. CASE Len(out) = 0
      <4>1. \A s : SubSeq(s, 1, 0) = <<>>
        BY SubSeqEmpty
      <4>2. out = <<>>
        BY <2>3, <3>1
      <4> QED BY <3>1, <4>1, <4>2
    <3>2. CASE Len(out) # 0
      <4>1. 1 \in 1..Len(out) /\ Len(out) \in 1..Len(out)
        BY <2>4, <3>2
      <4>2. SubSeq(out \o a, 1, Len(out)) = SubSeq(out, 1, Len(out))
        BY <2>3, <4>1, SubSeqOfConcat1
      <4>3. SubSeq(out, 1, Len(out)) = out
        BY <2>3, SubSeqFull
      <4> QED BY ONLY <2>3, <4>2, <4>3
    <3> QED BY <3>1, <3>2
  <2>6. Len(out) \in 0..Len(c)
    BY ONLY <2>4
  <2> QED BY ZenonT(30), <2>2, <2>5, <2>6 DEF Reassembled
<1> QED BY <1>1, Invariance, PTL

\* A reader that waits for the network, with nothing on its way, has delivered
\* the data of every message: no whole frame stays in the buffer.
THEOREM WholeFramesAreDelivered == Spec => []NothingHeldBack
<1>1. IInv => NothingHeldBack
  <2> SUFFICES ASSUME IInv, ~TooLarge, ~Complete, wire = <<>>, ~gone
               PROVE  out = Carried(sent)
    BY DEF NothingHeldBack
  <2>1. PICK k, frames, payloads, carried, cut : Progress(k, frames, payloads, carried, cut)
    BY DEF IInv
  <2>2. buf \in Seq(Bytes) /\ cut = <<>>
    BY <2>1 DEF IInv, TypeOK, Progress
  <2>3. TypeOK
    BY DEF IInv
  <2>4. buf \o (wire \o cut) = buf
    <3>1. <<>> \o <<>> = <<>> /\ buf \o <<>> = buf
      BY <2>2
    <3> QED BY ONLY <2>2, <3>1, wire = <<>>
  <2>5. k = Len(sent)
    <3> SUFFICES ASSUME k # Len(sent) PROVE FALSE
      OBVIOUS
    <3> DEFINE m == sent[k + 1]
               e == Encode(m)
               y == frames[k + 1]
    <3>1. /\ k + 1 \in 1..Len(sent) /\ m \in Messages
          /\ y \in Seq(Bytes) /\ payloads[k + 1] \in Seq(Seq(Bytes))
          /\ buf \o (wire \o cut) = e \o y
          /\ payloads[k] = Payload(m) \o payloads[k + 1]
          /\ Len(buf) >= 5 => OuterLen = GetU32(e)
      BY ONLY <2>1, <2>3, k # Len(sent), NextFrame, Zenon
    <3>2. e \in Seq(Bytes) /\ Len(e) = 5 + GetU32(e) /\ GetU32(e) \in Nat
      BY <3>1, FrameFacts, Zenon
    <3> HIDE DEF m, e, y
    <3>3. Len(e \o y) = Len(e) + Len(y) /\ Len(y) \in Nat
      <4>1. y \in Seq(Bytes) /\ e \in Seq(Bytes)
        BY <3>1, <3>2
      <4> QED BY ONLY <4>1, Glued
    <3>4. Len(buf) = Len(e) + Len(y)
      BY ONLY <2>4, <3>1, <3>3
    <3>5. Len(buf) >= 5 /\ Len(buf) >= 5 + GetU32(e)
      BY ONLY <3>2, <3>3, <3>4
    <3> QED BY <3>1, <3>5 DEF Complete
  <2>6. out \o <<>> = carried[Len(sent)] /\ out \in Seq(Seq(Bytes))
    BY <2>1, <2>5, Zenon DEF Progress, Tails
  <2>7. out \o <<>> = out
    BY <2>6
  <2>8. Carried(sent) = carried[Len(sent)]
    BY <2>1, <2>3, CarriedIs DEF TypeOK, Progress
  <2> QED BY ONLY <2>6, <2>7, <2>8
<1> QED BY <1>1, Invariance, PTL
=============================================================================

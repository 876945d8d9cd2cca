-------------------------- MODULE BucketIndexProofs --------------------------
(***************************************************************************)
(* Proofs about the index arithmetic, for every hashpower, hash and tag.   *)
(* What a recursive function computes is proved by induction, which is     *)
(* stated for sets, in first-order form, and follows from the principle    *)
(* of the least element (WFMin).                                           *)
(***************************************************************************)
EXTENDS BucketIndex, TLAPS, WellFoundedInduction

(***************************************************************************)
(* Induction, and the existence of what a recursive function defines.      *)
(***************************************************************************)
LEMMA SetInduction ==
  ASSUME NEW S, 0 \in S, \A n \in Nat : n \in S => n + 1 \in S
  PROVE  \A n \in Nat : n \in S
  <1> SUFFICES ASSUME \E n \in Nat : n \notin S PROVE FALSE
    OBVIOUS
  <1>. DEFINE T == {n \in Nat : n \notin S}
  <1>1. T # {} /\ T \subseteq Nat
    OBVIOUS
  <1>. HIDE DEF T
  <1>2. PICK m \in T : \A y \in T : ~(<<y, m>> \in OpToRel(<, Nat))
    BY <1>1, WFMin, NatLessThanWellFounded
  <1>3. \A y \in T : ~(y < m)
    BY <1>1, <1>2 DEF OpToRel
  <1>4. m \in Nat /\ m \notin S
    BY <1>2 DEF T
  <1>5. m # 0
    BY <1>4
  <1>6. m - 1 \in Nat /\ m - 1 \in S
    BY <1>3, <1>4, <1>5 DEF T
  <1>. QED
    BY <1>4, <1>6

\* f is what iterating a step from c defines, on the naturals.
Iterates(f, S, c, step) ==
  /\ f \in [Nat -> S]
  /\ f[0] = c
  /\ \A n \in Nat : f[n + 1] = step[n][f[n]]

LEMMA Iteration ==
  ASSUME NEW S, NEW c \in S, NEW step \in [Nat -> [S -> S]]
  PROVE  \E f : Iterates(f, S, c, step)
  <1>. DEFINE Upto(n, g) == /\ g \in [0 .. n -> S]
                            /\ g[0] = c
                            /\ \A i \in 0 .. n - 1 : g[i + 1] = step[i][g[i]]
              T == {n \in Nat : \E g : Upto(n, g)}
  <1>1. \A n \in Nat : n \in T
    <2>1. 0 \in T
      <3>1. Upto(0, [i \in 0 .. 0 |-> c])
        OBVIOUS
      <3>. QED BY <3>1
    <2>2. ASSUME NEW n \in Nat, n \in T PROVE n + 1 \in T
      <3>1. PICK g : Upto(n, g)
        BY <2>2
      <3>. DEFINE h == [i \in 0 .. n + 1 |-> IF i = n + 1 THEN step[n][g[n]] ELSE g[i]]
      <3>2. Upto(n + 1, h)
        <4>1. h \in [0 .. n + 1 -> S]
          BY <3>1
        <4>2. h[0] = c
          BY <3>1
        <4>3. ASSUME NEW i \in 0 .. n + 1 - 1 PROVE h[i + 1] = step[i][h[i]]
          <5>1. CASE i = n
            BY <5>1
          <5>2. CASE i # n
            BY <5>2, <3>1
          <5>. QED BY <5>1, <5>2
        <4>. HIDE DEF h
        <4>. QED BY <4>1, <4>2, <4>3
      <3>. HIDE DEF h, Upto
      <3>. QED BY <3>2
    <2>. HIDE DEF T
    <2>. QED BY <2>1, <2>2, SetInduction
  <1>2. ASSUME NEW n \in Nat, NEW g, NEW h, Upto(n, g), Upto(n + 1, h)
        PROVE  \A i \in 0 .. n : g[i] = h[i]
    <2>. DEFINE U == {i \in Nat : i <= n => g[i] = h[i]}
    <2>1. 0 \in U
      BY <1>2
    <2>2. ASSUME NEW i \in Nat, i \in U PROVE i + 1 \in U
      <3> SUFFICES ASSUME i + 1 <= n PROVE g[i + 1] = h[i + 1]
        OBVIOUS
      <3>1. i \in 0 .. n - 1 /\ i \in 0 .. n + 1 - 1
        OBVIOUS
      <3>2. g[i + 1] = step[i][g[i]] /\ h[i + 1] = step[i][h[i]]
        BY <3>1, <1>2
      <3>. QED BY <3>2, <2>2
    <2>. HIDE DEF U
    <2>3. \A i \in Nat : i \in U
      BY <2>1, <2>2, SetInduction
    <2>. QED BY <2>3 DEF U
  <1>. DEFINE G(n) == CHOOSE g : Upto(n, g)
              f == [n \in Nat |-> G(n)[n]]
  <1>3. \A n \in Nat : Upto(n, G(n))
    BY <1>1
  <1>. HIDE DEF G, Upto
  <1>4. f \in [Nat -> S]
    <2> SUFFICES ASSUME NEW n \in Nat PROVE G(n)[n] \in S
      OBVIOUS
    <2>1. Upto(n, G(n)) /\ n \in 0 .. n
      BY <1>3
    <2>. QED BY <2>1 DEF Upto
  <1>5. f[0] = c
    <2>1. Upto(0, G(0))
      BY <1>3
    <2>. QED BY <2>1 DEF Upto
  <1>6. ASSUME NEW n \in Nat PROVE f[n + 1] = step[n][f[n]]
    <2>1. Upto(n, G(n)) /\ Upto(n + 1, G(n + 1))
      BY <1>3
    <2>2. G(n)[n] = G(n + 1)[n]
      BY <1>2, <2>1
    <2>3. G(n + 1)[n + 1] = step[n][G(n + 1)[n]]
      BY <2>1 DEF Upto
    <2>. QED BY <2>2, <2>3
  <1>. HIDE DEF f
  <1>. QED BY <1>4, <1>5, <1>6 DEF Iterates

\* The same up to a bound, in the form of a recursive definition.
Recurs(f, S, N, c, g) ==
  /\ f \in [0 .. N -> S]
  /\ f = [n \in 0 .. N |-> IF n = 0 THEN c ELSE g[n][f[n - 1]]]

LEMMA BoundedRecursion ==
  ASSUME NEW S, NEW N \in Nat, NEW c \in S, NEW g \in [1 .. N -> [S -> S]]
  PROVE  \E f : Recurs(f, S, N, c, g)
  <1>. DEFINE step == [n \in Nat |-> IF n < N THEN g[n + 1] ELSE [x \in S |-> x]]
  <1>1. step \in [Nat -> [S -> S]]
    OBVIOUS
  <1>2. \A n \in Nat : n < N => step[n] = g[n + 1]
    OBVIOUS
  <1>. HIDE DEF step
  <1>3. PICK h : Iterates(h, S, c, step)
    BY <1>1, Iteration, Zenon
  <1>4. h \in [Nat -> S] /\ h[0] = c /\ \A n \in Nat : h[n + 1] = step[n][h[n]]
    BY <1>3 DEF Iterates
  <1>. DEFINE f == [n \in 0 .. N |-> h[n]]
  <1>5. f \in [0 .. N -> S] /\ f = [n \in 0 .. N |-> f[n]]
    BY <1>4
  <1>6. f[0] = c
    BY <1>4
  <1>7. ASSUME NEW n \in 0 .. N, n # 0 PROVE f[n] = g[n][f[n - 1]]
    <2>. DEFINE m == n - 1
    <2>1. m \in Nat /\ m < N /\ n = m + 1 /\ m \in 0 .. N
      BY <1>7
    <2>2. f[n] = h[n] /\ f[m] = h[m]
      BY <2>1
    <2>. HIDE DEF m, f
    <2>3. h[m + 1] = g[m + 1][h[m]]
      BY <1>2, <1>4, <2>1
    <2>. QED BY <2>1, <2>2, <2>3 DEF m
  <1>. HIDE DEF f
  <1>8. f = [n \in 0 .. N |-> IF n = 0 THEN c ELSE g[n][f[n - 1]]]
    BY <1>5, <1>6, <1>7
  <1>. QED BY <1>5, <1>8 DEF Recurs

-----------------------------------------------------------------------------
(***************************************************************************)
(* Powers of two.                                                          *)
(***************************************************************************)
LEMMA ShlDef == shl \in [Nat -> Nat]
                /\ shl = [n \in Nat |-> IF n = 0 THEN 1 ELSE 2 * shl[n - 1]]
  <1>. DEFINE step == [n \in Nat |-> [x \in Nat |-> 2 * x]]
  <1>1. step \in [Nat -> [Nat -> Nat]] /\ 1 \in Nat
    OBVIOUS
  <1>2. \A n, x \in Nat : step[n][x] = 2 * x
    OBVIOUS
  <1>. HIDE DEF step
  <1>0. PICK f : Iterates(f, Nat, 1, step)
    BY <1>1, Iteration, Zenon
  <1>3. f \in [Nat -> Nat] /\ f[0] = 1 /\ \A n \in Nat : f[n + 1] = step[n][f[n]]
    BY <1>0 DEF Iterates
  <1>5. ASSUME NEW n \in Nat, n # 0 PROVE n - 1 \in Nat /\ f[n] = 2 * f[n - 1]
    <2>. DEFINE m == n - 1
    <2>1. m \in Nat /\ n = m + 1
      BY <1>5
    <2>2. f[m] \in Nat
      BY <1>3, <2>1
    <2>. HIDE DEF m
    <2>3. f[m + 1] = 2 * f[m]
      BY <1>2, <1>3, <2>1, <2>2
    <2>. QED BY <2>1, <2>3 DEF m
  <1>6. f = [n \in Nat |-> IF n = 0 THEN 1 ELSE 2 * f[n - 1]]
    BY <1>3, <1>5
  <1>4. shl = [n \in Nat |-> IF n = 0 THEN 1 ELSE 2 * shl[n - 1]]
    BY <1>6 DEF shl
  <1>7. \A n \in Nat : shl[n] \in Nat
    <2>. DEFINE T == {n \in Nat : shl[n] \in Nat}
    <2>1. 0 \in T
      BY <1>4
    <2>2. ASSUME NEW n \in Nat, n \in T PROVE n + 1 \in T
      BY <1>4, <2>2
    <2>. HIDE DEF T
    <2>3. \A n \in Nat : n \in T
      BY <2>1, <2>2, SetInduction
    <2>. QED BY <2>3 DEF T
  <1>. QED BY <1>4, <1>7

LEMMA Hashsize ==
  /\ hashsize(0) = 1
  /\ \A n \in Nat : hashsize(n) \in Nat \ {0} /\ hashsize(n + 1) = 2 * hashsize(n)
  <1>1. hashsize(0) = 1
    BY ShlDef DEF hashsize
  <1>2. \A n \in Nat : hashsize(n) \in Nat /\ hashsize(n + 1) = 2 * hashsize(n)
    BY ShlDef DEF hashsize
  <1>. DEFINE T == {n \in Nat : hashsize(n) # 0}
  <1>3. \A n \in Nat : n \in T
    <2>1. 0 \in T
      BY <1>1
    <2>2. ASSUME NEW n \in Nat, n \in T PROVE n + 1 \in T
      BY <1>2, <2>2
    <2>. HIDE DEF T
    <2>. QED BY <2>1, <2>2, SetInduction
  <1>. QED BY <1>1, <1>2, <1>3

\* A larger power of two is a multiple of a smaller one.
LEMMA HashsizeDivides ==
  ASSUME NEW m \in Nat, NEW n \in Nat, m <= n
  PROVE  \E k \in Nat \ {0} : hashsize(n) = k * hashsize(m)
  <1>. DEFINE T == {d \in Nat : \E k \in Nat \ {0} : hashsize(m + d) = k * hashsize(m)}
  <1>1. 0 \in T
    BY Hashsize
  <1>2. ASSUME NEW d \in Nat, d \in T PROVE d + 1 \in T
    <2>1. PICK k \in Nat \ {0} : hashsize(m + d) = k * hashsize(m)
      BY <1>2
    <2>2. hashsize(m + (d + 1)) = 2 * hashsize(m + d)
      BY Hashsize
    <2>3. hashsize(m + (d + 1)) = (2 * k) * hashsize(m)
      BY <2>1, <2>2, Hashsize
    <2>. QED BY <2>3
  <1>. HIDE DEF T
  <1>3. n - m \in T
    BY <1>1, <1>2, SetInduction
  <1>. QED BY <1>3 DEF T

\* Strictly larger: an even multiple.
LEMMA HashsizeDividesTwice ==
  ASSUME NEW m \in Nat, NEW n \in Nat, m < n
  PROVE  \E k \in Nat \ {0} : hashsize(n) = 2 * (k * hashsize(m))
  <1>. DEFINE p == n - 1
  <1>1. p \in Nat /\ m <= p /\ n = p + 1
    OBVIOUS
  <1>. HIDE DEF p
  <1>2. PICK k \in Nat \ {0} : hashsize(p) = k * hashsize(m)
    BY <1>1, HashsizeDivides
  <1>3. hashsize(n) = 2 * (k * hashsize(m))
    BY <1>1, <1>2, Hashsize
  <1>. QED BY <1>3

-----------------------------------------------------------------------------
(***************************************************************************)
(* Remainders and quotients.                                               *)
(***************************************************************************)
LEMMA DivMod ==
  ASSUME NEW m \in Nat \ {0}, NEW q \in Nat, NEW r \in 0 .. m - 1
  PROVE  (q * m + r) \div m = q /\ (q * m + r) % m = r
  OBVIOUS

LEMMA DivModExists ==
  ASSUME NEW x \in Nat, NEW m \in Nat \ {0}
  PROVE  /\ x \div m \in Nat /\ x % m \in 0 .. m - 1
         /\ x = (x \div m) * m + (x % m)
  OBVIOUS

LEMMA ModPlusMultiple ==
  ASSUME NEW x \in Nat, NEW m \in Nat \ {0}, NEW k \in Nat
  PROVE  (x + k * m) % m = x % m /\ (x + k * m) \div m = x \div m + k
  <1>. DEFINE q == x \div m  r == x % m
  <1>1. q \in Nat /\ r \in 0 .. m - 1 /\ x = q * m + r
    BY DivModExists
  <1>. HIDE DEF q, r
  <1>. DEFINE s == q + k
  <1>2. s \in Nat /\ x + k * m = s * m + r
    BY <1>1
  <1>. HIDE DEF s
  <1>3. (s * m + r) \div m = s /\ (s * m + r) % m = r
    BY <1>1, <1>2, DivMod
  <1>. QED BY <1>2, <1>3 DEF q, r, s

\* The low bits of the low bits.
LEMMA ModMod ==
  ASSUME NEW x \in Nat, NEW m \in Nat \ {0}, NEW k \in Nat \ {0}
  PROVE  (x % (k * m)) % m = x % m
  <1>. DEFINE p == k * m
  <1>1. p \in Nat \ {0}
    OBVIOUS
  <1>. HIDE DEF p
  <1>. DEFINE q == x \div p  r == x % p
  <1>2. q \in Nat /\ r \in Nat /\ x = q * p + r
    BY <1>1, DivModExists
  <1>. HIDE DEF q, r
  <1>. DEFINE s == q * k
  <1>3. s \in Nat /\ x = r + s * m
    BY <1>2 DEF p
  <1>. HIDE DEF s
  <1>4. (r + s * m) % m = r % m
    BY <1>2, <1>3, ModPlusMultiple
  <1>. QED BY <1>3, <1>4 DEF r, p

LEMMA ModDouble ==
  ASSUME NEW x \in Nat, NEW m \in Nat \ {0}
  PROVE  x % (2 * m) = (x % m) + m * ((x \div m) % 2)
  <1>. DEFINE q == x \div m  r == x % m
  <1>1. q \in Nat /\ r \in 0 .. m - 1 /\ x = q * m + r
    BY DivModExists
  <1>2. q \div 2 \in Nat /\ q % 2 \in 0 .. 1 /\ q = (q \div 2) * 2 + (q % 2)
    BY <1>1
  <1>. DEFINE h == q \div 2  b == q % 2
  <1>. HIDE DEF q, r
  <1>3. h \in Nat /\ b \in 0 .. 1 /\ q = h * 2 + b
    BY <1>2
  <1>. HIDE DEF h, b
  <1>. DEFINE p == 2 * m  s == r + m * b
  <1>4. p \in Nat \ {0} /\ x = h * p + s
    BY <1>1, <1>3
  <1>5. s \in 0 .. p - 1
    BY <1>1, <1>3
  <1>. HIDE DEF p, s
  <1>6. (h * p + s) % p = s
    BY <1>3, <1>4, <1>5, DivMod
  <1>. QED BY <1>4, <1>6 DEF q, r, b, p, s

-----------------------------------------------------------------------------
(***************************************************************************)
(* The exclusive or of the low bits.                                       *)
(***************************************************************************)
\* The mask keeps the low n bits.
LEMMA MaskDivMod ==
  ASSUME NEW x \in Nat, NEW n \in Nat
  PROVE  /\ x \div hashsize(n) \in Nat
         /\ x % hashsize(n) \in 0 .. hashsize(n) - 1
         /\ x % hashsize(n) \in Nat
         /\ x = (x \div hashsize(n)) * hashsize(n) + (x % hashsize(n))
  <1>. DEFINE h == hashsize(n)
  <1>1. h \in Nat \ {0}
    BY Hashsize
  <1>. HIDE DEF h
  <1>2. /\ x \div h \in Nat /\ x % h \in 0 .. h - 1
        /\ x = (x \div h) * h + (x % h)
    BY <1>1, DivModExists
  <1>3. x % h \in Nat
    BY <1>1, <1>2
  <1>. QED BY <1>2, <1>3 DEF h

LEMMA BitType ==
  ASSUME NEW x \in Nat, NEW j \in Nat
  PROVE  BitOf(x, j) \in 0 .. 1
  <1>1. x \div hashsize(j) \in Nat
    BY Hashsize, DivModExists
  <1>. QED BY <1>1 DEF BitOf

XorBit(a, b, n) == (BitOf(a, n) + BitOf(b, n)) % 2

LEMMA XorBitType ==
  ASSUME NEW a \in Nat, NEW b \in Nat, NEW n \in Nat
  PROVE  XorBit(a, b, n) \in 0 .. 1
  BY BitType DEF XorBit

LEMMA XorStep ==
  ASSUME NEW a \in Nat, NEW b \in Nat
  PROVE  /\ XorLow(a, b, 0) = 0
         /\ \A n \in Nat :
              /\ XorLow(a, b, n) \in Nat
              /\ XorLow(a, b, n + 1) = XorLow(a, b, n) + hashsize(n) * XorBit(a, b, n)
  <1>. DEFINE low[i \in Nat] ==
         IF i = 0 THEN 0
         ELSE low[i - 1] + hashsize(i - 1) * ((BitOf(a, i - 1) + BitOf(b, i - 1)) % 2)
  <1>1. \A n \in Nat : XorLow(a, b, n) = low[n]
    BY DEF XorLow
  <1>. DEFINE inc == [n \in Nat |-> hashsize(n) * XorBit(a, b, n)]
              step == [n \in Nat |-> [x \in Nat |-> x + inc[n]]]
  <1>2. inc \in [Nat -> Nat]
    <2> SUFFICES ASSUME NEW n \in Nat PROVE hashsize(n) * XorBit(a, b, n) \in Nat
      OBVIOUS
    <2>1. hashsize(n) \in Nat
      BY Hashsize
    <2>2. XorBit(a, b, n) = 0 \/ XorBit(a, b, n) = 1
      BY XorBitType
    <2>. QED BY <2>1, <2>2
  <1>3. \A n \in Nat : inc[n] = hashsize(n) * ((BitOf(a, n) + BitOf(b, n)) % 2)
    BY DEF XorBit
  <1>4. \A n \in Nat : inc[n] = hashsize(n) * XorBit(a, b, n)
    OBVIOUS
  <1>. HIDE DEF inc
  <1>5. step \in [Nat -> [Nat -> Nat]] /\ 0 \in Nat
    BY <1>2
  <1>6. \A n, x \in Nat : step[n][x] = x + inc[n]
    OBVIOUS
  <1>. HIDE DEF step
  <1>7. PICK f : Iterates(f, Nat, 0, step)
    BY <1>5, Iteration, Zenon
  <1>8. f \in [Nat -> Nat] /\ f[0] = 0 /\ \A n \in Nat : f[n + 1] = f[n] + inc[n]
    BY <1>6, <1>7 DEF Iterates
  <1>9. ASSUME NEW n \in Nat, n # 0
        PROVE  f[n] = f[n - 1] + hashsize(n - 1) * ((BitOf(a, n - 1) + BitOf(b, n - 1)) % 2)
    <2>. DEFINE m == n - 1
    <2>1. m \in Nat /\ n = m + 1
      BY <1>9
    <2>. HIDE DEF m
    <2>2. f[m + 1] = f[m] + hashsize(m) * ((BitOf(a, m) + BitOf(b, m)) % 2)
      BY <1>3, <1>8, <2>1
    <2>. QED BY <2>1, <2>2 DEF m
  <1>10. f = [i \in Nat |->
                IF i = 0 THEN 0
                ELSE f[i - 1] + hashsize(i - 1) * ((BitOf(a, i - 1) + BitOf(b, i - 1)) % 2)]
    <2>. DEFINE g == [i \in Nat |->
                IF i = 0 THEN 0
                ELSE f[i - 1] + hashsize(i - 1) * ((BitOf(a, i - 1) + BitOf(b, i - 1)) % 2)]
    <2>1. \A i \in Nat : f[i] = g[i]
      BY <1>8, <1>9
    <2>2. g = [i \in Nat |-> g[i]]
      OBVIOUS
    <2>. HIDE DEF g
    <2>3. f = g
      BY <1>8, <2>1, <2>2
    <2>. QED BY <2>3 DEF g
  <1>11. low = [i \in Nat |->
                IF i = 0 THEN 0
                ELSE low[i - 1] + hashsize(i - 1) * ((BitOf(a, i - 1) + BitOf(b, i - 1)) % 2)]
    BY <1>10, Zenon
  <1>. HIDE DEF low
  <1>12. low[0] = 0 /\ \A n \in Nat : low[n + 1] = low[n] + inc[n]
    <2>1. low[0] = 0
      BY <1>11
    <2>2. ASSUME NEW n \in Nat PROVE low[n + 1] = low[n] + inc[n]
      <3>1. low[n + 1] = low[n + 1 - 1] + hashsize(n + 1 - 1)
                         * ((BitOf(a, n + 1 - 1) + BitOf(b, n + 1 - 1)) % 2)
        BY <1>11
      <3>2. n + 1 - 1 = n
        OBVIOUS
      <3>. QED BY <3>1, <3>2, <1>3
    <2>. QED BY <2>1, <2>2
  <1>13. \A n \in Nat : low[n] \in Nat
    <2>. DEFINE T == {n \in Nat : low[n] \in Nat}
    <2>1. 0 \in T
      BY <1>12
    <2>2. ASSUME NEW n \in Nat, n \in T PROVE n + 1 \in T
      BY <1>2, <1>12, <2>2
    <2>. HIDE DEF T
    <2>3. \A n \in Nat : n \in T
      BY <2>1, <2>2, SetInduction
    <2>. QED BY <2>3 DEF T
  <1>. QED BY <1>1, <1>4, <1>12, <1>13

\* The exclusive or of n bits fits in n bits.
LEMMA XorBound ==
  ASSUME NEW a \in Nat, NEW b \in Nat
  PROVE  \A n \in Nat : XorLow(a, b, n) \in 0 .. hashsize(n) - 1
  <1>. DEFINE T == {n \in Nat : XorLow(a, b, n) < hashsize(n)}
  <1>1. 0 \in T
    BY XorStep, Hashsize
  <1>2. ASSUME NEW n \in Nat, n \in T PROVE n + 1 \in T
    <2>1. XorBit(a, b, n) = 0 \/ XorBit(a, b, n) = 1
      BY XorBitType
    <2>2. XorLow(a, b, n + 1) = XorLow(a, b, n) + hashsize(n) * XorBit(a, b, n)
          /\ XorLow(a, b, n) \in Nat
      BY XorStep
    <2>3. hashsize(n) \in Nat /\ hashsize(n + 1) = 2 * hashsize(n)
      BY Hashsize
    <2>. QED BY <1>2, <2>1, <2>2, <2>3
  <1>. HIDE DEF T
  <1>3. ASSUME NEW n \in Nat PROVE n \in T
    BY <1>1, <1>2, SetInduction
  <1>4. ASSUME NEW n \in Nat PROVE XorLow(a, b, n) \in 0 .. hashsize(n) - 1
    <2>1. XorLow(a, b, n) \in Nat /\ hashsize(n) \in Nat
      BY XorStep, Hashsize
    <2>2. XorLow(a, b, n) < hashsize(n)
      BY <1>3 DEF T
    <2>. QED BY <2>1, <2>2
  <1>. QED BY <1>4

\* A multiple of 2 * hashsize(j) does not change bit j.
LEMMA BitPlusMultiple ==
  ASSUME NEW r \in Nat, NEW q \in Nat, NEW j \in Nat, NEW n \in Nat, j < n
  PROVE  BitOf(r + q * hashsize(n), j) = BitOf(r, j)
  <1>. DEFINE h == hashsize(j)
  <1>1. h \in Nat \ {0}
    BY Hashsize
  <1>2. PICK k \in Nat \ {0} : hashsize(n) = 2 * (k * h)
    BY HashsizeDividesTwice
  <1>. HIDE DEF h
  <1>. DEFINE d == q * k  e == 2 * d
  <1>3. d \in Nat /\ e \in Nat /\ r + q * hashsize(n) = r + e * h
    BY <1>1, <1>2
  <1>4. r \div h \in Nat
    BY <1>1, DivModExists
  <1>. HIDE DEF d
  <1>5. (r + e * h) \div h = r \div h + e
    BY <1>1, <1>3, ModPlusMultiple
  <1>. DEFINE x == r \div h
  <1>. HIDE DEF x
  <1>6. (x + 2 * d) % 2 = x % 2
    BY <1>3, <1>4 DEF x
  <1>. QED BY <1>3, <1>5, <1>6 DEF BitOf, h, x, e

LEMMA BitOfMod ==
  ASSUME NEW a \in Nat, NEW j \in Nat, NEW n \in Nat, j < n
  PROVE  BitOf(a % hashsize(n), j) = BitOf(a, j)
  <1>. DEFINE q == a \div hashsize(n)  r == a % hashsize(n)
  <1>1. hashsize(n) \in Nat \ {0}
    BY Hashsize
  <1>2. q \in Nat /\ r \in Nat /\ a = q * hashsize(n) + r
    BY MaskDivMod
  <1>. HIDE DEF q, r
  <1>3. a = r + q * hashsize(n)
    BY <1>1, <1>2
  <1>4. BitOf(r + q * hashsize(n), j) = BitOf(r, j)
    BY <1>2, BitPlusMultiple
  <1>. QED BY <1>3, <1>4 DEF r

\* The low bits depend on the low bits only.
LEMMA XorOfMod ==
  ASSUME NEW a \in Nat, NEW b \in Nat, NEW n \in Nat
  PROVE  XorLow(a % hashsize(n), b, n) = XorLow(a, b, n)
  <1>. DEFINE c == a % hashsize(n)
              T == {i \in Nat : i <= n => XorLow(c, b, i) = XorLow(a, b, i)}
  <1>1. c \in Nat
    BY MaskDivMod
  <1>2. \A j \in Nat : j < n => BitOf(c, j) = BitOf(a, j)
    BY BitOfMod
  <1>. HIDE DEF c
  <1>3. 0 \in T
    BY <1>1, XorStep
  <1>4. ASSUME NEW i \in Nat, i \in T PROVE i + 1 \in T
    <2>1. i < n => XorBit(c, b, i) = XorBit(a, b, i)
      BY <1>2 DEF XorBit
    <2>2. XorLow(c, b, i + 1) = XorLow(c, b, i) + hashsize(i) * XorBit(c, b, i)
      BY <1>1, XorStep
    <2>3. XorLow(a, b, i + 1) = XorLow(a, b, i) + hashsize(i) * XorBit(a, b, i)
      BY XorStep
    <2>. QED BY <1>4, <2>1, <2>2, <2>3
  <1>. HIDE DEF T
  <1>5. n \in T
    BY <1>3, <1>4, SetInduction
  <1>. QED BY <1>5 DEF T, c

\* Fewer bits are the low bits of more.
LEMMA XorLowBits ==
  ASSUME NEW a \in Nat, NEW b \in Nat, NEW m \in Nat, NEW n \in Nat, m <= n
  PROVE  XorLow(a, b, n) % hashsize(m) = XorLow(a, b, m)
  <1>. DEFINE T == {d \in Nat : XorLow(a, b, m + d) % hashsize(m) = XorLow(a, b, m)}
  <1>0. hashsize(m) \in Nat \ {0}
    BY Hashsize
  <1>1. 0 \in T
    <2>1. XorLow(a, b, m) \in 0 .. hashsize(m) - 1
      BY XorBound
    <2>. DEFINE x == XorLow(a, b, m)  h == hashsize(m)
    <2>. HIDE DEF x, h
    <2>2. x % h = x
      BY <1>0, <2>1 DEF x, h
    <2>3. m + 0 = m
      OBVIOUS
    <2>. QED BY <2>2, <2>3 DEF x, h
  <1>2. ASSUME NEW d \in Nat, d \in T PROVE d + 1 \in T
    <2>. DEFINE e == m + d  x == XorLow(a, b, e)  bit == XorBit(a, b, e)
    <2>1. e \in Nat /\ m <= e /\ m + (d + 1) = e + 1
      OBVIOUS
    <2>. HIDE DEF e
    <2>2. x \in Nat /\ XorLow(a, b, e + 1) = x + hashsize(e) * bit
      BY <2>1, XorStep
    <2>3. bit \in 0 .. 1
      BY <2>1, XorBitType
    <2>4. PICK k \in Nat \ {0} : hashsize(e) = k * hashsize(m)
      BY <2>1, HashsizeDivides
    <2>. HIDE DEF x, bit
    <2>. DEFINE f == k * bit
    <2>5. f \in Nat /\ x + hashsize(e) * bit = x + f * hashsize(m)
      BY <1>0, <2>2, <2>3, <2>4
    <2>. HIDE DEF f
    <2>6. (x + f * hashsize(m)) % hashsize(m) = x % hashsize(m)
      BY <1>0, <2>2, <2>5, ModPlusMultiple
    <2>. QED BY <1>2, <2>1, <2>2, <2>5, <2>6 DEF x, e
  <1>. HIDE DEF T
  <1>3. n - m \in T
    BY <1>1, <1>2, SetInduction
  <1>. QED BY <1>3 DEF T

LEMMA BitOfXor ==
  ASSUME NEW a \in Nat, NEW b \in Nat, NEW n \in Nat, NEW j \in Nat, j < n
  PROVE  BitOf(XorLow(a, b, n), j) = XorBit(a, b, j)
  <1>. DEFINE x == XorLow(a, b, n)  y == XorLow(a, b, j)  h == hashsize(j)
              bit == XorBit(a, b, j)
  <1>1. x \in Nat /\ y \in 0 .. h - 1 /\ h \in Nat \ {0} /\ bit \in 0 .. 1
    BY XorStep, XorBound, Hashsize, XorBitType
  <1>2. x % hashsize(j + 1) = y + h * bit
    BY XorLowBits, XorStep
  <1>3. BitOf(x % hashsize(j + 1), j) = BitOf(x, j)
    BY <1>1, BitOfMod
  <1>. HIDE DEF x, y, h, bit
  <1>4. (bit * h + y) \div h = bit
    BY <1>1, DivMod
  <1>5. y + h * bit = bit * h + y
    BY <1>1
  <1>6. bit % 2 = bit
    BY <1>1
  <1>7. BitOf(y + h * bit, j) = bit
    BY <1>4, <1>5, <1>6 DEF BitOf, h
  <1>. QED BY <1>2, <1>3, <1>7 DEF x, bit

LEMMA XorInvolution ==
  ASSUME NEW a \in Nat, NEW b \in Nat, NEW n \in Nat
  PROVE  XorLow(XorLow(a, b, n), b, n) = a % hashsize(n)
  <1>. DEFINE x == XorLow(a, b, n)
              T == {i \in Nat : i <= n => XorLow(x, b, i) = a % hashsize(i)}
  <1>1. x \in Nat /\ \A j \in Nat : j < n => BitOf(x, j) = XorBit(a, b, j)
    BY XorStep, BitOfXor
  <1>. HIDE DEF x
  <1>2. 0 \in T
    BY <1>1, XorStep, Hashsize
  <1>3. ASSUME NEW i \in Nat, i \in T PROVE i + 1 \in T
    <2> SUFFICES ASSUME i < n PROVE XorLow(x, b, i + 1) = a % hashsize(i + 1)
      OBVIOUS
    <2>1. XorLow(x, b, i + 1) = XorLow(x, b, i) + hashsize(i) * XorBit(x, b, i)
      BY <1>1, XorStep
    <2>2. XorBit(x, b, i) = BitOf(a, i)
      <3>1. BitOf(x, i) = (BitOf(a, i) + BitOf(b, i)) % 2
        BY <1>1 DEF XorBit
      <3>2. BitOf(a, i) \in 0 .. 1 /\ BitOf(b, i) \in 0 .. 1
        BY BitType
      <3>. QED BY <3>1, <3>2 DEF XorBit
    <2>3. a % (2 * hashsize(i)) = (a % hashsize(i)) + hashsize(i) * BitOf(a, i)
      BY Hashsize, ModDouble DEF BitOf
    <2>4. hashsize(i + 1) = 2 * hashsize(i)
      BY Hashsize
    <2>. QED BY <1>3, <2>1, <2>2, <2>3, <2>4
  <1>. HIDE DEF T
  <1>4. n \in T
    BY <1>2, <1>3, SetInduction
  <1>. QED BY <1>4 DEF T, x

-----------------------------------------------------------------------------
(***************************************************************************)
(* The two buckets of a key, and their stripes.                            *)
(***************************************************************************)
LEMMA IndexHash ==
  ASSUME NEW hp \in Nat, NEW hash \in Nat
  PROVE  index_hash(hp, hash) \in 0 .. hashsize(hp) - 1
  BY MaskDivMod DEF index_hash

LEMMA AltIndex ==
  ASSUME NEW hp \in Nat, NEW partial \in Nat, NEW index \in Nat
  PROVE  alt_index(hp, partial, index) \in 0 .. hashsize(hp) - 1
  <1>1. (partial + 1) * MURMUR_CONST \in Nat
    BY DEF MURMUR_CONST
  <1>. QED BY <1>1, XorBound DEF alt_index

LEMMA AltIndexInvolution ==
  ASSUME NEW hp \in Nat, NEW partial \in Nat, NEW index \in 0 .. hashsize(hp) - 1
  PROVE  alt_index(hp, partial, alt_index(hp, partial, index)) = index
  <1>. DEFINE b == (partial + 1) * MURMUR_CONST  h == hashsize(hp)
  <1>1. b \in Nat
    BY DEF MURMUR_CONST
  <1>2. h \in Nat \ {0} /\ index \in Nat
    BY Hashsize
  <1>. HIDE DEF b
  <1>3. XorLow(XorLow(index, b, hp), b, hp) = index % hashsize(hp)
    BY <1>1, <1>2, XorInvolution
  <1>4. index \in 0 .. h - 1
    OBVIOUS
  <1>. HIDE DEF h
  <1>5. index % h = index
    BY <1>2, <1>4
  <1>. QED BY <1>3, <1>5 DEF alt_index, b, h

\* What a larger table's indices are in a smaller one.
LEMMA IndexHashLow ==
  ASSUME NEW m \in Nat, NEW n \in Nat, m <= n, NEW hash \in Nat
  PROVE  index_hash(n, hash) % hashsize(m) = index_hash(m, hash)
  <1>1. PICK k \in Nat \ {0} : hashsize(n) = k * hashsize(m)
    BY HashsizeDivides
  <1>2. hashsize(m) \in Nat \ {0}
    BY Hashsize
  <1>3. (hash % (k * hashsize(m))) % hashsize(m) = hash % hashsize(m)
    BY <1>2, ModMod
  <1>. QED BY <1>1, <1>3 DEF index_hash

LEMMA AltIndexLow ==
  ASSUME NEW m \in Nat, NEW n \in Nat, m <= n, NEW partial \in Nat, NEW index \in Nat
  PROVE  alt_index(n, partial, index) % hashsize(m)
           = alt_index(m, partial, index % hashsize(m))
  <1>. DEFINE b == (partial + 1) * MURMUR_CONST
  <1>1. b \in Nat
    BY DEF MURMUR_CONST
  <1>. HIDE DEF b
  <1>2. XorLow(index, b, n) % hashsize(m) = XorLow(index, b, m)
    BY <1>1, XorLowBits
  <1>3. XorLow(index % hashsize(m), b, m) = XorLow(index, b, m)
    BY <1>1, XorOfMod
  <1>. QED BY <1>2, <1>3 DEF alt_index, b

\* With as many stripes as some smaller table has buckets, or fewer, an index
\* has the stripe that its low bits have.
LEMMA StripeOfLowBits ==
  ASSUME NEW x \in Nat, NEW m \in Nat, NEW num_locks \in Nat \ {0},
         hashsize(m) % num_locks = 0
  PROVE  lock_ind_for(x % hashsize(m), num_locks) = lock_ind_for(x, num_locks)
  <1>. DEFINE h == hashsize(m)  k == h \div num_locks
  <1>1. h \in Nat \ {0}
    BY Hashsize
  <1>. HIDE DEF h
  <1>2. k \in Nat /\ h % num_locks \in 0 .. num_locks - 1
        /\ h = k * num_locks + (h % num_locks)
    BY <1>1, DivModExists
  <1>. HIDE DEF k
  <1>3. hashsize(m) = k * num_locks /\ k \in Nat \ {0}
    BY <1>1, <1>2 DEF h
  <1>4. (x % (k * num_locks)) % num_locks = x % num_locks
    BY <1>3, ModMod
  <1>. QED BY <1>3, <1>4 DEF lock_ind_for

LEMMA StripeInRange ==
  ASSUME NEW x \in Nat, NEW num_locks \in Nat \ {0}
  PROVE  lock_ind_for(x, num_locks) \in 0 .. num_locks - 1
  BY DivModExists DEF lock_ind_for

-----------------------------------------------------------------------------
(***************************************************************************)
(* reserve_calc.                                                           *)
(***************************************************************************)
LEMMA HashsizeGrows == \A n \in Nat : n < hashsize(n)
  <1>. DEFINE T == {n \in Nat : n < hashsize(n)}
  <1>1. 0 \in T
    BY Hashsize
  <1>2. ASSUME NEW n \in Nat, n \in T PROVE n + 1 \in T
    BY <1>2, Hashsize
  <1>. HIDE DEF T
  <1>3. \A n \in Nat : n \in T
    BY <1>1, <1>2, SetInduction
  <1>. QED BY <1>3 DEF T

LEMMA ReserveCalc ==
  ASSUME NEW n \in Nat \ {0}, NEW slots \in Nat \ {0}
  PROVE  /\ reserve_calc(n, slots) \in Nat
         /\ n <= hashsize(reserve_calc(n, slots)) * slots
  <1>. DEFINE x == n + slots - 1  q == x \div slots  r == x % slots
              T == {hp \in 0 .. n : hashsize(hp) >= q}
  <1>0. x \in Nat
    OBVIOUS
  <1>. HIDE DEF x
  <1>1. q \in Nat /\ r \in 0 .. slots - 1 /\ x = q * slots + r
    BY <1>0, DivModExists
  <1>. HIDE DEF q, r
  <1>2. n <= q * slots
    BY <1>1 DEF x
  <1>3. q <= n
    <2> SUFFICES ASSUME n + 1 <= q PROVE FALSE
      BY <1>1
    <2>. DEFINE d == q - (n + 1)
    <2>1. d \in Nat /\ q = n + 1 + d
      BY <1>1
    <2>. HIDE DEF d
    <2>2. q * slots = n * slots + slots + d * slots
      BY <2>1
    <2>3. n * slots >= n /\ d * slots >= 0
      BY <2>1
    <2>. QED BY <1>1, <2>2, <2>3 DEF x
  <1>4. n \in T
    BY <1>1, <1>3, HashsizeGrows, Hashsize
  <1>5. T # {} /\ T \subseteq Nat
    BY <1>4
  <1>. HIDE DEF T
  <1>6. PICK m \in T : \A y \in T : ~(<<y, m>> \in OpToRel(<, Nat))
    BY <1>5, WFMin, NatLessThanWellFounded
  <1>7. \A y \in T : ~(y < m)
    BY <1>5, <1>6 DEF OpToRel
  <1>. DEFINE P(hp) == hashsize(hp) >= q /\ \A j \in 0 .. hp - 1 : hashsize(j) < q
  <1>8. m \in 0 .. n /\ P(m)
    <2>1. m \in 0 .. n /\ hashsize(m) >= q
      BY DEF T
    <2>2. ASSUME NEW j \in 0 .. m - 1 PROVE hashsize(j) < q
      <3>1. j \in 0 .. n /\ j < m /\ hashsize(j) \in Nat
        BY <2>1, Hashsize
      <3>2. j \notin T
        BY <1>7, <3>1
      <3>. QED BY <1>1, <3>1, <3>2 DEF T
    <2>. QED BY <2>1, <2>2
  <1>9. reserve_calc(n, slots) = CHOOSE hp \in 0 .. n : P(hp)
    BY DEF reserve_calc, q, x
  <1>. HIDE DEF P
  <1>10. reserve_calc(n, slots) \in 0 .. n /\ P(reserve_calc(n, slots))
    BY <1>8, <1>9
  <1>. DEFINE hp == reserve_calc(n, slots)
  <1>11. hp \in Nat /\ hashsize(hp) \in Nat /\ q <= hashsize(hp)
    BY <1>1, <1>10, Hashsize DEF P
  <1>. HIDE DEF hp
  <1>. DEFINE h == hashsize(hp)  e == h - q
  <1>12. h \in Nat /\ e \in Nat /\ h = q + e
    BY <1>1, <1>11
  <1>. HIDE DEF h, e
  <1>13. h * slots = q * slots + e * slots
    BY <1>1, <1>12
  <1>14. q * slots \in Nat /\ e * slots \in Nat
    BY <1>1, <1>12
  <1>15. n <= h * slots
    BY <1>2, <1>13, <1>14
  <1>. QED BY <1>11, <1>15 DEF hp, h
=============================================================================

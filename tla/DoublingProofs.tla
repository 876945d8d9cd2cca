---------------------------- MODULE DoublingProofs ----------------------------
(***************************************************************************)
(* What Doubling checks for some hashes and sizes, for all of them.  The   *)
(* bounds of DoublingAssumption on the hashpower and on MAX_NUM_LOCKS are  *)
(* not used: any power of two of locks will do.                            *)
(***************************************************************************)
EXTENDS Doubling, BucketIndexProofs

DInv ==
  /\ capacity \in Nat /\ hash \in Nat /\ partial \in Nat
  /\ hashpower \in Nat
  /\ num_locks \in Nat \ {0}
  /\ hashsize(hashpower) % num_locks = 0
  /\ CapacityHolds

LEMMA DivisorOfDouble ==
  ASSUME NEW h \in Nat, NEW n \in Nat \ {0}, h % n = 0
  PROVE  (2 * h) % n = 0
  <1>. DEFINE q == h \div n
  <1>1. q \in Nat /\ h % n \in 0 .. n - 1 /\ h = q * n + (h % n)
    BY DivModExists
  <1>. HIDE DEF q
  <1>. DEFINE s == 2 * q
  <1>2. s \in Nat /\ 2 * h = s * n + 0 /\ 0 \in 0 .. n - 1
    <2>1. h = q * n
      BY <1>1
    <2>2. q * n \in Nat /\ (2 * q) * n = 2 * (q * n)
      BY <1>1
    <2>. QED BY <1>1, <2>1, <2>2
  <1>. HIDE DEF s
  <1>3. (s * n + 0) % n = 0
    BY <1>2, DivMod
  <1>. QED BY <1>2, <1>3

\* The smaller of two powers of two divides the other.
LEMMA LocksDivideBuckets ==
  ASSUME NEW hp \in Nat, NEW s \in Nat
  PROVE  /\ Min({hashsize(hp), hashsize(s)}) \in Nat \ {0}
         /\ hashsize(hp) % Min({hashsize(hp), hashsize(s)}) = 0
  <1>. DEFINE h == hashsize(hp)  g == hashsize(s)  m == Min({h, g})
  <1>1. h \in Nat \ {0} /\ g \in Nat \ {0}
    BY Hashsize
  <1>2. (\E k \in Nat \ {0} : h = k * g) \/ (\E k \in Nat \ {0} : g = 2 * (k * h))
    <2>1. CASE s <= hp
      BY <2>1, HashsizeDivides
    <2>2. CASE hp < s
      BY <2>2, HashsizeDividesTwice
    <2>. QED BY <2>1, <2>2
  <1>. HIDE DEF h, g
  <1>3. m \in {h, g} /\ m <= h /\ m <= g
    <2>1. \E x \in {h, g} : \A y \in {h, g} : x <= y
      <3>1. CASE h <= g
        BY <1>1, <3>1
      <3>2. CASE g <= h
        BY <1>1, <3>2
      <3>. QED BY <1>1, <3>1, <3>2
    <2>. QED BY <2>1 DEF Min
  <1>. HIDE DEF m
  <1>4. h % h = 0
    <2>1. (1 * h + 0) % h = 0
      BY <1>1, DivMod
    <2>. QED BY <1>1, <2>1
  <1>5. CASE m = h
    BY <1>1, <1>4, <1>5 DEF m, h, g
  <1>6. CASE m = g /\ m # h
    <2>1. g < h
      BY <1>1, <1>3, <1>6
    <2>2. ASSUME NEW k \in Nat \ {0}, g = 2 * (k * h) PROVE FALSE
      <3>. DEFINE d == k - 1
      <3>1. d \in Nat /\ k = d + 1
        OBVIOUS
      <3>. HIDE DEF d
      <3>2. k * h = d * h + h /\ d * h >= 0
        BY <1>1, <3>1
      <3>. QED BY <1>1, <2>1, <2>2, <3>2
    <2>3. PICK k \in Nat \ {0} : h = k * g
      BY <1>2, <2>2
    <2>4. (k * g + 0) % g = 0
      BY <1>1, DivMod
    <2>5. h % g = 0
      BY <1>1, <2>3, <2>4
    <2>. QED BY <1>1, <1>6, <2>5 DEF m, h, g
  <1>. QED BY <1>3, <1>5, <1>6

LEMMA InitDInv == Init => DInv
  <1> SUFFICES ASSUME Init PROVE DInv
    OBVIOUS
  <1>1. /\ capacity \in Nat \ {0} /\ hash \in Nat /\ partial \in Nat
        /\ SLOT_PER_BUCKET \in Nat \ {0}
    BY DoublingAssumption DEF Init
  <1>2. hashpower \in Nat /\ CapacityHolds
    BY <1>1, ReserveCalc DEF Init, with_capacity_and_hasher, CapacityHolds
  <1>3. PICK s \in Nat : MAX_NUM_LOCKS = hashsize(s)
    BY DoublingAssumption
  <1>4. num_locks \in Nat \ {0} /\ hashsize(hashpower) % num_locks = 0
    BY <1>2, <1>3, LocksDivideBuckets DEF Init, with_capacity_and_hasher
  <1>. QED BY <1>1, <1>2, <1>4 DEF DInv

LEMMA DoubleDInv == DInv /\ [Double]_vars => DInv'
  <1> SUFFICES ASSUME DInv, [Double]_vars PROVE DInv'
    OBVIOUS
  <1>1. CASE Double
    <2>1. hashpower \in Nat /\ hashpower' = hashpower + 1
          /\ hashsize(hashpower) \in Nat /\ hashsize(hashpower') = 2 * hashsize(hashpower)
      BY <1>1, Hashsize DEF DInv, Double
    <2>2. UNCHANGED <<capacity, hash, partial, num_locks>> /\ num_locks \in Nat \ {0}
      BY <1>1 DEF Double, DInv
    <2>3. hashsize(hashpower') % num_locks = 0
      BY <2>1, <2>2, DivisorOfDouble DEF DInv
    <2>4. capacity <= hashsize(hashpower') * SLOT_PER_BUCKET
      <3>. DEFINE h == hashsize(hashpower)  p == h * SLOT_PER_BUCKET
      <3>1. h \in Nat /\ SLOT_PER_BUCKET \in Nat /\ capacity \in Nat /\ capacity <= p
        BY <2>1, DoublingAssumption DEF DInv, CapacityHolds
      <3>. HIDE DEF h
      <3>2. p \in Nat /\ (2 * h) * SLOT_PER_BUCKET = 2 * p
        BY <3>1
      <3>. HIDE DEF p
      <3>3. capacity <= 2 * p
        BY <3>1, <3>2
      <3>. QED BY <2>1, <3>2, <3>3 DEF h
    <2>. QED BY <2>1, <2>2, <2>3, <2>4 DEF DInv, CapacityHolds
  <1>2. CASE UNCHANGED vars
    BY <1>2 DEF vars, DInv, CapacityHolds
  <1>. QED BY <1>1, <1>2

LEMMA DoublingInvariance == Spec => []DInv
  BY InitDInv, DoubleDInv, PTL DEF Spec

\* A map created for n items has slots for them, at every later size too.
THEOREM CapacityIsReserved == Spec => []CapacityHolds
  <1>1. DInv => CapacityHolds
    BY DEF DInv
  <1>. QED BY <1>1, DoublingInvariance, PTL

\* The "critical property" of alt_index, for every hash, tag and hashpower:
\* the two buckets of a key lead to each other.
THEOREM AlternateOfAlternate == Spec => []AltInvolution
  <1>1. DInv => AltInvolution
    <2> SUFFICES ASSUME DInv PROVE AltInvolution
      OBVIOUS
    <2>1. hashpower \in Nat /\ hash \in Nat /\ partial \in Nat
      BY DEF DInv
    <2>2. i1 \in 0 .. hashsize(hashpower) - 1 /\ i1 \in Nat
      BY <2>1, IndexHash, MaskDivMod DEF i1, index_hash
    <2>3. i2 \in 0 .. hashsize(hashpower) - 1
      BY <2>1, <2>2, AltIndex DEF i2
    <2>4. alt_index(hashpower, partial, i2) = i1
      BY <2>1, <2>2, AltIndexInvolution DEF i2
    <2>. QED BY <2>3, <2>4 DEF AltInvolution
  <1>. QED BY <1>1, DoublingInvariance, PTL

-----------------------------------------------------------------------------
\* What the doubled table's indices are in the old one.
LEMMA HalvedIndices ==
  ASSUME DInv, Double
  PROVE  /\ i1 \in Nat /\ i2 \in Nat /\ i1' \in Nat /\ i2' \in Nat
         /\ i1' % hashsize(hashpower) = i1
         /\ i2' % hashsize(hashpower) = i2
  <1>1. /\ hashpower \in Nat /\ hash \in Nat /\ partial \in Nat
        /\ hashpower' = hashpower + 1 /\ hash' = hash /\ partial' = partial
    BY DEF DInv, Double
  <1>. DEFINE n == hashpower + 1
  <1>2. n \in Nat /\ hashpower <= n /\ hashpower' = n
    BY <1>1
  <1>. HIDE DEF n
  <1>3. i1' = index_hash(n, hash) /\ i2' = alt_index(n, partial, i1')
    BY <1>1, <1>2 DEF i1, i2
  <1>4. i1 \in Nat /\ i1' \in Nat
    BY <1>1, <1>2, <1>3, MaskDivMod DEF i1, index_hash
  <1>5. i2 \in 0 .. hashsize(hashpower) - 1 /\ i2' \in 0 .. hashsize(n) - 1
    BY <1>1, <1>2, <1>3, <1>4, AltIndex DEF i2
  <1>6. i1' % hashsize(hashpower) = i1
    BY <1>1, <1>2, <1>3, IndexHashLow DEF i1
  <1>7. i2' % hashsize(hashpower) = alt_index(hashpower, partial, i1' % hashsize(hashpower))
    BY <1>1, <1>2, <1>3, <1>4, AltIndexLow
  <1>8. i2 \in Nat /\ i2' \in Nat
    BY <1>1, <1>2, <1>5, Hashsize
  <1>. QED BY <1>4, <1>6, <1>7, <1>8 DEF i2

\* A thread may hold an index it computed several doublings ago: it names
\* the stripe that the key's bucket has now, for any power of two of locks.
THEOREM StaleIndexNamesStripe == Spec => StripesStay
  <1>. DEFINE A == /\ lock_ind_for(i1', num_locks) = lock_ind_for(i1, num_locks)
                   /\ lock_ind_for(i2', num_locks) = lock_ind_for(i2, num_locks)
  <1>1. ASSUME DInv, [Double]_vars PROVE [A]_vars
    <2>1. CASE Double
      <3>1. hashpower \in Nat /\ num_locks \in Nat \ {0}
            /\ hashsize(hashpower) % num_locks = 0
        BY <1>1 DEF DInv
      <3>. QED BY <1>1, <2>1, <3>1, HalvedIndices, StripeOfLowBits
    <2>2. CASE UNCHANGED vars
      BY <2>2
    <2>. QED BY <1>1, <2>1, <2>2
  <1>. QED BY <1>1, DoublingInvariance, PTL DEF Spec, StripesStay

\* Doubling sends the items of one bucket to that bucket or its image in the
\* upper half, whichever bit of the hash decides it.
THEOREM DoublingSplits == Spec => BucketsSplit
  <1>. DEFINE A == /\ i1' \in {i1, i1 + hashsize(hashpower)}
                   /\ i2' \in {i2, i2 + hashsize(hashpower)}
                   /\ i1 # i2 => i1' # i2'
  <1>1. ASSUME DInv, [Double]_vars PROVE [A]_vars
    <2>1. CASE Double
      <3>. DEFINE h == hashsize(hashpower)
      <3>1. /\ i1 \in Nat /\ i2 \in Nat /\ i1' \in Nat /\ i2' \in Nat
            /\ i1' % h = i1 /\ i2' % h = i2
        BY <1>1, <2>1, HalvedIndices
      <3>2. h \in Nat \ {0} /\ hashsize(hashpower') = 2 * h
        BY <1>1, <2>1, Hashsize DEF DInv, Double
      <3>3. i1' < 2 * h /\ i2' < 2 * h
        <4>0. hashpower' \in Nat /\ hash' \in Nat /\ partial' \in Nat
          BY <1>1, <2>1 DEF DInv, Double
        <4>1. i1' \in 0 .. hashsize(hashpower') - 1
          BY <4>0, IndexHash DEF i1
        <4>2. i2' \in 0 .. hashsize(hashpower') - 1
          BY <3>1, <4>0, AltIndex DEF i2
        <4>. QED BY <3>2, <4>1, <4>2
      <3>4. ASSUME NEW x \in Nat, x < 2 * h PROVE x \in {x % h, (x % h) + h}
        <4>. DEFINE q == x \div h  r == x % h
        <4>1. q \in Nat /\ r \in 0 .. h - 1 /\ x = q * h + r
          BY <3>2, DivModExists
        <4>. HIDE DEF q, r, h
        <4>2. q = 0 \/ q = 1
          <5> SUFFICES ASSUME q >= 2 PROVE FALSE
            BY <4>1
          <5>. DEFINE d == q - 2
          <5>1. d \in Nat /\ q = d + 2
            BY <4>1
          <5>. HIDE DEF d
          <5>2. q * h = d * h + 2 * h /\ d * h >= 0
            BY <3>2, <5>1
          <5>. QED BY <3>2, <3>4, <4>1, <5>2
        <4>. QED BY <3>2, <4>1, <4>2 DEF r
      <3>. HIDE DEF h
      <3>. QED BY <3>1, <3>3, <3>4 DEF h
    <2>2. CASE UNCHANGED vars
      BY <2>2
    <2>. QED BY <1>1, <2>1, <2>2
  <1>. QED BY <1>1, DoublingInvariance, PTL DEF Spec, BucketsSplit
=============================================================================

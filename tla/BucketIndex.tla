----------------------------- MODULE BucketIndex -----------------------------
(***************************************************************************)
(* The index arithmetic of hash.rs and lock_ind_for of lock.rs.  A mask of *)
(* hp low bits is a remainder modulo 2^hp, and the exclusive or is taken   *)
(* bit by bit over those hp bits, the only ones the mask keeps.  What is   *)
(* recursive is a function on the naturals, so that it can be reasoned     *)
(* about by induction.                                                     *)
(*                                                                         *)
(* alt_index multiplies by a 64-bit constant with wrap-around.  The low 16 *)
(* bits of the product depend only on the low 16 bits of the factors, so   *)
(* with at most 16 of them kept (hp <= 16) the constant's low half-word    *)
(* gives the same indices.                                                 *)
(***************************************************************************)
EXTENDS Integers, FiniteSetsExt

MURMUR_CONST == 59797  \* 0xe995, the low 16 bits of 0xc6a4a7935bd1e995

\* 1usize << n
shl[n \in Nat] == IF n = 0 THEN 1 ELSE 2 * shl[n - 1]

hashsize(hp) == shl[hp]

BitOf(x, j) == (x \div hashsize(j)) % 2

\* The n low bits of a xor b.
XorLow(a, b, n) ==
  LET low[i \in Nat] ==
        IF i = 0 THEN 0
        ELSE low[i - 1] + hashsize(i - 1) * ((BitOf(a, i - 1) + BitOf(b, i - 1)) % 2)
  IN  low[n]

\* Mutant: takes the top bits of an eight-bit hash instead of the low ones.
IndexFromTop(hp, hash) == (hash * hashsize(hp)) \div 256

index_hash(hp, hash) == hash % hashsize(hp)

\* Mutant: adds the tag instead of exclusive-oring it.
AltByAdding(hp, partial, index) ==
  (index + (partial + 1) * MURMUR_CONST) % hashsize(hp)

alt_index(hp, partial, index) == XorLow(index, (partial + 1) * MURMUR_CONST, hp)

\* Mutant: spreads consecutive buckets over one stripe.
LockByRange(bucket_ind, num_locks) == (bucket_ind \div 2) % num_locks

lock_ind_for(bucket_ind, num_locks) == bucket_ind % num_locks

\* Mutant: rounds the number of buckets down.
ReserveRoundingDown(n, slots) ==
  CHOOSE hp \in 0 .. n : hashsize(hp) >= n \div slots
                         /\ \A j \in 0 .. hp - 1 : hashsize(j) < n \div slots

\* The least hashpower whose buckets hold n items.
reserve_calc(n, slots) ==
  LET buckets == (n + slots - 1) \div slots
  IN  CHOOSE hp \in 0 .. n : hashsize(hp) >= buckets
                             /\ \A j \in 0 .. hp - 1 : hashsize(j) < buckets
=============================================================================

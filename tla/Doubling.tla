------------------------------- MODULE Doubling -------------------------------
(***************************************************************************)
(* What a doubling does to the two buckets and the two stripes of one key. *)
(* The locks are made once, with the map, and never again: a thread may    *)
(* hold an index it computed several doublings ago, and the map relies on  *)
(* it to name the right stripe all the same.                               *)
(***************************************************************************)
EXTENDS BucketIndex

CONSTANTS
  Capacity,         \* capacities the map may be created with
  Hash, Partial,    \* the key's hash and partial
  SLOT_PER_BUCKET,
  MAX_NUM_LOCKS,
  MaxHashpower      \* no doubling beyond (bounds the model)

ASSUME DoublingAssumption ==
  /\ Capacity \subseteq Nat \ {0} /\ Hash \subseteq Nat /\ Partial \subseteq 0 .. 255
  /\ SLOT_PER_BUCKET \in Nat \ {0}
  /\ MaxHashpower \in 0 .. 15
  /\ \E s \in 0 .. 15 : MAX_NUM_LOCKS = hashsize(s)

VARIABLES capacity, hash, partial, num_locks, hashpower

vars == <<capacity, hash, partial, num_locks, hashpower>>

with_capacity_and_hasher(n) ==
  /\ hashpower = reserve_calc(n, SLOT_PER_BUCKET)
  /\ num_locks = Min({hashsize(hashpower), MAX_NUM_LOCKS})

Init ==
  /\ capacity \in Capacity /\ hash \in Hash /\ partial \in Partial
  /\ with_capacity_and_hasher(capacity)

Double ==
  /\ hashpower < MaxHashpower
  /\ hashpower' = hashpower + 1
  /\ UNCHANGED <<capacity, hash, partial, num_locks>>

Spec == Init /\ [][Double]_vars

-----------------------------------------------------------------------------
i1 == index_hash(hashpower, hash)
i2 == alt_index(hashpower, partial, i1)

\* The two buckets of a key lead to each other, so the alternate of a bucket
\* can be found from the partial alone, whichever of the two it is (the
\* "critical property" of alt_index).
AltInvolution ==
  /\ i2 \in 0 .. hashsize(hashpower) - 1
  /\ alt_index(hashpower, partial, i2) = i1

\* A stale index names the right stripe: each bucket of a key stays under
\* the lock it had at every earlier size.
StripesStay ==
  [][/\ lock_ind_for(i1', num_locks) = lock_ind_for(i1, num_locks)
     /\ lock_ind_for(i2', num_locks) = lock_ind_for(i2, num_locks)]_vars

\* Doubling sends what one bucket may hold to that bucket or to its image in
\* the upper half and nowhere else, and two buckets that were one may part
\* but two that were apart never become one.
BucketsSplit ==
  [][/\ i1' \in {i1, i1 + hashsize(hashpower)}
     /\ i2' \in {i2, i2 + hashsize(hashpower)}
     /\ i1 # i2 => i1' # i2']_vars

\* A map created for n items has slots for them.
CapacityHolds == capacity <= hashsize(hashpower) * SLOT_PER_BUCKET
=============================================================================

---------------------------- MODULE CuckooMapItems ----------------------------
(***************************************************************************)
(* When the stripe counters agree with the items of the map.  They do not  *)
(* in every execution: a hop that overwrites an item, or a rehash that     *)
(* finds no room for one, loses it and leaves its count, and an insert at  *)
(* indices of an earlier size may count a key twice.  Without these three, *)
(* ItemsInv is inductive: whatever the interleaving, each item enters and  *)
(* leaves the map once and is counted once.                                *)
(***************************************************************************)
EXTENDS CuckooMapBody

ASSUME ThreadsAssumption == IsFiniteSet(Thread)

(***************************************************************************)
(* A hop sets its item in a slot that is empty, and each item that a       *)
(* rehash comes to finds room.                                             *)
(***************************************************************************)
HopsIntoRoom ==
  \A t \in Thread : pc[t] = "move_set" =>
    LET to == loc[t].walk.path[loc[t].walk.at] IN ~occupied(buckets, to.bucket, to.slot)

RehashFindsRoom ==
  \A t \in Thread :
    LET old == loc[t].hp0
        pos == Positions(old)[loc[t].cur + 1]
    IN  /\ pc[t] = "rehash_one" => ~rehash_move(old, loc[t].old, Rehashing(t), pos).panic
        /\ pc[t] = "rehash_two" /\ loc[t].aside # <<>> =>
             ~rehash_place_item(old + 1, Rehashing(t), Head(loc[t].aside)).panic

LosesNothing == NoStaleIndices /\ HopsIntoRoom /\ RehashFindsRoom

-----------------------------------------------------------------------------
(***************************************************************************)
(* Who has the items while the table is replaced or cleared.  In a rehash, *)
(* each item of the old container is in the new one, put aside, or in a    *)
(* slot still to come.                                                     *)
(***************************************************************************)
ToCome(t) ==
  IF pc[t] = "rehash_one"
  THEN {CellAt(loc[t].hp0, loc[t].old, n) : n \in Behind(loc[t].hp0, loc[t].old, loc[t].cur)}
  ELSE {}

Moving(t) == ItemsOf(buckets) \cup Range(loc[t].aside) \cup ToCome(t)

ThreadItems(t) ==
  /\ pc[t] \in RehashLabels => ItemsOf(loc[t].old) = Moving(t)
  /\ pc[t] = "clear" /\ loc[t].cur > 0 =>
       /\ ItemsOf(buckets) \subseteq ItemsOf(loc[t].old)
       /\ \A n \in 1 .. loc[t].cur : CellAt(hashpower, buckets, n) = None
  /\ pc[t] = "clear_count" =>
       /\ ItemsOf(buckets) = {}
       /\ \A l \in Lock : l < loc[t].cur => elem_counter[l] = 0

ItemsInv == IsFiniteSet(Items) /\ CountersAgree /\ \A t \in Thread : ThreadItems(t)

-----------------------------------------------------------------------------
\* As long as no hop overwrites an item, no rehash gives up and no insert uses
\* old indices, no step makes the counters differ from the items: neither
\* overlapping inserts and removes, nor hops, doublings and clears.
KeptCounted == [][HomeInv /\ ItemsInv /\ LosesNothing => ItemsInv']_vars
=============================================================================

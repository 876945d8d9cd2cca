---------------------------- MODULE CuckooMapHome ----------------------------
(***************************************************************************)
(* When every item is where a lookup looks for it, and no key is in the    *)
(* map twice.  Neither holds of every execution: an insert that computed   *)
(* its indices before a doubling and locks them after it writes at an      *)
(* index of the old size.  That is the only way to break them: as long as  *)
(* NoStaleIndices holds, HomeInv is inductive.                             *)
(***************************************************************************)
EXTENDS CuckooMapInv

\* The map starts with each key in one of its own buckets, and there once.
ASSUME PreloadAssumption ==
  \A s \in DOMAIN Script : Legal(InitHashpower, Preloaded(Preload[s]))

(***************************************************************************)
(* The indices with which a call enters its critical section, and those    *)
(* from which an insert starts to displace, are of the current size.       *)
(***************************************************************************)
FreshIndices(t) ==
  /\ pc[t] \in SnapshotLabels /\ guard[t].phase = "held" /\ resize_counter = loc[t].counter
       => loc[t].hp = hashpower
  /\ pc[t] = "cuckoo_hp" => loc[t].hp = hashpower

NoStaleIndices == \A t \in Thread : FreshIndices(t)

\* What a single caller keeps: from the load of the size until the indices are
\* used, the size is the current one.
CurrentIndices(t) ==
  pc[t] \in {"snapshot_counter", "cuckoo_hp"} \cup SnapshotLabels => loc[t].hp = hashpower

-----------------------------------------------------------------------------
(***************************************************************************)
(* What a rehash has still to place: the items put aside, and those of the *)
(* old container behind slot cur.  No two have the same key, and the new   *)
(* container has none of their keys yet.                                   *)
(***************************************************************************)
CellAt(hp, old, n) == old[Positions(hp)[n][1]][Positions(hp)[n][2]]

AsideApart(tab, aside) ==
  /\ \A i \in DOMAIN aside : ~HasKey(tab, aside[i].key)
  /\ \A i, j \in DOMAIN aside : aside[i].key = aside[j].key => i = j

Behind(hp, old, cur) ==
  {n \in DOMAIN Positions(hp) : n > cur /\ CellAt(hp, old, n) # None}

BehindApart(hp, old, cur, tab, aside) ==
  /\ \A n \in Behind(hp, old, cur) :
       /\ ~HasKey(tab, CellAt(hp, old, n).key)
       /\ \A i \in DOMAIN aside : aside[i].key # CellAt(hp, old, n).key
  /\ \A m, n \in Behind(hp, old, cur) :
       CellAt(hp, old, m).key = CellAt(hp, old, n).key => m = n

RehashApart(t) ==
  /\ pc[t] \in RehashLabels => AsideApart(buckets, loc[t].aside)
  /\ pc[t] = "rehash_one" =>
       BehindApart(loc[t].hp0, loc[t].old, loc[t].cur, buckets, loc[t].aside)

(***************************************************************************)
(* The item that a hop carries comes from one of its own buckets, and its  *)
(* key is in no other slot.                                                *)
(***************************************************************************)
CarryApart(t) ==
  pc[t] = "move_set" =>
    LET w == loc[t].walk IN
    /\ ~HasKey(buckets, w.carry.key)
    /\ w.path[w.at - 1].bucket \in Homes(w.carry.key)

(***************************************************************************)
(* The slot that run_cuckoo has emptied is in one of the key's buckets, at *)
(* the size that the insert will compare with the current one.             *)
(***************************************************************************)
SpotFresh(t) ==
  /\ pc[t] \in Cuckoo \ {"cuckoo_hp"} => loc[t].hp = loc[t].cuckoo_hp
  /\ \/ pc[t] \in {"recheck_hp", "recheck"}
     \/ pc[t] \in Snapshots /\ loc[t].then = "recheck"
     => loc[t].spot[1] \in HomesOf(loc[t].cuckoo_hp, call[t].key)

ThreadHome(t) == RehashApart(t) /\ CarryApart(t) /\ SpotFresh(t)

HomeInv == Legal(hashpower, buckets) /\ \A t \in Thread : ThreadHome(t)

-----------------------------------------------------------------------------
\* Only an insert that uses indices of an earlier size can misplace an item or
\* duplicate a key: neither the interleaving of hops, rehashes and removes,
\* nor an insert that claims a slot and waits while the table is doubled.
KeptHome == [][HomeInv /\ NoStaleIndices => HomeInv']_vars
=============================================================================

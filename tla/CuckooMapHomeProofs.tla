------------------------- MODULE CuckooMapHomeProofs -------------------------
(***************************************************************************)
(* As long as no insert uses indices of an earlier size, every item is in  *)
(* a bucket of its key and no key is in the map twice, whatever the        *)
(* threads, keys, hashes, table sizes and scripts.                         *)
(*                                                                         *)
(* A step keeps the table legal and leaves its thread at home; what it     *)
(* does to the table is confined by its stripes (TableKept), so that the   *)
(* items other threads carry or rehash stay apart.                         *)
(***************************************************************************)
EXTENDS CuckooMapInvProofs, CuckooMapBody

TableKept(t) ==
  \/ UNCHANGED <<buckets, hashpower>>
  \/ \A l \in Lock : Writing(t, l)
  \/ /\ hashpower' = hashpower
     /\ \A k \in Key : HasKey(buckets, k)' /\ ~HasKey(buckets, k)
                         => \E b \in Homes(k) : Writing(t, lock_ind(b))

HomeStep(t) == Legal(hashpower, buckets)' /\ ThreadHome(t)' /\ TableKept(t)

-----------------------------------------------------------------------------
(***************************************************************************)
(* Hops.                                                                   *)
(***************************************************************************)
LEMMA HomesAre ==
  ASSUME NEW hp \in Nat, NEW k \in Key, NEW b \in HomesOf(hp, k)
  PROVE  HomesOf(hp, k) = {b, alt_index(hp, hash_key[k].partial, b)}
  <1>1. CASE b = Bucket1(hp, k)
    BY <1>1 DEF HomesOf, Bucket2
  <1>2. CASE b = Bucket2(hp, k)
    <2>1. Bucket1(hp, k) \in 0 .. hashsize(hp) - 1
      BY BucketType DEF Index
    <2>2. alt_index(hp, hash_key[k].partial, b) = Bucket1(hp, k)
      BY <1>2, <2>1, HashKeyType, AltIndexInvolution, Zenon DEF Bucket2
    <2>. QED BY <1>2, <2>2 DEF HomesOf
  <1>. QED BY <1>1, <1>2 DEF HomesOf

\* The two buckets of a hop are those of the key it moves.
LEMMA HopHomes ==
  ASSUME NEW t \in Thread, IInv, MapInv, pc[t] \in {"move", "move_set"},
         guard[t].phase \in {"none", "held"}, NEW w, w = loc[t].walk, hashpower = w.hp,
         NEW k \in Key, w.path[w.at - 1].hv # None,
         w.path[w.at - 1].hv.partial = hash_key[k].partial,
         w.path[w.at - 1].bucket \in Homes(k)
  PROVE  /\ Homes(k) = {w.path[w.at - 1].bucket, w.path[w.at].bucket}
         /\ \A b \in Homes(k) : Writing(t, lock_ind(b))
  <1>1. /\ w.at - 1 \in DOMAIN w.path
        /\ Writing(t, lock_ind(w.path[w.at - 1].bucket))
        /\ Writing(t, lock_ind(w.path[w.at].bucket))
    BY HopKnows
  <1>2. PathFits(t) /\ w.at \in Nat /\ hashpower \in Nat
    BY PathKnows, Knows DEF OnPath, Hopping
  <1>3. PICK i \in DOMAIN w.path : i = w.at - 1 /\ i < w.at /\ i + 1 = w.at
    <2>1. w.at - 1 < w.at /\ (w.at - 1) + 1 = w.at
      BY <1>2
    <2>. QED BY <1>1, <2>1, Zenon
  <1>4. w.path[i + 1].bucket = alt_index(w.hp, w.path[i].hv.partial, w.path[i].bucket)
    BY <1>2, <1>3, Zenon DEF PathFits, Linked
  <1>5. Homes(k) = HomesOf(hashpower, k)
    BY Zenon DEF Homes, HomesOf
  <1>6. Homes(k) = {w.path[w.at - 1].bucket, w.path[w.at].bucket}
    <2>. PICK b : b = w.path[i].bucket
      OBVIOUS
    <2>1. b \in HomesOf(hashpower, k) /\ w.path[i].hv.partial = hash_key[k].partial
      BY <1>3, <1>5
    <2>2. HomesOf(hashpower, k) = {b, alt_index(hashpower, hash_key[k].partial, b)}
      BY <1>2, <2>1, HomesAre, SMTT(30)
    <2>. QED BY <1>3, <1>4, <1>5, <2>1, <2>2, Zenon
  <1>. QED BY <1>1, <1>6, Zenon

\* What a hop that carries an item has in hand.
LEMMA CarryHolds ==
  ASSUME NEW t \in Thread, IInv, MapInv, ThreadHome(t), pc[t] = "move_set",
         NEW w, w = loc[t].walk
  PROVE  /\ w.carry \in Item /\ guard[t].phase = "held" /\ hashpower = w.hp
         /\ Homes(w.carry.key) = {w.path[w.at - 1].bucket, w.path[w.at].bucket}
         /\ \A b \in Homes(w.carry.key) : Writing(t, lock_ind(b))
  <1>1. ThreadFits(t)
    BY Knows
  <1>2. /\ w.carry \in Item /\ w.path[w.at - 1].hv # None /\ hashpower = w.hp
        /\ w.path[w.at - 1].hv.partial = hash_key[w.carry.key].partial
    BY <1>1 DEF ThreadFits, WalkFits, HoldFits
  <1>3. guard[t].phase = "held"
    BY <1>1 DEF ThreadFits, GuardFits, Inside, InHop, Late
  <1>4. w.carry.key \in Key /\ w.path[w.at - 1].bucket \in Homes(w.carry.key)
    BY <1>2 DEF Item, ThreadHome, CarryApart
  <1>. QED BY <1>2, <1>3, <1>4, HopHomes, Zenon

-----------------------------------------------------------------------------
(***************************************************************************)
(* What a step of t leaves true of another thread.                         *)
(***************************************************************************)
LEMMA OthersHome ==
  ASSUME NEW t \in Thread, NEW u \in Thread, u # t, IInv, MapInv, ThreadHome(u),
         Only(t), Frame(t), TableTypes', TableKept(t)
  PROVE  ThreadHome(u)'
  <1>1. /\ pc'[u] = pc[u] /\ call'[u] = call[u] /\ loc'[u] = loc[u] /\ guard'[u] = guard[u]
    BY DEF Only, OthersKeep
  <1>2. ThreadFits(u) /\ TableTypes
    BY Knows
  <1>3. SpotFresh(u)'
    BY <1>1 DEF ThreadHome, SpotFresh
  <1>4. RehashApart(u)'
    <2>1. CASE pc[u] \in RehashLabels
      <3>1. guard[u].phase = "held" /\ guard[u].want = Lock
        BY <1>2, <2>1 DEF ThreadFits, GuardFits, WantAt, Inside, InWhole, InPair, InHop,
                          SnapshotLabels, RehashLabels, Late, InBodies, Optimistic, Snapshots,
                          Validating, Zenon
      <3>2. UNCHANGED <<buckets, hashpower>>
        BY <1>2, <3>1, SameTableFor
      <3>. QED BY <1>1, <3>2 DEF ThreadHome, RehashApart
    <2>2. CASE pc[u] \notin RehashLabels
      BY <1>1, <2>2 DEF RehashApart, RehashLabels
    <2>. QED BY <2>1, <2>2
  <1>5. CarryApart(u)'
    <2> SUFFICES ASSUME pc[u] = "move_set" PROVE CarryApart(u)'
      BY <1>1 DEF CarryApart
    <2>. PICK w : w = loc[u].walk
      OBVIOUS
    <2>1. /\ w.carry \in Item /\ guard[u].phase = "held"
          /\ Homes(w.carry.key) = {w.path[w.at - 1].bucket, w.path[w.at].bucket}
          /\ \A b \in Homes(w.carry.key) : Writing(u, lock_ind(b))
      BY CarryHolds, Zenon
    <2>. PICK k : k = w.carry.key
      OBVIOUS
    <2>2. k \in Key /\ ~HasKey(buckets, k) /\ w.path[w.at - 1].bucket \in Homes(k)
      BY <2>1, Zenon DEF Item, ThreadHome, CarryApart
    <2>3. \A b \in Homes(k) : lock_ind(b) \in guard[u].want /\ lock_ind(b) \in guard[u].got
                              /\ lock_ind(b) \in Lock
      BY <2>1, HeldGuard DEF Writing
    <2>4. \A b \in Homes(k) : ~Writing(t, lock_ind(b))
      BY <2>3, WritersApart, Zenon
    <2>5. hashpower' = hashpower
      BY <2>1, <2>2, <2>3, SameSizeFor, Zenon
    <2>6. ~HasKey(buckets, k)'
      BY <2>2, <2>3, <2>4 DEF TableKept
    <2>7. w.path[w.at - 1].bucket \in Homes(k)'
      BY <2>2, <2>5 DEF Homes
    <2>. QED BY <1>1, <2>6, <2>7 DEF CarryApart
  <1>. QED BY <1>3, <1>4, <1>5 DEF ThreadHome

LEMMA StepHomeInv ==
  ASSUME NEW t \in Thread, IInv, MapInv, HomeInv, Good(t), HomeStep(t)
  PROVE  HomeInv'
  BY OthersHome DEF HomeInv, HomeStep, Good

-----------------------------------------------------------------------------
(***************************************************************************)
(* Steps that leave the table alone.                                       *)
(***************************************************************************)
SpotLabels == (Cuckoo \ {"cuckoo_hp"}) \cup {"recheck"} \cup Snapshots

LEMMA QuietHome ==
  ASSUME NEW t \in Thread, HomeInv, UNCHANGED <<buckets, hashpower>>,
         pc'[t] \notin RehashLabels \cup {"move_set"}, SpotFresh(t)'
  PROVE  HomeStep(t)
  <1>1. Legal(hashpower, buckets)'
    BY DEF HomeInv
  <1>2. RehashApart(t)' /\ CarryApart(t)'
    BY DEF RehashApart, CarryApart, RehashLabels
  <1>. QED BY <1>1, <1>2 DEF HomeStep, ThreadHome, TableKept

\* A step to a label where nothing is asked of the thread.
LEMMA CalmHome ==
  ASSUME NEW t \in Thread, MapInv, HomeInv, UNCHANGED <<buckets, hashpower>>,
         NEW p, Goto(t, p), p \notin SpotLabels \cup RehashLabels
  PROVE  HomeStep(t)
  <1>1. pc'[t] = p
    BY Knows DEF Goto, Domains
  <1>2. SpotFresh(t)'
    BY <1>1 DEF SpotFresh, SpotLabels, Cuckoo
  <1>3. "move_set" \in SpotLabels
    BY DEF SpotLabels, Cuckoo, OnPath, Hopping
  <1>. QED BY <1>1, <1>2, <1>3, QuietHome

\* A snapshot for an operation that has claimed no slot.
LEMMA SnapshotHome ==
  ASSUME NEW t \in Thread, MapInv, HomeInv, UNCHANGED <<buckets, hashpower>>,
         NEW p \in Snapshots, Goto(t, p), NEW l, Local(t, l), l.then # "recheck"
  PROVE  HomeStep(t)
  <1>1. pc'[t] = p /\ loc'[t] = l
    BY Knows DEF Goto, Local, Domains
  <1>2. SpotFresh(t)'
    BY <1>1 DEF SpotFresh, Snapshots, Cuckoo, OnPath, Hopping
  <1>. QED BY <1>1, <1>2, QuietHome DEF Snapshots, RehashLabels

LEMMA StartHome ==
  ASSUME NEW t \in Thread, MapInv, HomeInv, UNCHANGED <<buckets, hashpower>>,
         NEW c \in BodyCall \cup IterCall, Start(t, c)
  PROVE  HomeStep(t)
  <1>. DEFINE l == [NoLocals EXCEPT !.then = IF c.op = "get_key_value" THEN "find" ELSE c.op]
  <1>1. Local(t, l) /\ Goto(t, EntryLabel(c.op))
    BY DEF Start, Jump
  <1>2. l.then # "recheck"
    BY EntryFits
  <1>3. EntryLabel(c.op) \in {"read_hp", "snapshot_hp", "insert_hp", "clear_lock", "iter_lock", "len",
                              "set_maximum", "set_minimum"}
    BY EntryFits
  <1>. HIDE DEF l
  <1>4. CASE EntryLabel(c.op) = "snapshot_hp"
    BY <1>1, <1>2, <1>4, SnapshotHome DEF Snapshots
  <1>5. CASE EntryLabel(c.op) # "snapshot_hp"
    BY <1>1, <1>3, <1>5, CalmHome DEF SpotLabels, RehashLabels, Cuckoo, OnPath, Hopping, Snapshots
  <1>. QED BY <1>4, <1>5

LEMMA LookupHome ==
  ASSUME NEW t \in Thread, MapInv, HomeInv, Lookup(t)
  PROVE  HomeStep(t)
  <1>1. UNCHANGED <<buckets, hashpower>>
    BY DEF Lookup, read_hp, ReadHashpower, read_counter, read_v1, read_v2, read_cells, after_v1,
           after_v2, after_counter, find, tableVars
  <1>2. CASE \E l : Retry(t, l)
    <2>. DEFINE m(x) == [NoLocals EXCEPT !.tries = x.tries + 1, !.then = "find"]
    <2>1. PICK x : Retry(t, x)
      BY <1>2
    <2>2. PICK p \in {"read_hp", "snapshot_hp"} : Local(t, m(x)) /\ Goto(t, p)
      BY <2>1 DEF Retry, Jump
    <2>3. m(x).then # "recheck"
      BY DEF NoLocals
    <2>. HIDE DEF m
    <2>4. CASE p = "snapshot_hp"
      BY <1>1, <2>2, <2>3, <2>4, SnapshotHome DEF Snapshots
    <2>5. CASE p = "read_hp"
      BY <1>1, <2>2, <2>5, CalmHome DEF SpotLabels, RehashLabels, Cuckoo, OnPath, Hopping, Snapshots
    <2>. QED BY <2>2, <2>4, <2>5
  <1>3. ASSUME ~\E l : Retry(t, l)
        PROVE  \E p \in {"read_counter", "read_v1", "read_v2", "read_cells", "after_v1", "after_v2",
                         "after_counter", "return"} : Goto(t, p)
    <2>1. CASE read_hp(t) \/ read_counter(t)
      BY <2>1 DEF read_hp, ReadHashpower, read_counter, Jump
    <2>2. CASE read_v1(t) \/ read_v2(t)
      BY <1>3, <2>2 DEF read_v1, read_v2, StartReading, Jump
    <2>3. CASE read_cells(t) \/ after_v1(t) \/ after_v2(t)
      BY <2>3 DEF read_cells, after_v1, after_v2, Jump
    <2>4. CASE after_counter(t) \/ find(t)
      BY <1>3, <2>4 DEF after_counter, find, Jump, Leave
    <2>. QED BY <2>1, <2>2, <2>3, <2>4 DEF Lookup
  <1>. QED BY <1>1, <1>2, <1>3, CalmHome DEF SpotLabels, RehashLabels, Cuckoo, OnPath, Hopping, Snapshots

LEMMA SnapshotsHome ==
  ASSUME NEW t \in Thread, MapInv, HomeInv, Snapshot(t)
  PROVE  HomeStep(t)
  <1>1. /\ ThreadFits(t) /\ LocalsFit(loc[t]) /\ Domains /\ SpotFresh(t)
    BY Knows DEF HomeInv, ThreadHome
  <1>2. /\ UNCHANGED <<buckets, hashpower>> /\ call' = call
        /\ pc[t] \in Snapshots \cup SnapshotLabels /\ pc'[t] \in Snapshots \cup SnapshotLabels
        /\ pc'[t] \in SnapshotLabels => pc'[t] = loc[t].then
        /\ pc[t] \in SnapshotLabels => pc[t] = loc[t].then
        /\ loc'[t].then = loc[t].then /\ loc'[t].spot = loc[t].spot
        /\ loc'[t].cuckoo_hp = loc[t].cuckoo_hp
    <2>1. CASE snapshot_hp(t)
      BY <1>1, <2>1 DEF snapshot_hp, ReadHashpower, At, Jump, Goto, Local, Domains, LocalsFit,
                        NoLocals, Snapshots, SnapshotLabels, tableVars, threadVars, callVars
    <2>2. CASE snapshot_counter(t)
      <3>1. loc[t].then \in SnapshotLabels /\ pc[t] = "snapshot_counter"
        BY <1>1, <2>2 DEF snapshot_counter, At, ThreadFits, CallFits, LabelFits, Snapshots,
                          SnapshotLabels
      <3>. QED BY <1>1, <2>2, <3>1
             DEF snapshot_counter, WithIndices, Enter, Goto, Local, Domains, LocalsFit, NoLocals,
                 Snapshots, SnapshotLabels, tableVars, threadVars, callVars
    <2>3. CASE snapshot_retry(t)
      <3>1. pc[t] \in SnapshotLabels /\ pc[t] = loc[t].then
        BY <1>1, <2>3 DEF snapshot_retry, At, ThreadFits, CallFits, LabelFits
      <3>. QED BY <1>1, <2>3, <3>1
             DEF snapshot_retry, Leave, Goto, Domains, Snapshots, SnapshotLabels, tableVars,
                 threadVars, callVars
    <2>. QED BY <2>1, <2>2, <2>3 DEF Snapshot
  <1>3. SpotFresh(t)'
    BY <1>1, <1>2 DEF SpotFresh, Snapshots, SnapshotLabels, Cuckoo, OnPath, Hopping
  <1>. QED BY <1>2, <1>3, QuietHome DEF Snapshots, SnapshotLabels, RehashLabels

-----------------------------------------------------------------------------
(***************************************************************************)
(* run_cuckoo.                                                             *)
(***************************************************************************)
\* run_cuckoo touches neither the insert's indices nor its hashpower.
LEMMA WalkAsHome ==
  ASSUME NEW t \in Thread, MapInv, HomeInv, pc[t] \in Cuckoo \ {"cuckoo_hp"},
         loc' = loc \/ \E w : Walk(t, w)
  PROVE  loc'[t].hp = loc'[t].cuckoo_hp
  <1>1. LocalsFit(loc[t]) /\ Domains /\ loc[t].hp = loc[t].cuckoo_hp
    BY Knows DEF HomeInv, ThreadHome, SpotFresh
  <1>. QED BY <1>1 DEF Walk, Local, Domains, LocalsFit, NoLocals

LEMMA WalkHome ==
  ASSUME NEW t \in Thread, MapInv, HomeInv, UNCHANGED <<buckets, hashpower>>,
         pc[t] \in Cuckoo \ {"cuckoo_hp"}, loc' = loc \/ \E w : Walk(t, w),
         NEW p, Goto(t, p), p \notin {"recheck_hp", "recheck", "move_set"} \cup RehashLabels \cup Snapshots
  PROVE  HomeStep(t)
  <1>1. pc'[t] = p
    BY Knows DEF Goto, Domains
  <1>2. SpotFresh(t)'
    BY <1>1, WalkAsHome DEF SpotFresh
  <1>. QED BY <1>1, <1>2, QuietHome

\* The slot that run_cuckoo answers with.
LEMMA SpotHome ==
  ASSUME NEW t \in Thread, MapInv, HomeInv, pc[t] \in {"claim", "move_set"},
         call' = call, NEW s, s[1] = loc[t].walk.path[0].bucket,
         Local(t, [loc[t] EXCEPT !.spot = s, !.walk = NoWalk]), Goto(t, "recheck_hp")
  PROVE  SpotFresh(t)' /\ pc'[t] = "recheck_hp"
  <1>1. /\ ThreadFits(t) /\ LocalsFit(loc[t]) /\ Domains /\ loc[t].hp = loc[t].cuckoo_hp
    BY Knows DEF HomeInv, ThreadHome, SpotFresh, Cuckoo, OnPath, Hopping
  <1>2. /\ loc'[t].hp = loc[t].hp /\ loc'[t].cuckoo_hp = loc[t].cuckoo_hp /\ loc'[t].spot = s
        /\ pc'[t] = "recheck_hp"
    BY <1>1 DEF Goto, Local, Domains, LocalsFit, NoLocals
  <1>3. loc[t].walk.path[0].bucket \in {loc[t].i1, loc[t].i2}
    BY PathKnows DEF OnPath, Hopping
  <1>4. s[1] \in HomesOf(loc[t].cuckoo_hp, call[t].key)
    BY <1>1, <1>3 DEF ThreadFits, IndexFits, Indexed, Cuckoo, OnPath, Hopping, HomesOf
  <1>. QED BY <1>1, <1>2, <1>4 DEF SpotFresh, Snapshots

LEMMA ClaimHome ==
  ASSUME NEW t \in Thread, MapInv, HomeInv, claim(t)
  PROVE  HomeStep(t)
  <1>. DEFINE r == loc[t].walk.path[0]
  <1>1. pc[t] = "claim" /\ UNCHANGED <<buckets, hashpower>> /\ call' = call
    BY DEF claim, At, tableVars, threadVars, callVars
  <1>2. CASE Goto(t, "run_hp") /\ UNCHANGED loc
    BY <1>1, <1>2, WalkHome DEF Cuckoo, OnPath, Hopping, Snapshots, RehashLabels
  <1>3. CASE /\ Local(t, [loc[t] EXCEPT !.spot = <<r.bucket, r.slot>>, !.walk = NoWalk])
             /\ Goto(t, "recheck_hp")
    <2>1. PICK s : s = <<r.bucket, r.slot>>
      OBVIOUS
    <2>2. SpotFresh(t)' /\ pc'[t] = "recheck_hp"
      BY <1>1, <1>3, <2>1, SpotHome
    <2>. QED BY <1>1, <2>2, QuietHome DEF RehashLabels
  <1>. QED BY <1>2, <1>3 DEF claim, Leave

LEMMA MoveHome ==
  ASSUME NEW t \in Thread, IInv, MapInv, HomeInv, move(t)
  PROVE  HomeStep(t)
  <1>. DEFINE w    == loc[t].walk
              from == w.path[w.at - 1]
              cell == buckets[from.bucket][from.slot]
              w2   == [w EXCEPT !.carry = cell]
  <1>1. pc[t] = "move" /\ guard[t].phase \in {"none", "held"} /\ hashpower' = hashpower
    BY Zenon DEF move, At
  <1>2. CASE Goto(t, "run_hp") /\ UNCHANGED <<buckets, loc>>
    BY <1>1, <1>2, WalkHome DEF Cuckoo, OnPath, Hopping, Snapshots, RehashLabels
  <1>3. ASSUME cell # None, Walk(t, w2), buckets' = erase_kv(buckets, from.bucket, from.slot),
               Goto(t, "move_set")
        PROVE  HomeStep(t)
    <2>1. /\ Domains /\ LocalsFit(loc[t]) /\ hashpower \in Nat /\ buckets \in TabType(hashpower)
          /\ Legal(hashpower, buckets)
      BY Knows DEF TableTypes, HomeInv
    <2>2. from.bucket \in Index(hashpower) /\ from.slot \in Slot
      <3>1. w.at - 1 \in DOMAIN w.path
        BY <1>1, HopKnows
      <3>. QED BY <1>1, <3>1, PathKnows DEF OnPath, Hopping
    <2>3. /\ loc'[t].walk.carry = cell /\ loc'[t].walk.path = w.path /\ loc'[t].walk.at = w.at
          /\ pc'[t] = "move_set"
      BY <1>3, <2>1, Zenon DEF Walk, Local, Goto, Domains, LocalsFit, NoLocals, NoWalk
    <2>4. loc'[t].hp = loc'[t].cuckoo_hp
      BY <1>1, <1>3, WalkAsHome, Zenon DEF Cuckoo, OnPath, Hopping
    <2>. HIDE DEF w, from, w2
    <2>. PICK k, b : k = cell.key /\ b = from.bucket
      OBVIOUS
    <2>5. /\ Legal(hashpower, buckets)' /\ ~HasKey(buckets, k)'
          /\ \A x : HasKey(buckets, x)' => HasKey(buckets, x)
      BY <1>1, <1>3, <2>1, <2>2, EraseLegal
    <2>6. b \in Homes(k)
      BY <1>3, <2>1, <2>2, LegalCells DEF HomesOf, Homes
    <2>7. CarryApart(t)'
      <3>1. b \in Homes(k)'
        BY <1>1, <2>6 DEF Homes
      <3>2. /\ loc'[t].walk.carry.key = k
            /\ loc'[t].walk.path[loc'[t].walk.at - 1].bucket = b
        BY <2>3 DEF from
      <3>. QED BY <2>5, <3>1, <3>2 DEF CarryApart
    <2>8. SpotFresh(t)' /\ RehashApart(t)'
      BY <2>3, <2>4 DEF SpotFresh, RehashApart, RehashLabels, Snapshots
    <2>9. TableKept(t)
      BY <1>1, <2>5 DEF TableKept
    <2>. QED BY <2>5, <2>7, <2>8, <2>9 DEF HomeStep, ThreadHome
  <1>. QED BY <1>2, <1>3, Zenon DEF move, AsExpected, Jump, Leave

LEMMA MoveSetHome ==
  ASSUME NEW t \in Thread, IInv, MapInv, HomeInv, move_set(t)
  PROVE  HomeStep(t)
  <1>. DEFINE w    == loc[t].walk
              from == w.path[w.at - 1]
              to   == w.path[w.at]
              s    == <<from.bucket, from.slot>>
  <1>1. /\ pc[t] = "move_set" /\ hashpower' = hashpower /\ call' = call
        /\ buckets' = set_kv(buckets, to.bucket, to.slot, w.carry)
    BY DEF move_set, At, threadVars, callVars
  <1>2. /\ Domains /\ LocalsFit(loc[t]) /\ hashpower \in Nat /\ buckets \in TabType(hashpower)
        /\ Legal(hashpower, buckets) /\ ThreadHome(t)
    BY Knows DEF TableTypes, HomeInv
  <1>3. /\ w.carry \in Item /\ to.bucket \in Homes(w.carry.key)
        /\ \A b \in Homes(w.carry.key) : Writing(t, lock_ind(b))
    BY <1>1, <1>2, CarryHolds
  <1>4. ~HasKey(buckets, w.carry.key)
    BY <1>1, <1>2 DEF ThreadHome, CarryApart
  <1>5. to.bucket \in Index(hashpower) /\ to.slot \in Slot
    BY <1>1, PathKnows, Zenon DEF OnPath, Hopping
  <1>6. \/ /\ s[1] = w.path[0].bucket
           /\ Local(t, [loc[t] EXCEPT !.spot = s, !.walk = NoWalk]) /\ Goto(t, "recheck_hp")
        \/ (\E x : Walk(t, x)) /\ Goto(t, "from_version")
    <2>1. DOMAIN w = DOMAIN NoWalk
      BY <1>2 DEF LocalsFit
    <2>. QED BY <2>1, Zenon DEF move_set, Leave, NoWalk
  <1>. HIDE DEF w, from, to, s
  <1>7. /\ Legal(hashpower, buckets)'
        /\ \A k : HasKey(buckets, k)' => HasKey(buckets, k) \/ k = w.carry.key
    <2>1. to.bucket \in HomesOf(hashpower, w.carry.key)
      BY <1>3 DEF Homes, HomesOf
    <2>. QED BY <1>1, <1>2, <1>3, <1>4, <1>5, <2>1, SetLegal
  <1>8. TableKept(t)
    BY <1>1, <1>3, <1>7 DEF TableKept
  <1>9. SpotFresh(t)' /\ pc'[t] \in {"recheck_hp", "from_version"}
    <2>1. CASE /\ s[1] = w.path[0].bucket
               /\ Local(t, [loc[t] EXCEPT !.spot = s, !.walk = NoWalk]) /\ Goto(t, "recheck_hp")
      BY <1>1, <2>1, SpotHome DEF w
    <2>2. CASE (\E x : Walk(t, x)) /\ Goto(t, "from_version")
      <3>1. loc'[t].hp = loc'[t].cuckoo_hp
        BY <1>1, <2>2, WalkAsHome DEF Cuckoo, OnPath, Hopping
      <3>2. pc'[t] = "from_version"
        BY <1>2, <2>2 DEF Goto, Domains
      <3>. QED BY <3>1, <3>2 DEF SpotFresh, Snapshots
    <2>. QED BY <1>6, <2>1, <2>2
  <1>10. RehashApart(t)' /\ CarryApart(t)'
    BY <1>9 DEF RehashApart, RehashLabels, CarryApart
  <1>. QED BY <1>7, <1>8, <1>9, <1>10 DEF HomeStep, ThreadHome

LEMMA RunCuckooHome ==
  ASSUME NEW t \in Thread, IInv, MapInv, HomeInv, RunCuckoo(t)
  PROVE  HomeStep(t)
  <1>1. CASE claim(t) \/ move(t) \/ move_set(t)
    BY <1>1, ClaimHome, MoveHome, MoveSetHome
  <1>2. CASE run_hp(t) \/ run_counter(t) \/ search_counter(t) \/ search_slot(t) \/ search_partial(t)
    <2>1. /\ UNCHANGED <<buckets, hashpower>>
          /\ pc[t] \in {"run_hp", "run_counter", "slot_search", "search_partial"}
          /\ loc' = loc \/ \E w : Walk(t, w)
          /\ \E p \in {"run_counter", "slot_search", "search_partial", "path_counter", "double"} :
                Goto(t, p)
      <3>1. CASE run_hp(t) \/ run_counter(t) \/ search_counter(t)
        BY <3>1, Zenon DEF run_hp, run_counter, search_counter, At, GiveUp, Jump, tableVars
      <3>2. CASE search_slot(t)
        BY <3>2, Zenon DEF search_slot, ScanOn, At, GiveUp, Jump, tableVars
      <3>3. CASE search_partial(t)
        BY <3>3, Zenon DEF search_partial, ScanOn, At, GiveUp, Jump, tableVars
      <3>. QED BY <1>2, <3>1, <3>2, <3>3
    <2>. QED BY <2>1, WalkHome, Zenon DEF Cuckoo, RehashLabels, Snapshots
  <1>3. CASE path_counter(t) \/ path_version(t) \/ path_occupied(t) \/ path_key(t)
    <2>1. /\ UNCHANGED <<buckets, hashpower>>
          /\ pc[t] \in {"path_counter", "path_version", "path_occupied", "path_key"}
          /\ loc' = loc \/ \E w : Walk(t, w)
          /\ \E p \in {"path_counter", "path_version", "path_occupied", "path_key", "claim_version",
                       "from_version", "double", "panicked"} : Goto(t, p)
      BY <1>3, Zenon DEF path_counter, path_version, path_occupied, path_key, At, GiveUp, Jump, tableVars,
                  StartMove
    <2>. QED BY <2>1, WalkHome DEF Cuckoo, OnPath, RehashLabels, Snapshots
  <1>4. CASE claim_version(t) \/ from_version(t) \/ to_version(t)
    <2>1. /\ UNCHANGED <<buckets, hashpower>> /\ loc' = loc
          /\ pc[t] \in {"claim_version", "from_version", "to_version"}
          /\ \E p \in {"run_hp", "claim", "to_version", "move"} : Goto(t, p)
      BY <1>4 DEF claim_version, from_version, to_version, At, Jump, Enter, tableVars
    <2>. QED BY <2>1, WalkHome DEF Cuckoo, OnPath, Hopping, RehashLabels, Snapshots
  <1>. QED BY <1>1, <1>2, <1>3, <1>4 DEF RunCuckoo

-----------------------------------------------------------------------------
(***************************************************************************)
(* insert and remove.                                                      *)
(***************************************************************************)
\* In a legal table, a search that finds nothing means the key is absent.
LEMMA FindsKey ==
  ASSUME NEW hp \in Nat, NEW tab \in TabType(hp), Legal(hp, tab), NEW k \in Key,
         cuckoo_find(tab, k, Bucket1(hp, k), Bucket2(hp, k)) = {}
  PROVE  ~HasKey(tab, k)
  <1> SUFFICES ASSUME HasKey(tab, k) PROVE FALSE
    OBVIOUS
  <1>1. PICK b \in Index(hp), s \in Slot : tab[b][s] # None /\ tab[b][s].key = k
    BY HasKeyCell
  <1>2. b \in HomesOf(hp, k)
    BY <1>1, LegalCells
  <1>3. s \in KeySlots(tab, b, k)
    BY <1>1 DEF KeySlots, occupied
  <1>. QED BY <1>2, <1>3 DEF HomesOf, cuckoo_find

\* An operation that enters with fresh indices has its key's two buckets.
LEMMA FreshKnows ==
  ASSUME NEW t \in Thread, IInv, MapInv, HomeInv, FreshIndices(t),
         pc[t] \in {"insert", "remove", "recheck"}, Locked(t, pc[t])
  PROVE  /\ call[t].key \in Key /\ (pc[t] # "remove" => MyItem(t) \in Item /\ MyItem(t).key = call[t].key)
         /\ hashpower \in Nat /\ buckets \in TabType(hashpower) /\ Legal(hashpower, buckets)
         /\ loc[t].i1 = Bucket1(hashpower, call[t].key) /\ loc[t].i2 = Bucket2(hashpower, call[t].key)
         /\ loc[t].i1 \in Index(hashpower) /\ loc[t].i2 \in Index(hashpower)
         /\ \A b \in Homes(call[t].key) : Writing(t, lock_ind(b))
  <1>1. guard[t].phase \in {"none", "held"} /\ resize_counter = loc[t].counter
    BY DEF Locked, At
  <1>2. /\ ThreadFits(t) /\ TableTypes /\ hashpower \in Nat /\ hashpower \in InitHashpower .. hashpower
    BY Knows
  <1>3. guard[t].phase = "held"
    BY <1>1, GuardHeld DEF Inside, InPair, SnapshotLabels
  <1>4. loc[t].hp = hashpower
    BY <1>1, <1>3 DEF FreshIndices, SnapshotLabels
  <1>5. loc[t].i1 = Bucket1(hashpower, call[t].key) /\ loc[t].i2 = Bucket2(hashpower, call[t].key)
    BY <1>2, <1>4 DEF ThreadFits, IndexFits, Indexed, SnapshotLabels
  <1>6. call[t] \in BodyCall \cup IterCall /\ call[t].key \in Key
    BY <1>1, GuardCovers
  <1>7. \A b \in Homes(call[t].key) : Writing(t, lock_ind(b))
    <2>1. \A b \in Homes(call[t].key) : AtHome(call[t].key, b, hashpower)
      BY <1>2 DEF Homes, AtHome
    <2>. QED BY <1>1, <2>1, GuardCovers
  <1>8. pc[t] # "remove" => MyItem(t) \in Item /\ MyItem(t).key = call[t].key
    <2>1. pc[t] # "remove" => call[t].op = "insert"
      BY <1>2 DEF ThreadFits, CallFits, LabelFits, Inserting
    <2>. QED BY <1>6, <2>1, KeyOfCall DEF MyItem
  <1>. QED BY <1>2, <1>5, <1>6, <1>7, <1>8, BucketType DEF TableTypes, HomeInv

\* A write to a key's own buckets.
LEMMA WrittenHome ==
  ASSUME NEW t \in Thread, MapInv, NEW p, Goto(t, p), p \notin SpotLabels \cup RehashLabels,
         hashpower' = hashpower, Legal(hashpower, buckets'), NEW k,
         \A x : HasKey(buckets', x) => HasKey(buckets, x) \/ x = k,
         \A b \in Homes(k) : Writing(t, lock_ind(b))
  PROVE  HomeStep(t)
  <1>1. pc'[t] = p
    BY Knows DEF Goto, Domains
  <1>2. SpotFresh(t)'
    BY <1>1 DEF SpotFresh, SpotLabels, Cuckoo
  <1>3. RehashApart(t)' /\ CarryApart(t)'
    BY <1>1 DEF RehashApart, CarryApart, RehashLabels, SpotLabels, Cuckoo, OnPath, Hopping
  <1>4. Legal(hashpower, buckets)'
    OBVIOUS
  <1>5. \A x : HasKey(buckets, x)' => HasKey(buckets, x) \/ x = k
    OBVIOUS
  <1>6. \E b \in Homes(k) : Writing(t, lock_ind(b))
    BY DEF Homes
  <1>7. TableKept(t)
    BY <1>5, <1>6 DEF TableKept
  <1>. QED BY <1>2, <1>3, <1>4, <1>7 DEF HomeStep, ThreadHome

LEMMA PutHome ==
  ASSUME NEW t \in Thread, IInv, MapInv, HomeInv, FreshIndices(t),
         pc[t] \in {"insert", "recheck"}, Locked(t, pc[t]), NEW c,
         c[1] \in Index(hashpower), c[1] \in Homes(call[t].key), c[2] \in Slot,
         Found(t) = {}, Put(t, c), hashpower' = hashpower
  PROVE  HomeStep(t)
  <1>. PICK k : k = call[t].key
    OBVIOUS
  <1>. PICK tab : tab = set_kv(buckets, c[1], c[2], MyItem(t))
    OBVIOUS
  <1>1. /\ k \in Key /\ MyItem(t) \in Item /\ MyItem(t).key = k
        /\ hashpower \in Nat /\ buckets \in TabType(hashpower) /\ Legal(hashpower, buckets)
        /\ loc[t].i1 = Bucket1(hashpower, k) /\ loc[t].i2 = Bucket2(hashpower, k)
        /\ \A b \in Homes(k) : Writing(t, lock_ind(b))
    BY FreshKnows
  <1>2. ~HasKey(buckets, k)
    BY <1>1, FindsKey DEF Found
  <1>3. c[1] \in HomesOf(hashpower, k)
    BY DEF Homes, HomesOf
  <1>4. Legal(hashpower, tab) /\ \A x : HasKey(tab, x) => HasKey(buckets, x) \/ x = k
    BY <1>1, <1>2, <1>3, SetLegal
  <1>5. buckets' = tab /\ Goto(t, "insert_count")
    BY DEF Put, Jump
  <1>6. "insert_count" \notin SpotLabels \cup RehashLabels
    BY DEF SpotLabels, RehashLabels, Cuckoo, OnPath, Hopping, Snapshots
  <1>. QED BY <1>1, <1>4, <1>5, <1>6, WrittenHome

LEMMA InsertHome ==
  ASSUME NEW t \in Thread, IInv, MapInv, HomeInv, FreshIndices(t), insert(t)
  PROVE  HomeStep(t)
  <1>. PICK k : k = call[t].key
    OBVIOUS
  <1>1. pc[t] = "insert" /\ Locked(t, pc[t]) /\ hashpower' = hashpower
    BY DEF insert, Locked, At
  <1>2. /\ k \in Key /\ MyItem(t) \in Item /\ MyItem(t).key = k
        /\ hashpower \in Nat /\ buckets \in TabType(hashpower) /\ Legal(hashpower, buckets)
        /\ loc[t].i1 = Bucket1(hashpower, k) /\ loc[t].i2 = Bucket2(hashpower, k)
        /\ loc[t].i1 \in Index(hashpower) /\ loc[t].i2 \in Index(hashpower)
        /\ \A b \in Homes(k) : Writing(t, lock_ind(b))
    BY <1>1, FreshKnows
  <1>3. ASSUME NEW c \in Found(t), buckets' = set_kv(buckets, c[1], c[2], MyItem(t)), Leave(t, "return")
        PROVE  HomeStep(t)
    <2>1. /\ c[1] \in Index(hashpower) /\ c[2] \in Slot
          /\ buckets[c[1]][c[2]] # None /\ buckets[c[1]][c[2]].key = k
      BY <1>2, FindCell DEF Found
    <2>. PICK tab : tab = set_kv(buckets, c[1], c[2], MyItem(t))
      OBVIOUS
    <2>2. Legal(hashpower, tab) /\ \A x : HasKey(tab, x) => HasKey(buckets, x)
      BY <1>2, <2>1, OverwriteLegal
    <2>3. "return" \notin SpotLabels \cup RehashLabels
      BY DEF SpotLabels, RehashLabels, Cuckoo, OnPath, Hopping, Snapshots
    <2>4. buckets' = tab /\ Goto(t, "return")
      BY <1>3 DEF Leave
    <2>. QED BY <1>1, <1>2, <2>2, <2>3, <2>4, WrittenHome
  <1>4. ASSUME NEW c \in free_cell(buckets, loc[t].i1, loc[t].i2), Put(t, c), Found(t) = {}
        PROVE  HomeStep(t)
    <2>1. c[1] \in {loc[t].i1, loc[t].i2} /\ c[2] \in Slot
      BY FreeCell
    <2>2. c[1] \in Index(hashpower) /\ c[1] \in Homes(k)
      BY <1>2, <2>1 DEF Homes
    <2>. QED BY <1>1, <1>4, <2>1, <2>2, PutHome
  <1>5. ASSUME Leave(t, "cuckoo_hp"), UNCHANGED <<buckets, threadVars, loc>>
        PROVE  HomeStep(t)
    <2>1. pc'[t] = "cuckoo_hp"
      BY <1>5, Knows DEF Leave, Goto, Domains
    <2>2. SpotFresh(t)'
      BY <2>1 DEF SpotFresh, Snapshots
    <2>. QED BY <1>1, <1>5, <2>1, <2>2, QuietHome DEF RehashLabels
  <1>. QED BY <1>3, <1>4, <1>5 DEF insert

LEMMA RecheckHome ==
  ASSUME NEW t \in Thread, IInv, MapInv, HomeInv, FreshIndices(t), recheck(t)
  PROVE  HomeStep(t)
  <1>1. pc[t] = "recheck" /\ Locked(t, pc[t]) /\ hashpower' = hashpower
    BY DEF recheck, Locked, At
  <1>2. ASSUME NEW p \in {"insert_hp", "double"}, Leave(t, p), UNCHANGED buckets
        PROVE  HomeStep(t)
    BY <1>1, <1>2, CalmHome DEF Leave, SpotLabels, RehashLabels, Cuckoo, OnPath, Hopping, Snapshots
  <1>3. ASSUME hashpower = loc[t].cuckoo_hp, Found(t) = {}, Put(t, loc[t].spot)
        PROVE  HomeStep(t)
    <2>. PICK c : c = loc[t].spot
      OBVIOUS
    <2>1. ThreadFits(t) /\ ThreadHome(t) /\ hashpower \in Nat
      BY Knows DEF HomeInv
    <2>2. c[2] \in Slot
      BY <1>1, <2>1 DEF ThreadFits, IndexFits, Spotted
    <2>3. c[1] \in HomesOf(hashpower, call[t].key)
      BY <1>1, <1>3, <2>1 DEF ThreadHome, SpotFresh
    <2>4. call[t].key \in Key
      BY <1>1, FreshKnows
    <2>5. c[1] \in Index(hashpower) /\ c[1] \in Homes(call[t].key)
      BY <2>1, <2>3, <2>4, BucketType DEF HomesOf, Homes
    <2>. QED BY <1>1, <1>3, <2>2, <2>5, PutHome
  <1>. QED BY <1>2, <1>3 DEF recheck

LEMMA RemoveHome ==
  ASSUME NEW t \in Thread, IInv, MapInv, HomeInv, FreshIndices(t), remove(t)
  PROVE  HomeStep(t)
  <1>. PICK k : k = call[t].key
    OBVIOUS
  <1>1. pc[t] = "remove" /\ Locked(t, pc[t]) /\ hashpower' = hashpower
    BY DEF remove, Locked, At
  <1>2. /\ hashpower \in Nat /\ buckets \in TabType(hashpower) /\ Legal(hashpower, buckets)
        /\ loc[t].i1 \in Index(hashpower) /\ loc[t].i2 \in Index(hashpower)
        /\ \A b \in Homes(k) : Writing(t, lock_ind(b))
    BY <1>1, FreshKnows
  <1>3. CASE Leave(t, "return") /\ UNCHANGED <<buckets, loc>>
    BY <1>1, <1>3, CalmHome DEF Leave, SpotLabels, RehashLabels, Cuckoo, OnPath, Hopping, Snapshots
  <1>4. ASSUME NEW c \in Found(t), buckets' = erase_kv(buckets, c[1], c[2]), Jump(t, "remove_count")
        PROVE  HomeStep(t)
    <2>1. c[1] \in Index(hashpower) /\ c[2] \in Slot
      BY <1>2, FindCell DEF Found
    <2>. PICK tab : tab = erase_kv(buckets, c[1], c[2])
      OBVIOUS
    <2>2. Legal(hashpower, tab) /\ \A x : HasKey(tab, x) => HasKey(buckets, x)
      BY <1>2, <2>1, EraseLegal
    <2>3. "remove_count" \notin SpotLabels \cup RehashLabels
      BY DEF SpotLabels, RehashLabels, Cuckoo, OnPath, Hopping, Snapshots
    <2>4. buckets' = tab /\ Goto(t, "remove_count")
      BY <1>4 DEF Jump
    <2>. QED BY <1>1, <1>2, <2>2, <2>3, <2>4, WrittenHome
  <1>. QED BY <1>3, <1>4 DEF remove

LEMMA UpdateHome ==
  ASSUME NEW t \in Thread, IInv, MapInv, HomeInv, FreshIndices(t), Update(t)
  PROVE  HomeStep(t)
  <1>1. LocalsFit(loc[t]) /\ Domains /\ ThreadHome(t)
    BY Knows DEF HomeInv
  <1>2. CASE insert(t) \/ recheck(t) \/ remove(t)
    BY <1>2, InsertHome, RecheckHome, RemoveHome
  <1>3. CASE insert_count(t) \/ remove_count(t)
    <2>1. UNCHANGED <<buckets, hashpower>> /\ Goto(t, "return")
      BY <1>3 DEF insert_count, remove_count, Leave
    <2>. QED BY <2>1, CalmHome DEF SpotLabels, RehashLabels, Cuckoo, OnPath, Hopping, Snapshots
  <1>4. CASE insert_hp(t)
    <2>1. PICK l : l = [NoLocals EXCEPT !.hp0 = hashpower, !.then = "insert"]
      OBVIOUS
    <2>2. l.then # "recheck"
      BY <2>1 DEF NoLocals
    <2>3. UNCHANGED <<buckets, hashpower>> /\ Local(t, l) /\ Goto(t, "snapshot_hp")
      BY <1>4, <2>1 DEF insert_hp, Jump, tableVars
    <2>. QED BY <2>2, <2>3, SnapshotHome DEF Snapshots
  <1>5. CASE cuckoo_hp(t)
    <2>1. /\ UNCHANGED <<buckets, hashpower>> /\ pc[t] = "cuckoo_hp" /\ pc'[t] = "run_hp"
          /\ loc'[t].hp = loc[t].hp /\ loc'[t].cuckoo_hp = hashpower
      BY <1>1, <1>5 DEF cuckoo_hp, At, Jump, Goto, Local, Domains, LocalsFit, NoLocals, tableVars
    <2>2. SpotFresh(t)'
      BY <2>1 DEF SpotFresh, FreshIndices, Snapshots
    <2>. QED BY <2>1, <2>2, QuietHome DEF RehashLabels
  <1>6. CASE recheck_hp(t)
    <2>1. pc[t] = "recheck_hp" /\ UNCHANGED <<buckets, hashpower>> /\ call' = call
      BY <1>6 DEF recheck_hp, At, tableVars, threadVars, callVars
    <2>2. CASE Jump(t, "insert_hp")
      BY <2>1, <2>2, CalmHome DEF Jump, SpotLabels, RehashLabels, Cuckoo, OnPath, Hopping, Snapshots
    <2>3. CASE Local(t, [loc[t] EXCEPT !.then = "recheck"]) /\ Jump(t, "snapshot_hp")
      <3>1. /\ pc'[t] = "snapshot_hp" /\ loc'[t].spot = loc[t].spot
            /\ loc'[t].cuckoo_hp = loc[t].cuckoo_hp
        BY <1>1, <2>3 DEF Jump, Goto, Local, Domains, LocalsFit, NoLocals
      <3>2. SpotFresh(t)'
        BY <1>1, <2>1, <3>1 DEF ThreadHome, SpotFresh, Cuckoo, OnPath, Hopping
      <3>. QED BY <2>1, <3>1, <3>2, QuietHome DEF RehashLabels
    <2>. QED BY <1>6, <2>2, <2>3 DEF recheck_hp
  <1>. QED BY <1>2, <1>3, <1>4, <1>5, <1>6 DEF Update

-----------------------------------------------------------------------------
(***************************************************************************)
(* Doubling.                                                               *)
(***************************************************************************)
\* A rehash starts with nothing placed, and everything still to place.
LEMMA RehashStarts ==
  ASSUME NEW hp \in Nat, NEW old \in TabType(hp), Legal(hp, old),
         NEW tab, tab = BucketContainer(hp + 1)
  PROVE  /\ tab \in TabType(hp + 1) /\ Legal(hp + 1, tab)
         /\ AsideApart(tab, <<>>) /\ BehindApart(hp, old, 0, tab, <<>>)
  <1>1. tab \in TabType(hp + 1) /\ \A b \in Index(hp + 1), s \in Slot : tab[b][s] = None
    BY EmptyTab DEF BucketContainer
  <1>2. Legal(hp + 1, tab)
    BY <1>1, LegalCells
  <1>3. \A k : ~HasKey(tab, k)
    BY <1>1, HasKeyCell
  <1>4. ASSUME NEW n \in DOMAIN Positions(hp)
        PROVE  Positions(hp)[n][1] \in Index(hp) /\ Positions(hp)[n][2] \in Slot
    <2>. DEFINE N == hashsize(hp) * SLOT_PER_BUCKET
    <2>1. N \in Nat
      BY Hashsize, TableAssumption
    <2>2. n \in 1 .. N
      BY <1>4 DEF Positions
    <2>. HIDE DEF N
    <2>3. n - 1 \in Nat /\ n - 1 < N /\ n = (n - 1) + 1
      BY <2>1, <2>2
    <2>4. PICK i \in Nat : i < N /\ n = i + 1
      BY <2>3
    <2>. QED BY <2>4, PositionType DEF N
  <1>5. ASSUME NEW m \in Behind(hp, old, 0), NEW n \in Behind(hp, old, 0),
               CellAt(hp, old, m).key = CellAt(hp, old, n).key
        PROVE  m = n
    <2>1. m \in DOMAIN Positions(hp) /\ n \in DOMAIN Positions(hp)
      BY DEF Behind
    <2>2. Positions(hp)[m][1] = Positions(hp)[n][1] /\ Positions(hp)[m][2] = Positions(hp)[n][2]
      BY <1>4, <1>5, <2>1, LegalCells DEF Behind, CellAt
    <2>3. Positions(hp)[m] = Positions(hp)[n]
      BY <2>1, <2>2 DEF Positions
    <2>. QED BY <2>1, <2>3, PositionsApart
  <1>6. AsideApart(tab, <<>>)
    BY DEF AsideApart
  <1>7. BehindApart(hp, old, 0, tab, <<>>)
    BY <1>3, <1>5 DEF BehindApart
  <1>. QED BY <1>1, <1>2, <1>6, <1>7

\* What becomes of the next item: there is none, it is put aside, or it is placed.
ItemTaken(tab, aside, item, tab2, aside2) ==
  \/ item = None /\ tab2 = tab /\ aside2 = aside
  \/ /\ item \in Item \ {None} /\ tab2 = tab /\ aside2 = Append(aside, item)
  \/ /\ item \in Item \ {None} /\ aside2 = aside
     /\ \A k : HasKey(tab2, k) => HasKey(tab, k) \/ k = item.key

\* One slot of the old container further.
LEMMA RehashGoesOn ==
  ASSUME NEW hp, NEW old, NEW cur \in Nat, NEW n, n = cur + 1, NEW tab, NEW aside \in Seq(Item),
         AsideApart(tab, aside), BehindApart(hp, old, cur, tab, aside),
         n \in DOMAIN Positions(hp), DOMAIN Positions(hp) \subseteq Nat,
         NEW item, item = CellAt(hp, old, n), NEW tab2, NEW aside2,
         ItemTaken(tab, aside, item, tab2, aside2)
  PROVE  AsideApart(tab2, aside2) /\ BehindApart(hp, old, n, tab2, aside2)
  <1>1. Behind(hp, old, n) \subseteq Behind(hp, old, cur)
    BY DEF Behind
  <1>2. item # None => n \in Behind(hp, old, cur)
    BY DEF Behind
  <1>3. \A m \in Behind(hp, old, n) : m # n /\ m \in Nat
    BY DEF Behind
  <1>4. item # None => /\ ~HasKey(tab, item.key)
                       /\ \A i \in DOMAIN aside : aside[i].key # item.key
                       /\ \A m \in Behind(hp, old, n) : CellAt(hp, old, m).key # item.key
    BY <1>1, <1>2, <1>3 DEF BehindApart
  <1>5. CASE item = None /\ tab2 = tab /\ aside2 = aside
    BY <1>1, <1>5 DEF BehindApart
  <1>6. CASE /\ item \in Item \ {None} /\ aside2 = aside
             /\ \A k : HasKey(tab2, k) => HasKey(tab, k) \/ k = item.key
    BY <1>1, <1>4, <1>6 DEF BehindApart, AsideApart
  <1>7. CASE item \in Item \ {None} /\ tab2 = tab /\ aside2 = Append(aside, item)
    <2>1. /\ DOMAIN aside2 = DOMAIN aside \cup {Len(aside) + 1}
          /\ \A i \in DOMAIN aside : aside2[i] = aside[i] /\ i # Len(aside) + 1
          /\ aside2[Len(aside) + 1] = item
      BY <1>7
    <2>2. AsideApart(tab2, aside2)
      BY <1>4, <1>7, <2>1 DEF AsideApart
    <2>3. BehindApart(hp, old, n, tab2, aside2)
      BY <1>1, <1>4, <1>7, <2>1 DEF BehindApart
    <2>. QED BY <2>2, <2>3
  <1>. QED BY <1>5, <1>6, <1>7 DEF ItemTaken

\* The first of the items put aside is placed.
LEMMA AsideGoesOn ==
  ASSUME NEW tab, NEW aside \in Seq(Item), aside # <<>>, AsideApart(tab, aside), NEW tab2,
         \A k : HasKey(tab2, k) => HasKey(tab, k) \/ k = Head(aside).key
  PROVE  ~HasKey(tab, Head(aside).key) /\ AsideApart(tab2, Tail(aside))
  <1>1. /\ 1 \in DOMAIN aside /\ Head(aside) = aside[1]
        /\ \A i \in DOMAIN Tail(aside) : /\ i + 1 \in DOMAIN aside /\ Tail(aside)[i] = aside[i + 1]
                                         /\ i + 1 # 1 /\ i \in Nat
    OBVIOUS
  <1>2. \A i, j \in Nat : i + 1 = j + 1 => i = j
    OBVIOUS
  <1>. QED BY <1>1, <1>2 DEF AsideApart

\* A step of a rehash that has all stripes.
LEMMA RehashHome ==
  ASSUME NEW t \in Thread, IInv, MapInv, pc[t] \in WholeWriting,
         guard[t].phase \in {"none", "held"}, pc'[t] \in RehashLabels,
         Legal(hashpower, buckets)', RehashApart(t)'
  PROVE  HomeStep(t)
  <1>1. TableKept(t)
    BY WholeHeld DEF TableKept
  <1>2. SpotFresh(t)' /\ CarryApart(t)'
    BY DEF SpotFresh, CarryApart, RehashLabels, Cuckoo, OnPath, Hopping, Snapshots
  <1>. QED BY <1>1, <1>2 DEF HomeStep, ThreadHome

LEMMA ResizeLoadHome ==
  ASSUME NEW t \in Thread, IInv, MapInv, HomeInv, resize_load(t)
  PROVE  HomeStep(t)
  <1>1. pc[t] = "resize_load" /\ guard[t].phase \in {"none", "held"}
    BY DEF resize_load, At
  <1>2. CASE Refuse(t, "LoadFactorTooLow")
    <2>1. UNCHANGED <<buckets, hashpower>> /\ Goto(t, "return")
      BY <1>2 DEF Refuse, Leave, tableVars
    <2>. QED BY <2>1, CalmHome DEF SpotLabels, RehashLabels, Cuckoo, OnPath, Hopping, Snapshots
  <1>3. ASSUME Local(t, [loc[t] EXCEPT !.old = buckets, !.cur = 0, !.aside = <<>>]),
               buckets' = BucketContainer(loc[t].hp0 + 1), hashpower' = loc[t].hp0 + 1,
               Jump(t, "rehash_one")
        PROVE  HomeStep(t)
    <2>1. /\ ThreadFits(t) /\ Domains /\ TableTypes /\ LocalsFit(loc[t])
          /\ hashpower \in Nat /\ Legal(hashpower, buckets)
      BY Knows DEF HomeInv
    <2>2. hashpower = loc[t].hp0 /\ buckets \in TabType(hashpower)
      BY <1>1, <2>1 DEF ThreadFits, HoldFits, TableTypes
    <2>3. /\ pc'[t] = "rehash_one" /\ loc'[t].old = buckets /\ loc'[t].cur = 0
          /\ loc'[t].aside = <<>> /\ loc'[t].hp0 = hashpower
      BY <1>3, <2>1, <2>2 DEF Jump, Goto, Local, Domains, LocalsFit, NoLocals
    <2>. PICK hp, old, tab : hp = hashpower /\ old = buckets /\ tab = BucketContainer(hp + 1)
      OBVIOUS
    <2>4. /\ Legal(hp + 1, tab) /\ AsideApart(tab, <<>>) /\ BehindApart(hp, old, 0, tab, <<>>)
      BY <2>1, <2>2, RehashStarts
    <2>5. hashpower' = hp + 1 /\ buckets' = tab
      BY <1>3, <2>2
    <2>6. Legal(hashpower, buckets)'
      BY <2>4, <2>5
    <2>7. RehashApart(t)'
      BY <2>3, <2>4, <2>5 DEF RehashApart
    <2>. QED BY <1>1, <2>3, <2>6, <2>7, RehashHome DEF WholeWriting, InWhole, RehashLabels
  <1>. QED BY <1>2, <1>3 DEF resize_load

\* PlaceItemLegal with all that it asks for in one hypothesis.
PlaceReady(hp, acc, item, st) ==
  /\ acc \in AccType(hp) /\ Legal(hp, acc.tab) /\ item \in Item
  /\ ~HasKey(acc.tab, item.key) /\ st = rehash_place_item(hp, acc, item)

PlaceDone(hp, acc, item, st) ==
  /\ Legal(hp, st.tab)
  /\ st.panic => st.tab = acc.tab
  /\ ~st.panic => ItemsOf(st.tab) = ItemsOf(acc.tab) \cup {item}

LEMMA PlaceStep ==
  ASSUME NEW hp \in Nat, NEW acc, NEW item, NEW st, PlaceReady(hp, acc, item, st)
  PROVE  PlaceDone(hp, acc, item, st)
  BY PlaceItemLegal, SMT DEF PlaceReady, PlaceDone

LEMMA RehashOneHome ==
  ASSUME NEW t \in Thread, IInv, MapInv, HomeInv, rehash_one(t)
  PROVE  HomeStep(t)
  <1>a. PICK hp, old, cur, aside :
         hp = loc[t].hp0 /\ old = loc[t].old /\ cur = loc[t].cur /\ aside = loc[t].aside
    OBVIOUS
  <1>b. PICK n : n = cur + 1
    OBVIOUS
  <1>c. PICK pos : pos = Positions(hp)[n]
    OBVIOUS
  <1>d. PICK item : item = CellAt(hp, old, n)
    OBVIOUS
  <1>e. PICK acc : acc = Rehashing(t)
    OBVIOUS
  <1>f. PICK st : st = rehash_move(hp, old, acc, pos)
    OBVIOUS
  <1>1. /\ pc[t] = "rehash_one" /\ guard[t].phase \in {"none", "held"} /\ buckets' = st.tab
        /\ hashpower' = hashpower
        /\ \/ st.panic /\ Leave(t, "panicked")
           \/ /\ ~st.panic /\ Local(t, [loc[t] EXCEPT !.cur = n, !.aside = st.alternate_items])
              /\ \E p \in RehashLabels : Jump(t, p)
    BY <1>a, <1>b, <1>c, <1>e, <1>f DEF rehash_one, At, RehashLabels
  <1>2. /\ LocalsFit(loc[t]) /\ hp \in Nat /\ cur \in Nat /\ aside \in Seq(Item)
        /\ hashpower = hp + 1 /\ acc \in AccType(hp + 1)
    BY <1>1, <1>a, <1>e, RehashKnows DEF RehashLabels
  <1>3. old \in TabType(hp) /\ cur < hashsize(hp) * SLOT_PER_BUCKET /\ Domains
    BY <1>1, <1>a, Knows DEF ThreadFits, HoldFits
  <1>4. n \in DOMAIN Positions(hp) /\ pos[1] \in Index(hp) /\ pos[2] \in Slot
    BY <1>2, <1>3, <1>b, <1>c, PositionType
  <1>5. /\ Legal(hp + 1, acc.tab) /\ acc.tab = buckets /\ acc.alternate_items = aside
        /\ acc.tab \in TabType(hp + 1) /\ item = old[pos[1]][pos[2]]
    BY <1>2, <1>a, <1>c, <1>d, <1>e DEF HomeInv, Rehashing, CellAt, AccType
  <1>6. AsideApart(buckets, aside) /\ BehindApart(hp, old, cur, buckets, aside)
    BY <1>1, <1>a DEF HomeInv, ThreadHome, RehashApart, RehashLabels
  <1>7. item # None => ~HasKey(acc.tab, item.key)
    BY <1>2, <1>4, <1>5, <1>6, <1>b, <1>d, SMTT(30) DEF BehindApart, Behind
  <1>8. /\ Legal(hp + 1, st.tab)
        /\ \/ st.panic /\ st.tab = acc.tab
           \/ item = None /\ st = acc
           \/ /\ item \in Item /\ st.tab = acc.tab
              /\ st.alternate_items = Append(acc.alternate_items, item)
           \/ /\ item \in Item /\ st.alternate_items = acc.alternate_items
              /\ ItemsOf(st.tab) = ItemsOf(acc.tab) \cup {item}
    <2>1. MoveReady(hp, old, acc, pos, item, st)
      BY <1>2, <1>3, <1>4, <1>5, <1>7, <1>f DEF MoveReady
    <2>2. MoveDone(hp, acc, item, st)
      BY <1>2, <2>1, MoveLegal, Zenon
    <2>. QED BY <2>2, Zenon DEF MoveDone
  <1>9. st \in AccType(hp + 1)
    BY <1>2, <1>3, <1>4, <1>f, MoveType
  <1>10. CASE st.panic /\ Leave(t, "panicked")
    <2>1. st.tab = acc.tab
      BY <1>10, <1>e, <1>f, ZenonT(30) DEF rehash_move, AccType, Rehashing
    <2>2. UNCHANGED <<buckets, hashpower>> /\ Goto(t, "panicked")
      BY <1>1, <1>5, <1>10, <2>1 DEF Leave
    <2>. QED BY <2>2, CalmHome DEF SpotLabels, RehashLabels, Cuckoo, OnPath, Hopping, Snapshots
  <1>11. ASSUME ~st.panic, Local(t, [loc[t] EXCEPT !.cur = n, !.aside = st.alternate_items]),
                NEW p \in RehashLabels, Jump(t, p)
         PROVE  HomeStep(t)
    <2>1. /\ pc'[t] = p /\ loc'[t].cur = n /\ loc'[t].aside = st.alternate_items
          /\ loc'[t].hp0 = hp /\ loc'[t].old = old
      BY <1>2, <1>3, <1>11, <1>a DEF Jump, Goto, Local, Domains, LocalsFit, NoLocals
    <2>2. item \in Item => item # None
      BY TableAssumption DEF Item
    <2>3. ASSUME ItemsOf(st.tab) = ItemsOf(acc.tab) \cup {item}, item \in Item
          PROVE  \A k : HasKey(st.tab, k) => HasKey(acc.tab, k) \/ k = item.key
      <3>1. st.tab \in TabType(hp + 1)
        BY <1>9 DEF AccType
      <3>. QED BY <1>5, <2>3, <3>1, KeysOfItems, SMTT(30)
    <2>4. ItemTaken(buckets, aside, item, st.tab, st.alternate_items)
      BY <1>5, <1>8, <1>11, <2>2, <2>3 DEF ItemTaken
    <2>5. DOMAIN Positions(hp) \subseteq Nat
      BY Hashsize, TableAssumption, <1>2 DEF Positions
    <2>6. AsideApart(st.tab, st.alternate_items) /\ BehindApart(hp, old, n, st.tab, st.alternate_items)
      BY <1>2, <1>4, <1>6, <1>b, <1>d, <2>4, <2>5, RehashGoesOn, Zenon
    <2>7. RehashApart(t)'
      BY <1>1, <2>1, <2>6 DEF RehashApart
    <2>8. Legal(hashpower, buckets)'
      BY <1>1, <1>2, <1>8
    <2>. QED BY <1>1, <2>1, <2>7, <2>8, RehashHome DEF WholeWriting, InWhole, RehashLabels
  <1>. QED BY <1>1, <1>10, <1>11

LEMMA RehashTwoHome ==
  ASSUME NEW t \in Thread, IInv, MapInv, HomeInv, rehash_two(t)
  PROVE  HomeStep(t)
  <1>. PICK hp, aside : hp = loc[t].hp0 /\ aside = loc[t].aside
    OBVIOUS
  <1>. PICK acc : acc = Rehashing(t)
    OBVIOUS
  <1>. PICK st : st = rehash_place_item(hp + 1, acc, Head(aside))
    OBVIOUS
  <1>1. pc[t] = "rehash_two" /\ guard[t].phase \in {"none", "held"} /\ hashpower' = hashpower
    BY DEF rehash_two, At
  <1>2. /\ LocalsFit(loc[t]) /\ hp \in Nat /\ aside \in Seq(Item)
        /\ hashpower = hp + 1 /\ acc \in AccType(hp + 1)
    BY <1>1, RehashKnows DEF RehashLabels
  <1>3. CASE Jump(t, "resize_count") /\ UNCHANGED buckets
    BY <1>1, <1>3, CalmHome DEF Jump, SpotLabels, RehashLabels, Cuckoo, OnPath, Hopping, Snapshots
  <1>4. ASSUME aside # <<>>, buckets' = st.tab,
               \/ st.panic /\ Leave(t, "panicked")
               \/ /\ ~st.panic /\ Local(t, [loc[t] EXCEPT !.aside = Tail(aside)])
                  /\ Jump(t, "rehash_two")
        PROVE  HomeStep(t)
    <2>. PICK item : item = Head(aside)
      OBVIOUS
    <2>1. /\ item \in Item /\ Legal(hp + 1, acc.tab) /\ acc.tab = buckets
          /\ acc.tab \in TabType(hp + 1)
      BY <1>2, <1>4 DEF HomeInv, Rehashing, AccType
    <2>2. AsideApart(buckets, aside)
      BY <1>1 DEF HomeInv, ThreadHome, RehashApart, RehashLabels
    <2>3. ~HasKey(acc.tab, item.key)
      BY <1>2, <1>4, <2>1, <2>2, AsideGoesOn
    <2>4. /\ Legal(hp + 1, st.tab)
          /\ st.panic => st.tab = acc.tab
          /\ ~st.panic => ItemsOf(st.tab) = ItemsOf(acc.tab) \cup {item}
      <3>1. hp + 1 \in Nat
        BY <1>2
      <3>2. PlaceReady(hp + 1, acc, item, st)
        BY <1>2, <2>1, <2>3, <3>1, Zenon DEF PlaceReady
      <3>3. PlaceDone(hp + 1, acc, item, st)
        BY <3>1, <3>2, PlaceStep, Zenon
      <3>. QED BY <3>3, Zenon DEF PlaceDone
    <2>5. CASE st.panic /\ Leave(t, "panicked")
      <3>1. UNCHANGED <<buckets, hashpower>> /\ Goto(t, "panicked")
        BY <1>1, <1>4, <2>1, <2>4, <2>5 DEF Leave
      <3>. QED BY <3>1, CalmHome DEF SpotLabels, RehashLabels, Cuckoo, OnPath, Hopping, Snapshots
    <2>6. CASE ~st.panic /\ Local(t, [loc[t] EXCEPT !.aside = Tail(aside)]) /\ Jump(t, "rehash_two")
      <3>1. pc'[t] = "rehash_two" /\ loc'[t].aside = Tail(aside)
        BY <1>2, <2>6, Knows DEF Jump, Goto, Local, Domains, LocalsFit, NoLocals
      <3>2. st.tab \in TabType(hp + 1)
        BY <1>2, <2>1, PlaceItemType DEF AccType
      <3>3. \A k : HasKey(st.tab, k) => HasKey(buckets, k) \/ k = item.key
        BY <2>1, <2>4, <2>6, <3>2, KeysOfItems
      <3>. PICK tab, tab2 : tab = buckets /\ tab2 = st.tab
        OBVIOUS
      <3>4. AsideApart(tab2, Tail(aside))
        BY <1>2, <1>4, <2>2, <3>3, AsideGoesOn
      <3>5. RehashApart(t)'
        BY <1>4, <3>1, <3>4 DEF RehashApart
      <3>6. Legal(hashpower, buckets)'
        BY <1>1, <1>2, <1>4, <2>4
      <3>. QED BY <1>1, <3>1, <3>5, <3>6, RehashHome DEF WholeWriting, InWhole, RehashLabels
    <2>. QED BY <1>4, <2>5, <2>6
  <1>. QED BY <1>3, <1>4 DEF rehash_two

LEMMA ResizeHome ==
  ASSUME NEW t \in Thread, IInv, MapInv, HomeInv, Resize(t)
  PROVE  HomeStep(t)
  <1>1. CASE double(t) \/ resize(t) \/ resize_count(t)
    <2>1. /\ UNCHANGED <<buckets, hashpower>>
          /\ \E p \in {"resize", "insert_hp", "return", "resize_load"} : Goto(t, p)
      BY <1>1 DEF double, resize, resize_count, Enter, Leave, Jump, Refuse, tableVars
    <2>. QED BY <2>1, CalmHome DEF SpotLabels, RehashLabels, Cuckoo, OnPath, Hopping, Snapshots
  <1>. QED BY <1>1, ResizeLoadHome, RehashOneHome, RehashTwoHome DEF Resize

-----------------------------------------------------------------------------
(***************************************************************************)
(* clear, the iterators and the rest.                                      *)
(***************************************************************************)
LEMMA ClearHome ==
  ASSUME NEW t \in Thread, IInv, MapInv, HomeInv, clear(t)
  PROVE  HomeStep(t)
  <1>. PICK pos : pos = Positions(hashpower)[loc[t].cur + 1]
    OBVIOUS
  <1>. PICK tab : tab = erase_kv(buckets, pos[1], pos[2])
    OBVIOUS
  <1>1. /\ pc[t] = "clear" /\ guard[t].phase \in {"none", "held"} /\ buckets' = tab
        /\ hashpower' = hashpower /\ \E p \in {"clear", "clear_count"} : Goto(t, p)
    BY DEF clear, At, Jump
  <1>2. /\ ThreadFits(t) /\ TableTypes /\ Domains /\ LocalsFit(loc[t]) /\ hashpower \in Nat
    BY Knows
  <1>3. loc[t].cur \in Nat /\ loc[t].cur < hashsize(hashpower) * SLOT_PER_BUCKET
    BY <1>1, <1>2 DEF ThreadFits, HoldFits, LocalsFit
  <1>4. pos[1] \in Index(hashpower) /\ pos[2] \in Slot
    BY <1>2, <1>3, PositionType
  <1>5. Legal(hashpower, tab)
    BY <1>2, <1>4, EraseLegal DEF HomeInv, TableTypes
  <1>6. Legal(hashpower, buckets)'
    BY <1>1, <1>5
  <1>7. TableKept(t)
    BY <1>1, WholeHeld DEF TableKept, WholeWriting, InWhole
  <1>8. pc'[t] \in {"clear", "clear_count"}
    BY <1>1, <1>2 DEF Goto, Domains
  <1>9. ThreadHome(t)'
    BY <1>8 DEF ThreadHome, RehashApart, CarryApart, SpotFresh, RehashLabels, Cuckoo, OnPath, Hopping,
                Snapshots
  <1>. QED BY <1>6, <1>7, <1>9 DEF HomeStep

LEMMA WholeTableHome ==
  ASSUME NEW t \in Thread, IInv, MapInv, HomeInv, WholeTable(t)
  PROVE  HomeStep(t)
  <1>1. CASE clear(t)
    BY <1>1, ClearHome
  <1>2. CASE iter_body(t)
    <2>1. pc[t] = "iter" /\ guard[t].phase \in {"none", "held"} /\ UNCHANGED <<buckets, hashpower>>
      BY <1>2 DEF iter_body, At, tableVars
    <2>2. PICK c \in call[t].value : Start(t, c)
      BY <1>2 DEF iter_body
    <2>3. call[t].value \subseteq BodyCall
      BY <2>1, IterKnows
    <2>. QED BY <2>1, <2>2, <2>3, StartHome
  <1>3. CASE \/ clear_lock(t) \/ clear_count(t) \/ iter_lock(t) \/ iter(t) \/ iter_drop(t)
             \/ body_return(t) \/ len(t) \/ set_maximum(t) \/ set_minimum(t)
    <2>1. UNCHANGED <<buckets, hashpower>>
      BY <1>3 DEF clear_lock, clear_count, iter_lock, iter, iter_drop, body_return, len, set_maximum,
                  set_minimum, tableVars
    <2>2. \E p \in {"clear", "clear_count", "iter", "return", "len", "panicked"} : Goto(t, p)
      BY <1>3 DEF clear_lock, clear_count, iter_lock, iter, iter_drop, body_return, len, set_maximum,
                  set_minimum, Unwind, Enter, Leave, Jump
    <2>. QED BY <2>1, <2>2, CalmHome DEF SpotLabels, RehashLabels, Cuckoo, OnPath, Hopping, Snapshots
  <1>. QED BY <1>1, <1>2, <1>3 DEF WholeTable

\* The call that a thread starts.
LEMMA InvokeKnows ==
  ASSUME NEW t \in Thread, MapInv, Invoke(t)
  PROVE  \E c \in BodyCall \cup IterCall : Start(t, c)
  <1>1. PICK c \in Calls(t)[calls[t] + 1] : Start(t, c)
    BY DEF Invoke
  <1>2. ThreadFits(t) /\ Domains /\ calls[t] \in Nat /\ calls[t] < Len(Calls(t))
    BY Knows DEF ThreadFits, TypeFits, Invoke
  <1>3. Calls(t) \in Seq(SUBSET (BodyCall \cup IterCall))
    BY <1>2, ScriptAssumption DEF Calls, Domains
  <1>4. calls[t] + 1 \in 1 .. Len(Calls(t))
    BY <1>2, <1>3
  <1>5. c \in BodyCall \cup IterCall
    BY <1>1, <1>3, <1>4
  <1>. QED BY <1>1, <1>5

-----------------------------------------------------------------------------
(***************************************************************************)
(* HomeInv: every step keeps it that uses no stale indices, and it holds   *)
(* at the start.                                                           *)
(***************************************************************************)
LEMMA StutterHomeInv ==
  ASSUME HomeInv, UNCHANGED <<buckets, hashpower, pc, loc, call>>
  PROVE  HomeInv'
  <1>1. ASSUME NEW t \in Thread PROVE ThreadHome(t)'
    BY DEF HomeInv, ThreadHome, RehashApart, CarryApart, SpotFresh, Homes
  <1>2. Legal(hashpower, buckets)'
    BY DEF HomeInv
  <1>. QED BY <1>1, <1>2 DEF HomeInv

LEMMA StepKeepsHome ==
  ASSUME IInv, MapInv, HomeInv, NoStaleIndices, [Next]_vars
  PROVE  HomeInv'
  <1>1. ASSUME NEW t \in Thread, Invoke(t) \/ Continue(t)
        PROVE  HomeInv'
    <2>1. CASE GuardStep(t) /\ UNCHANGED <<tableVars, threadVars, pc, loc>>
      BY <2>1, StutterHomeInv DEF tableVars, threadVars, callVars
    <2>2. Good(t) /\ FreshIndices(t)
      BY <1>1, ThreadGood DEF NoStaleIndices
    <2>3. CASE Invoke(t)
      <3>1. UNCHANGED <<buckets, hashpower>>
        BY <2>3 DEF Invoke, tableVars
      <3>. QED BY <2>2, <2>3, <3>1, InvokeKnows, StartHome, StepHomeInv
    <2>4. CASE Return(t)
      <3>1. UNCHANGED <<buckets, hashpower>> /\ Goto(t, "idle")
        BY <2>4 DEF Return, Jump, tableVars
      <3>2. HomeStep(t)
        BY <3>1, CalmHome DEF SpotLabels, RehashLabels, Cuckoo, OnPath, Hopping, Snapshots
      <3>. QED BY <2>2, <3>2, StepHomeInv
    <2>5. CASE Lookup(t) \/ Snapshot(t) \/ Update(t) \/ RunCuckoo(t) \/ Resize(t) \/ WholeTable(t)
      <3>1. HomeStep(t)
        BY <2>2, <2>5, LookupHome, SnapshotsHome, UpdateHome, RunCuckooHome, ResizeHome, WholeTableHome
      <3>. QED BY <2>2, <3>1, StepHomeInv
    <2>. QED BY <1>1, <2>1, <2>3, <2>4, <2>5 DEF Continue
  <1>2. CASE UNCHANGED vars
    BY <1>2, StutterHomeInv DEF vars, tableVars, threadVars, callVars
  <1>. QED BY <1>1, <1>2 DEF Next, AllStopped

LEMMA InitHome ==
  ASSUME Init
  PROVE  HomeInv
  <1>1. Legal(hashpower, buckets)
    BY PreloadAssumption DEF Init, TableInit
  <1>2. ASSUME NEW t \in Thread PROVE ThreadHome(t)
    <2>1. pc[t] = "idle"
      BY DEF Init
    <2>. QED BY <2>1 DEF ThreadHome, RehashApart, CarryApart, SpotFresh, RehashLabels, Cuckoo, OnPath,
                         Hopping, Snapshots
  <1>. QED BY <1>1, <1>2 DEF HomeInv

-----------------------------------------------------------------------------
(***************************************************************************)
(* What follows for the items.                                             *)
(***************************************************************************)
\* A set without two different elements.
LEMMA AtMostOne ==
  ASSUME NEW S, \A x, y \in S : x = y
  PROVE  Cardinality(S) \in {0, 1} /\ (S = {} => Cardinality(S) = 0)
  <1>1. CASE S = {}
    BY <1>1, FS_EmptySet
  <1>2. CASE S # {}
    <2>1. PICK x : x \in S
      BY <1>2
    <2>2. S = {x}
      BY <2>1
    <2>. QED BY <1>2, <2>2, FS_Singleton
  <1>. QED BY <1>1, <1>2

LEMMA HomeMeans ==
  ASSUME IInv, MapInv, HomeInv
  PROVE  ItemsFindable /\ NoDuplicateKeys
  <1>1. /\ hashpower \in Nat /\ buckets \in TabType(hashpower) /\ DOMAIN buckets = Index(hashpower)
        /\ Legal(hashpower, buckets)
    BY DEF MapInv, TableTypes, TabType, HomeInv
  <1>2. ItemsFindable
    BY <1>1, LegalCells DEF ItemsFindable, occupied, HomesOf, Homes
  <1>3. ASSUME NEW k \in Key
        PROVE  Cardinality(CellsOf(k))
                 + Cardinality({t \in Thread : loc[t].walk.carry # None /\ loc[t].walk.carry.key = k})
                 <= 1
    <2>. DEFINE C == CellsOf(k)
                T == {t \in Thread : loc[t].walk.carry # None /\ loc[t].walk.carry.key = k}
    <2>1. \A c \in C : /\ c = <<c[1], c[2]>> /\ c[1] \in Index(hashpower) /\ c[2] \in Slot
                       /\ buckets[c[1]][c[2]] # None /\ buckets[c[1]][c[2]].key = k
      BY <1>1 DEF CellsOf, KeySlots, occupied
    <2>2. ASSUME NEW c \in C, NEW d \in C PROVE c = d
      <3>1. c[1] = d[1] /\ c[2] = d[2]
        BY <1>1, <2>1, LegalCells
      <3>. QED BY <2>1, <3>1
    <2>3. ASSUME NEW t \in T
          PROVE  ~HasKey(buckets, k) /\ \A b \in Homes(k) : Writing(t, lock_ind(b))
      <3>1. pc[t] = "move_set"
        BY Knows DEF ThreadFits, WalkFits
      <3>2. ThreadHome(t)
        BY DEF HomeInv
      <3>. QED BY <3>1, <3>2, CarryHolds DEF ThreadHome, CarryApart
    <2>4. ASSUME NEW t \in T, NEW u \in T PROVE t = u
      <3> SUFFICES ASSUME t # u PROVE FALSE
        OBVIOUS
      <3>1. PICK l : Writing(t, l) /\ Writing(u, l)
        BY <2>3 DEF Homes
      <3>2. l \in guard[u].got
        BY <3>1, HeldGuard DEF Writing
      <3>. QED BY <3>1, <3>2, WritersApart
    <2>5. C = {} \/ T = {}
      BY <1>1, <2>1, <2>3, HasKeyCell
    <2>. HIDE DEF C, T
    <2>6. Cardinality(C) \in {0, 1} /\ Cardinality(T) \in {0, 1}
          /\ (Cardinality(C) = 0 \/ Cardinality(T) = 0)
      BY <2>2, <2>4, <2>5, AtMostOne
    <2>7. Cardinality(C) + Cardinality(T) <= 1
      BY <2>6
    <2>. QED BY <2>7 DEF C, T
  <1>. QED BY <1>2, <1>3 DEF NoDuplicateKeys

\* A step that uses no index of an earlier size leaves every item in a bucket
\* of its key, and every key in one place only: in a slot, in the hand of one
\* hop, or in a rehash that has still to place it.
THEOREM HomeIsKept == Spec => KeptHome
  <1>1. ASSUME IInv /\ MapInv, [Next]_vars PROVE [HomeInv /\ NoStaleIndices => HomeInv']_vars
    BY <1>1, StepKeepsHome
  <1>. QED BY <1>1, MapInvHolds, PTL DEF Spec, KeptHome

\* An execution in which no insert uses indices of an earlier size never puts
\* an item where its key does not hash to, nor a key in two places.
THEOREM FreshIndicesSuffice == Spec /\ []NoStaleIndices => [](ItemsFindable /\ NoDuplicateKeys)
  <1>1. Init => HomeInv
    BY InitHome
  <1>2. (IInv /\ MapInv) /\ HomeInv /\ NoStaleIndices /\ [Next]_vars => HomeInv'
    BY StepKeepsHome
  <1>3. (IInv /\ MapInv) /\ HomeInv => ItemsFindable /\ NoDuplicateKeys
    BY HomeMeans
  <1>. QED BY <1>1, <1>2, <1>3, MapInvHolds, PTL DEF Spec

\* While the table is not doubled, the items are where lookups look for them
\* and no key is there twice, however many threads insert, displace and remove.
THEOREM FixedSizeSuffices ==
  Spec /\ [](hashpower = InitHashpower) => [](ItemsFindable /\ NoDuplicateKeys)
  <1>1. ASSUME MapInv, hashpower = InitHashpower
        PROVE  NoStaleIndices
    <2>1. ASSUME NEW t \in Thread, pc[t] \in SnapshotLabels \cup {"cuckoo_hp"}
          PROVE  loc[t].hp = hashpower
      <3>1. ThreadFits(t) /\ hashpower \in Nat
        BY <1>1, Knows
      <3>. QED BY <1>1, <2>1, <3>1 DEF ThreadFits, IndexFits, Indexed, Cuckoo
    <2>. QED BY <2>1 DEF NoStaleIndices, FreshIndices
  <1>. QED BY <1>1, MapInvHolds, FreshIndicesSuffice, PTL
-----------------------------------------------------------------------------
(***************************************************************************)
(* A single caller.  Its indices are current because nobody else doubles   *)
(* the table: only the three steps of IndexSteps come to a label where the *)
(* size they were computed for matters, and they keep it or load it anew.  *)
(***************************************************************************)
Indexing == {"snapshot_counter", "cuckoo_hp"} \cup SnapshotLabels

LEMMA ElsewhereCurrent ==
  ASSUME NEW t \in Thread, MapInv, NEW p, Goto(t, p), p \notin Indexing
  PROVE  CurrentIndices(t)'
  <1>1. pc'[t] = p
    BY Knows DEF Goto, Domains
  <1>. QED BY <1>1 DEF CurrentIndices, Indexing

LEMMA IndexStepsCurrent ==
  ASSUME NEW t \in Thread, MapInv, CurrentIndices(t), Snapshot(t) \/ insert(t)
  PROVE  CurrentIndices(t)'
  <1>1. LocalsFit(loc[t]) /\ Domains
    BY Knows
  <1>2. CASE snapshot_hp(t)
    BY <1>1, <1>2 DEF snapshot_hp, ReadHashpower, Local, Domains, LocalsFit, NoLocals,
                      CurrentIndices, tableVars
  <1>3. CASE snapshot_counter(t)
    <2>1. loc'[t].hp = loc[t].hp /\ pc[t] = "snapshot_counter" /\ hashpower' = hashpower
      BY <1>1, <1>3 DEF snapshot_counter, At, WithIndices, Local, Domains, LocalsFit, NoLocals, tableVars
    <2>. QED BY <2>1 DEF CurrentIndices
  <1>4. CASE snapshot_retry(t)
    BY <1>4, ElsewhereCurrent DEF snapshot_retry, Leave, Indexing, SnapshotLabels
  <1>5. CASE insert(t)
    <2>1. loc'[t].hp = loc[t].hp
      BY <1>1, <1>5 DEF insert, Put, Local, Domains, LocalsFit, NoLocals
    <2>2. pc[t] = "insert" /\ hashpower' = hashpower
      BY <1>5 DEF insert, Locked, At
    <2>. QED BY <2>1, <2>2 DEF CurrentIndices, SnapshotLabels
  <1>. QED BY <1>2, <1>3, <1>4, <1>5 DEF Snapshot

LEMMA StartCurrent ==
  ASSUME NEW t \in Thread, MapInv, NEW c \in BodyCall \cup IterCall, Start(t, c)
  PROVE  CurrentIndices(t)'
  <1>1. Goto(t, EntryLabel(c.op))
    BY DEF Start, Jump
  <1>2. EntryLabel(c.op) \in {"read_hp", "snapshot_hp", "insert_hp", "clear_lock", "iter_lock", "len",
                              "set_maximum", "set_minimum"}
    BY EntryFits
  <1>. QED BY <1>1, <1>2, ElsewhereCurrent DEF Indexing, SnapshotLabels

\* Where the steps lead that neither take indices, nor double, nor start a call.
OtherLabels ==
  {"read_hp", "read_counter", "read_v1", "read_v2", "read_cells", "after_v1", "after_v2",
   "after_counter", "snapshot_hp", "remove_count", "insert_count", "insert_hp", "run_hp",
   "run_counter", "slot_search", "search_partial", "path_counter", "path_version",
   "path_occupied", "path_key", "claim_version", "claim", "from_version", "to_version", "move",
   "move_set", "recheck_hp", "double", "clear", "clear_count", "iter", "len", "return", "idle",
   "panicked"}

LEMMA OtherStepsLeadTo ==
  ASSUME NEW t \in Thread, ~insert(t),
         \/ Lookup(t) \/ Update(t) \/ RunCuckoo(t) \/ (WholeTable(t) /\ ~iter_body(t)) \/ Return(t)
  PROVE  \E p \in OtherLabels : Goto(t, p)
  <1>1. CASE Lookup(t)
    <2>1. \E p \in {"read_hp", "read_counter", "read_v1", "read_v2", "read_cells", "after_v1",
                    "after_v2", "after_counter", "snapshot_hp", "return"} : Goto(t, p)
      <3>1. CASE read_hp(t) \/ read_counter(t)
        BY <3>1 DEF read_hp, ReadHashpower, read_counter, Jump
      <3>2. CASE read_v1(t) \/ read_v2(t)
        BY <3>2 DEF read_v1, read_v2, StartReading, Retry, Jump
      <3>3. CASE read_cells(t) \/ after_v1(t) \/ after_v2(t)
        BY <3>3 DEF read_cells, after_v1, after_v2, Jump
      <3>4. CASE after_counter(t) \/ find(t)
        BY <3>4 DEF after_counter, find, Retry, Jump, Leave
      <3>. QED BY <1>1, <3>1, <3>2, <3>3, <3>4 DEF Lookup
    <2>. QED BY <2>1 DEF OtherLabels
  <1>2. CASE Update(t)
    <2>1. \E p \in {"snapshot_hp", "return", "remove_count", "insert_count", "run_hp", "insert_hp",
                    "double"} : Goto(t, p)
      BY <1>2 DEF Update, insert_hp, insert_count, remove, remove_count, cuckoo_hp, recheck_hp,
                  recheck, Put, Jump, Leave
    <2>. QED BY <2>1 DEF OtherLabels
  <1>3. CASE RunCuckoo(t)
    <2>1. \E p \in {"run_hp", "run_counter", "slot_search", "path_counter", "path_version",
                    "path_occupied", "path_key", "claim_version", "claim", "from_version", "search_partial",
                    "to_version", "move", "move_set", "recheck_hp", "double", "panicked"} : Goto(t, p)
      <3>1. CASE run_hp(t) \/ run_counter(t) \/ search_counter(t)
        BY <3>1, Zenon DEF run_hp, run_counter, search_counter, GiveUp, Jump
      <3>2. CASE path_counter(t) \/ path_version(t) \/ path_occupied(t) \/ path_key(t)
        BY <3>2, Zenon DEF path_counter, path_version, path_occupied, path_key, GiveUp, Jump, StartMove
      <3>3. CASE claim_version(t) \/ claim(t) \/ from_version(t) \/ to_version(t)
        BY <3>3 DEF claim_version, claim, from_version, to_version, Jump, Enter, Leave
      <3>4. CASE move(t) \/ move_set(t)
        BY <3>4, Zenon DEF move, move_set, Jump, Leave
      <3>5. CASE search_slot(t)
        BY <3>5, Zenon DEF search_slot, ScanOn, GiveUp, Jump
      <3>6. CASE search_partial(t)
        BY <3>6, Zenon DEF search_partial, ScanOn, GiveUp, Jump
      <3>. QED BY <1>3, <3>1, <3>2, <3>3, <3>4, <3>5, <3>6 DEF RunCuckoo
    <2>. QED BY <2>1 DEF OtherLabels
  <1>4. CASE WholeTable(t) /\ ~iter_body(t)
    <2>1. \E p \in {"clear", "clear_count", "iter", "return", "len", "panicked"} : Goto(t, p)
      BY <1>4 DEF WholeTable, clear_lock, clear, clear_count, iter_lock, iter, iter_drop,
                  body_return, len, set_maximum, set_minimum, Unwind, Enter, Leave, Jump
    <2>. QED BY <2>1 DEF OtherLabels
  <1>5. CASE Return(t)
    BY <1>5 DEF Return, Jump, OtherLabels
  <1>. QED BY <1>1, <1>2, <1>3, <1>4, <1>5

\* None of those labels uses an index.
LEMMA OtherStepsCurrent ==
  ASSUME NEW t \in Thread, IInv, MapInv, ~insert(t),
         \/ Lookup(t) \/ Update(t) \/ RunCuckoo(t) \/ Resize(t) \/ WholeTable(t) \/ Return(t)
  PROVE  CurrentIndices(t)'
  <1>1. CASE Resize(t)
    <2>1. \E p \in {"resize", "insert_hp", "return", "resize_load", "rehash_one", "rehash_two",
                    "resize_count", "panicked"} : Goto(t, p)
      BY <1>1 DEF Resize, double, resize, resize_load, rehash_one, rehash_two, resize_count, Enter,
                  Leave, Jump, Refuse
    <2>. QED BY <2>1, ElsewhereCurrent DEF Indexing, SnapshotLabels
  <1>2. CASE iter_body(t)
    <2>1. PICK c \in call[t].value : Start(t, c)
      BY <1>2 DEF iter_body
    <2>2. call[t].value \subseteq BodyCall
      BY <1>2, IterKnows DEF iter_body, At
    <2>. QED BY <2>1, <2>2, StartCurrent
  <1>3. CASE ~Resize(t) /\ ~iter_body(t)
    <2>1. PICK p \in OtherLabels : Goto(t, p)
      BY <1>3, OtherStepsLeadTo
    <2>2. p \notin Indexing
      BY <2>1 DEF OtherLabels, Indexing, SnapshotLabels
    <2>. QED BY <2>1, <2>2, ElsewhereCurrent
  <1>. QED BY <1>1, <1>2, <1>3

LEMMA StepsKeepCurrent ==
  ASSUME \A t, u \in Thread : t = u, IInv, MapInv, \A t \in Thread : CurrentIndices(t), [Next]_vars
  PROVE  \A t \in Thread : CurrentIndices(t)'
  <1>1. CASE UNCHANGED <<pc, loc, hashpower>>
    BY <1>1 DEF CurrentIndices
  <1>2. ASSUME NEW t \in Thread, Invoke(t) \/ Continue(t)
        PROVE  CurrentIndices(t)' \/ UNCHANGED <<pc, loc, hashpower>>
    <2>1. CASE Invoke(t)
      BY <2>1, InvokeKnows, StartCurrent
    <2>2. CASE insert(t) \/ Snapshot(t)
      BY <2>2, IndexStepsCurrent
    <2>3. CASE GuardStep(t) /\ UNCHANGED <<tableVars, threadVars, pc, loc>>
      BY <2>3 DEF tableVars
    <2>. QED BY <1>2, <2>1, <2>2, <2>3, OtherStepsCurrent DEF Continue
  <1>3. CASE UNCHANGED vars
    BY <1>1, <1>3 DEF vars, tableVars
  <1>. QED BY <1>1, <1>2, <1>3 DEF Next, AllStopped

\* A map that one thread uses never misplaces an item and never holds a key
\* twice, however it displaces, doubles, iterates and clears.
THEOREM OneCallerSuffices ==
  ASSUME \A t, u \in Thread : t = u
  PROVE  Spec => [](ItemsFindable /\ NoDuplicateKeys)
  <1>. DEFINE Current == \A t \in Thread : CurrentIndices(t)
  <1>1. Init => Current
    BY DEF Init, CurrentIndices, SnapshotLabels
  <1>2. (IInv /\ MapInv) /\ Current /\ [Next]_vars => Current'
    BY StepsKeepCurrent
  <1>3. Current => NoStaleIndices
    BY DEF NoStaleIndices, FreshIndices, CurrentIndices
  <1>. HIDE DEF Current
  <1>. QED BY <1>1, <1>2, <1>3, MapInvHolds, FreshIndicesSuffice, PTL DEF Spec
-----------------------------------------------------------------------------
(***************************************************************************)
(* Doublings.                                                              *)
(***************************************************************************)
Uncounted == {"rehash_one", "rehash_two", "resize_count"}

\* Only a doubling changes the size or the counter, or comes to its labels.
LEMMA OthersDoNotDouble ==
  ASSUME NEW t \in Thread, IInv, MapInv, Invoke(t) \/ Continue(t), ~Resize(t)
  PROVE  /\ UNCHANGED <<hashpower, resize_counter>>
         /\ pc' = pc \/ \E p : p \notin Uncounted /\ Goto(t, p)
  <1>1. ASSUME NEW c \in BodyCall \cup IterCall, Start(t, c)
        PROVE  \E p : p \notin Uncounted /\ Goto(t, p)
    <2>1. EntryLabel(c.op) \notin Uncounted
      <3>1. EntryLabel(c.op) \in {"read_hp", "snapshot_hp", "insert_hp", "clear_lock", "iter_lock",
                                  "len", "set_maximum", "set_minimum"}
        BY EntryFits
      <3>. QED BY <3>1 DEF Uncounted
    <2>. QED BY <1>1, <2>1 DEF Start, Jump
  <1>2. CASE Invoke(t)
    BY <1>1, <1>2, InvokeKnows DEF Invoke, tableVars
  <1>3. CASE iter_body(t)
    <2>1. PICK c \in call[t].value : Start(t, c)
      BY <1>3 DEF iter_body
    <2>2. call[t].value \subseteq BodyCall
      BY <1>3, IterKnows DEF iter_body, At
    <2>. QED BY <1>1, <1>3, <2>1, <2>2 DEF iter_body, tableVars
  <1>4. CASE Snapshot(t)
    <2>1. UNCHANGED <<hashpower, resize_counter>>
      BY <1>4 DEF Snapshot, snapshot_hp, ReadHashpower, snapshot_counter, snapshot_retry, tableVars
    <2>2. CASE snapshot_counter(t)
      <3>1. pc[t] \in Snapshots /\ ThreadFits(t)
        BY <2>2, Knows DEF snapshot_counter, At, Snapshots
      <3>2. loc[t].then \notin Uncounted
        BY <3>1 DEF ThreadFits, CallFits, LabelFits, Uncounted
      <3>3. WithIndices(t).then = loc[t].then
        BY Knows DEF LocalsFit, NoLocals, WithIndices
      <3>. QED BY <2>1, <2>2, <3>2, <3>3 DEF snapshot_counter, Enter
    <2>3. CASE snapshot_hp(t) \/ snapshot_retry(t)
      <3>1. Goto(t, "snapshot_counter") \/ Goto(t, "snapshot_hp")
        BY <2>3 DEF snapshot_hp, ReadHashpower, snapshot_retry, Jump, Leave
      <3>. QED BY <2>1, <3>1 DEF Uncounted
    <2>. QED BY <1>4, <2>2, <2>3 DEF Snapshot
  <1>5. CASE insert(t)
    <2>1. Goto(t, "return") \/ Goto(t, "insert_count") \/ Goto(t, "cuckoo_hp")
      BY <1>5 DEF insert, Put, Leave, Jump
    <2>. QED BY <1>5, <2>1 DEF insert, Uncounted
  <1>6. CASE /\ ~insert(t)
             /\ \/ Lookup(t) \/ Update(t) \/ RunCuckoo(t) \/ (WholeTable(t) /\ ~iter_body(t))
                \/ Return(t)
    <2>1. PICK p \in OtherLabels : Goto(t, p)
      BY <1>6, OtherStepsLeadTo
    <2>2. p \notin Uncounted
      BY <2>1 DEF OtherLabels, Uncounted
    <2>3. UNCHANGED <<hashpower, resize_counter>>
      <3>1. CASE Lookup(t)
        BY <3>1, Zenon DEF Lookup, read_hp, ReadHashpower, read_counter, read_v1, read_v2, read_cells,
                    after_v1, after_v2, after_counter, find, tableVars
      <3>2. CASE Update(t)
        BY <1>6, <3>2, Zenon DEF Update, insert_hp, insert_count, remove, remove_count, cuckoo_hp,
                    recheck_hp, recheck, tableVars
      <3>3. CASE RunCuckoo(t)
        BY <3>3, Zenon DEF RunCuckoo, run_hp, run_counter, search_counter, search_slot, search_partial,
                    path_counter, path_version, path_occupied, path_key, claim_version, claim,
                    from_version, to_version, move, move_set, tableVars
      <3>4. CASE WholeTable(t) /\ ~iter_body(t)
        BY <3>4, Zenon DEF WholeTable, clear_lock, clear, clear_count, iter_lock, iter, iter_drop,
                    body_return, Unwind, len, set_maximum, set_minimum, tableVars
      <3>5. CASE Return(t)
        BY <3>5 DEF Return, tableVars
      <3>. QED BY <1>6, <3>1, <3>2, <3>3, <3>4, <3>5
    <2>. QED BY <2>1, <2>2, <2>3
  <1>7. CASE GuardStep(t) /\ UNCHANGED <<tableVars, threadVars, pc, loc>>
    BY <1>7 DEF tableVars
  <1>. QED BY <1>2, <1>3, <1>4, <1>5, <1>6, <1>7 DEF Continue

\* A thread that counts its doubling is the only one with a doubling to count.
LEMMA OneUncounted ==
  ASSUME NEW t \in Thread, IInv, MapInv, resize_count(t), NEW u \in Thread, u # t
  PROVE  pc[u] \notin Uncounted
  <1>1. guard[t].got = Lock
    <2>1. pc[t] = "resize_count" /\ guard[t].phase \in {"none", "held"}
      BY DEF resize_count, At
    <2>2. guard[t].phase = "held" /\ guard[t].want = Lock
      BY <2>1, GuardHeld DEF Inside, InWhole, WantAt, InPair, InHop, SnapshotLabels, Hopping
    <2>. QED BY <2>2, HeldGuard
  <1>. SUFFICES ASSUME pc[u] \in Uncounted PROVE FALSE
    OBVIOUS
  <1>2. guard[u].phase = "held" /\ guard[u].want = Lock
    <2>1. pc[u] \in Inside /\ pc[u] \in Late /\ pc[u] \notin InPair /\ pc[u] \notin InHop
          /\ pc[u] \notin InBodies
      BY DEF Uncounted, Inside, InWhole, Late, InPair, InHop, SnapshotLabels, Hopping, RehashLabels,
             InBodies, Optimistic, Snapshots, Validating
    <2>2. GuardFits(u)
      BY DEF MapInv, ThreadFits
    <2>. QED BY <2>1, <2>2 DEF GuardFits, WantAt
  <1>3. guard[u].got = Lock
    BY <1>2, HeldGuard
  <1>. QED BY <1>1, <1>3, NumLocksAssumption DEF IInv, Disjoint, Lock

LEMMA ResizeCounts ==
  ASSUME NEW t \in Thread, IInv, MapInv, Resize(t), OneDoublingPerSize
  PROVE  OneDoublingPerSize'
  <1>1. /\ DOMAIN pc = Thread /\ hashpower \in Nat /\ InitHashpower \in Nat /\ resize_counter \in Nat
    BY Knows DEF Domains, TableTypes
  <1>2. CASE double(t) \/ resize(t)
    <2>1. \E p : p \notin Uncounted /\ Goto(t, p)
      BY <1>2 DEF double, resize, Enter, Leave, Jump, Refuse, Uncounted
    <2>2. UNCHANGED <<hashpower, resize_counter>>
      BY <1>2 DEF double, resize, Refuse, tableVars
    <2>. QED BY <1>1, <2>1, <2>2 DEF OneDoublingPerSize, Doublers, Goto, Uncounted
  <1>3. CASE resize_load(t)
    <2>1. CASE Refuse(t, "LoadFactorTooLow")
      BY <1>1, <2>1 DEF Refuse, Leave, Goto, tableVars, OneDoublingPerSize, Doublers
    <2>2. CASE hashpower' = loc[t].hp0 + 1 /\ UNCHANGED resize_counter
      <3>1. hashpower = loc[t].hp0
        BY <1>3 DEF resize_load, At, MapInv, ThreadFits, HoldFits
      <3>. QED BY <1>1, <2>2, <3>1 DEF OneDoublingPerSize
    <2>. QED BY <1>3, <2>1, <2>2 DEF resize_load
  <1>4. CASE rehash_one(t) \/ rehash_two(t)
    <2>1. t \in Doublers /\ UNCHANGED <<hashpower, resize_counter>>
      BY <1>4 DEF rehash_one, rehash_two, At, Doublers
    <2>. QED BY <1>1, <2>1 DEF OneDoublingPerSize
  <1>5. CASE resize_count(t)
    <2>1. t \in Doublers /\ resize_counter' = resize_counter + 1 /\ hashpower' = hashpower
      BY <1>5 DEF resize_count, At, Doublers
    <2>2. Doublers' = {}
      BY <1>1, <1>5, OneUncounted DEF resize_count, Leave, Goto, Doublers, Uncounted
    <2>. QED BY <1>1, <2>1, <2>2 DEF OneDoublingPerSize
  <1>. QED BY <1>2, <1>3, <1>4, <1>5 DEF Resize

\* However many inserts find the table full at once, and however their
\* doublings, displacements and retries interleave, each size is doubled once:
\* a thread that gets all the locks after another one has doubled for it sees
\* that the size is not the one it searched, and goes back to its insert.
THEOREM DoublingsAreCounted == Spec => []OneDoublingPerSize
  <1>1. Init => OneDoublingPerSize
    BY StripesAssumption DEF Init, TableInit, OneDoublingPerSize, Doublers
  <1>2. (IInv /\ MapInv) /\ OneDoublingPerSize /\ [Next]_vars => OneDoublingPerSize'
    <2> SUFFICES ASSUME IInv, MapInv, OneDoublingPerSize, [Next]_vars PROVE OneDoublingPerSize'
      OBVIOUS
    <2>1. ASSUME UNCHANGED <<pc, hashpower, resize_counter>> PROVE OneDoublingPerSize'
      BY <2>1 DEF OneDoublingPerSize, Doublers
    <2>2. ASSUME NEW t \in Thread, NEW p, p \notin Uncounted, Goto(t, p),
                 UNCHANGED <<hashpower, resize_counter>>
          PROVE  OneDoublingPerSize'
      <3>1. DOMAIN pc = Thread
        BY Knows DEF Domains
      <3>2. Doublers' \subseteq Doublers
        BY <2>2, <3>1 DEF Goto, Doublers, Uncounted
      <3>. QED BY <2>2, <3>2 DEF OneDoublingPerSize
    <2>3. ASSUME NEW t \in Thread, Invoke(t) \/ Continue(t) PROVE OneDoublingPerSize'
      BY <2>1, <2>2, <2>3, ResizeCounts, OthersDoNotDouble
    <2>4. CASE UNCHANGED vars
      BY <2>1, <2>4 DEF vars, tableVars
    <2>. QED BY <2>3, <2>4 DEF Next, AllStopped
  <1>. QED BY <1>1, <1>2, MapInvHolds, PTL DEF Spec

-----------------------------------------------------------------------------
(***************************************************************************)
(* Lookups from the body of an iteration never ask for a lock and are      *)
(* answered from the table, whatever the other threads do, for any         *)
(* threads, keys, hashes, table sizes and scripts.  BodyInv is inductive:  *)
(* a step of another thread changes nothing that a lookup under the        *)
(* iterator's stripes reads (OthersBody), and each step of the lookup      *)
(* itself finds what the one before has read still there.                  *)
(***************************************************************************)

(***************************************************************************)
(* While a body runs, its thread has every stripe for reading.             *)
(***************************************************************************)
LEMMA BodyGuard ==
  ASSUME NEW t \in Thread, IInv, MapInv, InBody(t)
  PROVE  /\ guard[t].phase = "held" /\ guard[t].want = Lock /\ guard[t].got = Lock
         /\ \A l \in Lock : version[l] % 2 # 1
         /\ \A u \in Thread : u # t => \A l \in Lock : l \notin guard[u].got
  <1>1. guard[t].phase = "held" /\ guard[t].want = Lock /\ guard[t].kind = "AllLocksGuard"
    BY DEF MapInv, ThreadFits, GuardFits
  <1>2. guard[t].got = Lock
    BY <1>1, HeldGuard
  <1>3. guard[t].odd = {}
    BY <1>1 DEF IInv, AllGuardsOK, GuardOK, Write
  <1>4. ASSUME NEW u \in Thread, u # t, NEW l \in Lock PROVE l \notin guard[u].got
    BY <1>2, <1>4 DEF IInv, Disjoint
  <1>5. ASSUME NEW l \in Lock, NEW u \in Thread PROVE l \notin guard[u].odd
    <2>1. CASE u = t
      BY <1>3, <2>1
    <2>2. CASE u # t
      BY <1>4, <2>2 DEF IInv, AllGuardsOK, GuardOK
    <2>. QED BY <2>1, <2>2
  <1>6. \A l \in Lock : version[l] % 2 # 1
    BY <1>5 DEF IInv, OddWhileWriting
  <1>. QED BY <1>1, <1>2, <1>4, <1>6

LEMMA NobodyWrites ==
  ASSUME NEW t \in Thread, NEW u \in Thread, u # t, IInv, IInv', MapInv, [Next]_vars,
         Good(t), InBody(u)
  PROVE  UNCHANGED <<buckets, hashpower, resize_counter, version>>
  <1>1. guard[u].phase = "held" /\ guard[u].want = Lock /\ guard[u].got = Lock
    BY BodyGuard
  <1>2. 0 \in Lock /\ TableTypes
    BY NumLocksAssumption DEF Lock, MapInv
  <1>3. UNCHANGED <<buckets, hashpower, resize_counter>>
    BY <1>1, <1>2, SameTableFor, SameSizeFor DEF Good
  <1>4. guard'[u] = guard[u]
    BY DEF Good, Only, OthersKeep
  <1>5. ASSUME NEW l \in Lock, version'[l] # version[l]
        PROVE  FALSE
    <2>1. version'[l] = version[l] + 1 /\ version[l] \in Nat /\ version[l] % 2 # 1
      BY <1>5, MapStepVersions, BodyGuard DEF IInv, LocksTypeOK
    <2>2. version'[l] % 2 = 1
      BY <2>1, Parity
    <2>3. PICK v \in Thread : l \in guard'[v].odd
      BY <2>2 DEF IInv, OddWhileWriting
    <2>4. l \in guard'[v].got /\ guard'[v].odd # {}
      BY <2>3 DEF IInv, AllGuardsOK, GuardOK
    <2>5. v # u
      BY <1>1, <1>4, <2>3, HeldGuard DEF MapInv, ThreadFits, GuardFits, IInv, AllGuardsOK, GuardOK, Write
    <2>6. l \in guard'[u].got
      BY <1>1, <1>4
    <2>. QED BY <2>4, <2>5, <2>6 DEF IInv, Disjoint
  <1>6. DOMAIN version = Lock /\ DOMAIN version' = Lock
        /\ version = [l \in Lock |-> version[l]] /\ version' = [l \in Lock |-> version'[l]]
    BY DEF IInv, LocksTypeOK
  <1>7. version' = version
    BY <1>5, <1>6
  <1>. QED BY <1>3, <1>7

\* A step of t leaves what is known of another thread's iteration as it is.
LEMMA OthersBody ==
  ASSUME NEW t \in Thread, NEW u \in Thread, u # t, IInv, IInv', MapInv, [Next]_vars,
         Good(t), BodyFits(u)
  PROVE  BodyFits(u)'
  <1>1. /\ pc'[u] = pc[u] /\ call'[u] = call[u] /\ loc'[u] = loc[u] /\ guard'[u] = guard[u]
        /\ ret'[u] = ret[u] /\ outer'[u] = outer[u]
    BY DEF Good, Only, OthersKeep
  <1>2. BodyCalls(u)' /\ OldFits(u)'
    BY <1>1 DEF BodyFits, BodyCalls, OldFits, InBody
  <1>3. ASSUME InBody(u) PROVE Undisturbed(u)'
    <2>1. UNCHANGED <<buckets, hashpower, resize_counter, version>>
      BY <1>3, NobodyWrites
    <2>2. Undisturbed(u)
      BY <1>3 DEF BodyFits
    <2>. QED BY <1>1, <2>1, <2>2 DEF Undisturbed, Says, Holds, Homes, CellRead
  <1>. QED BY <1>1, <1>2, <1>3 DEF BodyFits, InBody

-----------------------------------------------------------------------------
(***************************************************************************)
(* Steps of a thread that is not in a body.                                *)
(***************************************************************************)
InBodyLabels == Optimistic \cup {"len", "set_maximum", "set_minimum", "return", "panicked"}

LEMMA NotBody ==
  ASSUME NEW t \in Thread, MapInv, BodyFits(t), pc[t] \notin InBodyLabels
  PROVE  ~InBody(t)
  <1> SUFFICES ASSUME InBody(t) PROVE FALSE
    OBVIOUS
  <1>1. /\ pc[t] \in InBodies /\ pc[t] \notin Snapshots /\ call[t].op \in Unlocked
        /\ LabelFits(pc[t], call[t].op, loc[t].then)
    BY DEF MapInv, ThreadFits, GuardFits, CallFits, BodyFits, BodyCalls, Undisturbed
  <1>2. pc[t] \in {"insert_hp", "clear_lock"}
    BY <1>1 DEF InBodies, InBodyLabels
  <1>. QED BY <1>1, <1>2 DEF LabelFits, Inserting, ClearLabels, Unlocked

\* t keeps its call, and of an old container no more than it had.
Plain(t) ==
  /\ UNCHANGED <<call, outer>>
  /\ loc'[t].old = loc[t].old \/ loc'[t].old = None

LEMMA PlainFits ==
  ASSUME NEW t \in Thread, BodyFits(t), Plain(t), pc[t] \notin RehashLabels \cup {"clear"}
  PROVE  BodyCalls(t)' /\ OldFits(t)'
  <1>1. loc'[t].old = None
    BY DEF Plain, BodyFits, OldFits
  <1>. QED BY <1>1 DEF Plain, BodyFits, BodyCalls, OldFits, InBody

LEMMA PlainOutside ==
  ASSUME NEW t \in Thread, MapInv, BodyFits(t), Plain(t),
         pc[t] \notin RehashLabels \cup {"clear"} \cup InBodyLabels
  PROVE  BodyFits(t)'
  <1>1. BodyCalls(t)' /\ OldFits(t)'
    BY PlainFits
  <1>2. ~InBody(t)'
    BY NotBody DEF Plain, InBody
  <1>. QED BY <1>1, <1>2 DEF BodyFits

LEMMA OldOf ==
  ASSUME NEW t \in Thread, MapInv
  PROVE  DOMAIN loc = Thread /\ "old" \in DOMAIN loc[t] /\ NoLocals.old = None
  BY Knows DEF Domains, LocalsFit, NoLocals

LEMMA SnapshotsBody ==
  ASSUME NEW t \in Thread, MapInv, BodyFits(t), Snapshot(t)
  PROVE  BodyFits(t)'
  <1>1. pc[t] \in Snapshots \cup SnapshotLabels
    BY DEF Snapshot, snapshot_hp, ReadHashpower, snapshot_counter, snapshot_retry, At, Snapshots
  <1>2. Plain(t)
    BY OldOf DEF Plain, Snapshot, snapshot_hp, ReadHashpower, snapshot_counter, WithIndices,
                 snapshot_retry, Local, threadVars, callVars
  <1>. QED BY <1>1, <1>2, PlainOutside
         DEF Snapshots, SnapshotLabels, RehashLabels, InBodyLabels, Optimistic, Validating

LEMMA UpdateBody ==
  ASSUME NEW t \in Thread, MapInv, BodyFits(t), Update(t)
  PROVE  BodyFits(t)'
  <1>1. pc[t] \in {"insert_hp", "insert", "insert_count", "remove", "remove_count", "cuckoo_hp",
                   "recheck_hp", "recheck"}
    BY DEF Update, insert_hp, insert, insert_count, remove, remove_count, cuckoo_hp, recheck_hp,
           recheck, Locked, At
  <1>2. CASE insert_hp(t) \/ insert_count(t) \/ remove_count(t) \/ cuckoo_hp(t) \/ recheck_hp(t)
    <2>1. Plain(t)
      BY <1>2, OldOf DEF Plain, insert_hp, insert_count, remove_count, cuckoo_hp, recheck_hp, Local,
                         threadVars, callVars, NoLocals
    <2>. QED BY <1>1, <2>1, PlainOutside DEF RehashLabels, InBodyLabels, Optimistic, Validating
  <1>3. CASE insert(t) \/ remove(t) \/ recheck(t)
    <2>1. /\ loc' = loc \/ \E c : Local(t, [loc[t] EXCEPT !.spot = c])
          /\ UNCHANGED callVars
      BY <1>3 DEF insert, remove, recheck, Put, Answer, threadVars
    <2>2. Plain(t)
      BY <2>1, OldOf DEF Plain, Local, callVars
    <2>. QED BY <1>1, <2>2, PlainOutside DEF RehashLabels, InBodyLabels, Optimistic, Validating
  <1>. QED BY <1>2, <1>3 DEF Update

LEMMA RunCuckooBody ==
  ASSUME NEW t \in Thread, MapInv, BodyFits(t), RunCuckoo(t)
  PROVE  BodyFits(t)'
  <1>1. pc[t] \in {"run_hp", "run_counter", "slot_search", "search_partial"} \cup OnPath
    <2>1. CASE run_hp(t) \/ run_counter(t) \/ search_counter(t) \/ search_slot(t) \/ search_partial(t)
      BY <2>1, Zenon DEF run_hp, run_counter, search_counter, search_slot, search_partial, At
    <2>2. CASE path_counter(t) \/ path_version(t) \/ path_occupied(t)
      BY <2>2, Zenon DEF path_counter, path_version, path_occupied, At, OnPath
    <2>3. CASE path_key(t) \/ claim_version(t) \/ claim(t)
      BY <2>3, Zenon DEF path_key, claim_version, claim, At, OnPath
    <2>4. CASE from_version(t) \/ to_version(t)
      BY <2>4, Zenon DEF from_version, to_version, At, OnPath, Hopping
    <2>5. CASE move(t) \/ move_set(t)
      BY <2>5, Zenon DEF move, move_set, At, OnPath, Hopping
    <2>. QED BY <2>1, <2>2, <2>3, <2>4, <2>5 DEF RunCuckoo
  <1>2. /\ UNCHANGED callVars
        /\ \/ loc' = loc
           \/ \E w : Walk(t, w)
           \/ \E c : Local(t, [loc[t] EXCEPT !.spot = c, !.walk = NoWalk])
    <2>1. CASE run_hp(t) \/ run_counter(t) \/ search_counter(t)
      BY <2>1, Zenon DEF run_hp, run_counter, search_counter, threadVars
    <2>2. CASE search_slot(t) \/ search_partial(t)
      BY <2>2, Zenon DEF search_slot, search_partial, ScanOn, threadVars
    <2>3. CASE path_counter(t) \/ path_version(t) \/ path_occupied(t)
      BY <2>3, Zenon DEF path_counter, path_version, path_occupied, threadVars
    <2>4. CASE path_key(t)
      BY <2>4, Zenon DEF path_key, threadVars
    <2>5. CASE claim_version(t) \/ from_version(t) \/ to_version(t)
      BY <2>5, Zenon DEF claim_version, from_version, to_version, threadVars
    <2>6. CASE claim(t)
      BY <2>6, Zenon DEF claim, threadVars
    <2>7. CASE move(t) \/ move_set(t)
      BY <2>7, Zenon DEF move, move_set, threadVars
    <2>. QED BY <2>1, <2>2, <2>3, <2>4, <2>5, <2>6, <2>7, Zenon DEF RunCuckoo
  <1>3. Plain(t)
    <2>1. UNCHANGED <<call, outer>>
      BY <1>2 DEF callVars
    <2>2. loc'[t].old = loc[t].old
      BY <1>2, OldOf DEF Walk, Local
    <2>. QED BY <2>1, <2>2 DEF Plain
  <1>. QED BY <1>1, <1>3, PlainOutside DEF OnPath, Hopping, RehashLabels, InBodyLabels, Optimistic, Validating

LEMMA ResizeBody ==
  ASSUME NEW t \in Thread, IInv, MapInv, BodyFits(t), Resize(t)
  PROVE  BodyFits(t)'
  <1>1. CASE double(t) \/ resize(t) \/ resize_count(t)
    <2>1. pc[t] \in {"double", "resize", "resize_count"}
      BY <1>1 DEF double, resize, resize_count, At
    <2>2. Plain(t)
      BY <1>1 DEF Plain, double, resize, resize_count, Refuse, Answer, threadVars, callVars
    <2>. QED BY <2>1, <2>2, PlainOutside DEF RehashLabels, InBodyLabels, Optimistic, Validating
  <1>2. CASE resize_load(t) \/ rehash_one(t) \/ rehash_two(t)
    <2>1. pc[t] \in {"resize_load", "rehash_one", "rehash_two"} /\ UNCHANGED <<call, outer>>
      BY <1>2 DEF resize_load, rehash_one, rehash_two, At, Refuse, Answer, threadVars, callVars
    <2>2. ~InBody(t)
      BY <2>1, NotBody DEF InBodyLabels, Optimistic, Validating
    <2>3. loc'[t].old # None => pc'[t] \in RehashLabels
      <3>1. CASE resize_load(t)
        <4>1. CASE Refuse(t, "LoadFactorTooLow")
          <5>1. loc' = loc /\ pc[t] = "resize_load"
            BY <3>1, <4>1 DEF Refuse, resize_load, At
          <5>. QED BY <5>1 DEF BodyFits, OldFits, RehashLabels
        <4>2. CASE Jump(t, "rehash_one")
          BY <4>2, Knows DEF Jump, Goto, Domains, RehashLabels
        <4>. QED BY <3>1, <4>1, <4>2, Zenon DEF resize_load
      <3>2. CASE rehash_one(t)
        <4>1. CASE Local(t, [loc[t] EXCEPT !.old = None])
          BY <4>1, OldOf DEF Local
        <4>2. CASE \E p \in RehashLabels : Jump(t, p)
          BY <4>2, Knows DEF Jump, Goto, Domains
        <4>. QED BY <3>2, <4>1, <4>2, Zenon DEF rehash_one, RehashLabels
      <3>3. CASE rehash_two(t)
        <4>1. CASE \/ Local(t, [loc[t] EXCEPT !.old = None])
                   \/ Local(t, [loc[t] EXCEPT !.old = None, !.aside = <<>>])
          BY <4>1, OldOf DEF Local
        <4>2. CASE Jump(t, "rehash_two")
          BY <4>2, Knows DEF Jump, Goto, Domains, RehashLabels
        <4>. QED BY <3>3, <4>1, <4>2, Zenon DEF rehash_two
      <3>. QED BY <1>2, <3>1, <3>2, <3>3
    <2>4. OldFits(t)' /\ BodyCalls(t)' /\ ~InBody(t)'
      BY <2>1, <2>2, <2>3 DEF OldFits, BodyCalls, BodyFits, InBody
    <2>. QED BY <2>4 DEF BodyFits
  <1>. QED BY <1>1, <1>2 DEF Resize

-----------------------------------------------------------------------------
(***************************************************************************)
(* A lookup in a body.                                                     *)
(***************************************************************************)
LEMMA SlotsRead ==
  /\ \A s \in Slot : /\ s \in Nat /\ s < SLOT_PER_BUCKET /\ s % SLOT_PER_BUCKET = s
                     /\ (s + SLOT_PER_BUCKET) % SLOT_PER_BUCKET = s
  /\ \A n \in Nat : n % SLOT_PER_BUCKET \in Slot
  <1>1. SLOT_PER_BUCKET \in Nat \ {0}
    BY TableAssumption
  <1>2. ASSUME NEW s \in Slot
        PROVE  /\ s \in Nat /\ s < SLOT_PER_BUCKET /\ s % SLOT_PER_BUCKET = s
               /\ (s + SLOT_PER_BUCKET) % SLOT_PER_BUCKET = s
    <2>1. s \in 0 .. SLOT_PER_BUCKET - 1
      BY DEF Slot
    <2>2. (0 * SLOT_PER_BUCKET + s) % SLOT_PER_BUCKET = s
          /\ (1 * SLOT_PER_BUCKET + s) % SLOT_PER_BUCKET = s
      BY <1>1, <2>1, DivMod
    <2>. QED BY <1>1, <2>1, <2>2
  <1>3. \A n \in Nat : n % SLOT_PER_BUCKET \in Slot
    BY <1>1, DivModExists DEF Slot
  <1>. QED BY <1>2, <1>3

\* The slots that a lookup reads are those of its key's buckets.
ReadsAllOf(l, k) ==
  /\ \A n \in Nat : \E b \in Homes(k), s \in Slot : CellRead(l, n) = buckets[b][s]
  /\ \A b \in Homes(k), s \in Slot :
       \E n \in 0 .. 2 * SLOT_PER_BUCKET - 1 : CellRead(l, n) = buckets[b][s]

LEMMA ReadsHomes ==
  ASSUME NEW l, NEW k, Homes(k) = {l.i1, l.i2}
  PROVE  ReadsAllOf(l, k)
  <1>1. SLOT_PER_BUCKET \in Nat \ {0}
    BY TableAssumption
  <1>2. ASSUME NEW n \in Nat
        PROVE  \E b \in Homes(k), s \in Slot : CellRead(l, n) = buckets[b][s]
    BY SlotsRead DEF CellRead
  <1>3. ASSUME NEW b \in Homes(k), NEW s \in Slot
        PROVE  \E n \in 0 .. 2 * SLOT_PER_BUCKET - 1 : CellRead(l, n) = buckets[b][s]
    <2>1. s \in Nat /\ s < SLOT_PER_BUCKET
      BY SlotsRead
    <2>2. CASE b = l.i1
      <3>1. s \in 0 .. 2 * SLOT_PER_BUCKET - 1
        BY <1>1, <2>1
      <3>2. CellRead(l, s) = buckets[b][s]
        BY <2>1, <2>2, SlotsRead DEF CellRead
      <3>. QED BY <3>1, <3>2
    <2>3. CASE b = l.i2
      <3>. PICK n : n = s + SLOT_PER_BUCKET
        OBVIOUS
      <3>1. n \in 0 .. 2 * SLOT_PER_BUCKET - 1 /\ ~(n < SLOT_PER_BUCKET)
        BY <1>1, <2>1
      <3>2. n % SLOT_PER_BUCKET = s
        BY SlotsRead
      <3>3. CellRead(l, n) = buckets[b][s]
        BY <2>3, <3>1, <3>2 DEF CellRead
      <3>. QED BY <3>1, <3>3
    <2>. QED BY <2>2, <2>3
  <1>. QED BY <1>2, <1>3 DEF ReadsAllOf

LEMMA ReadingKnows ==
  ASSUME NEW t \in Thread, IInv, MapInv, BodyFits(t), InBody(t), pc[t] \in Optimistic
  PROVE  /\ Undisturbed(t) /\ LocalsFit(loc[t]) /\ Domains /\ call[t].key \in Key
         /\ \A l \in Lock : version[l] % 2 # 1
         /\ pc[t] \in Validating => /\ Homes(call[t].key) = {loc[t].i1, loc[t].i2}
                                    /\ lock_ind(loc[t].i1) \in Lock /\ lock_ind(loc[t].i2) \in Lock
  <1>1. ThreadFits(t) /\ LocalsFit(loc[t]) /\ Domains /\ hashpower \in Nat /\ Undisturbed(t)
    BY Knows DEF BodyFits
  <1>2. call[t].op \in {"get", "contains_key"} /\ call[t] \in BodyCall
    BY <1>1 DEF ThreadFits, CallFits, LabelFits, OuterFits
  <1>3. call[t].key \in Key
    BY <1>2, KeyOfCall
  <1>4. ASSUME pc[t] \in Validating
        PROVE  /\ Homes(call[t].key) = {loc[t].i1, loc[t].i2}
               /\ lock_ind(loc[t].i1) \in Lock /\ lock_ind(loc[t].i2) \in Lock
    <2>1. loc[t].hp = hashpower
      BY <1>1, <1>4 DEF Undisturbed
    <2>2. loc[t].i1 = Bucket1(hashpower, call[t].key) /\ loc[t].i2 = Bucket2(hashpower, call[t].key)
      BY <1>1, <1>4, <2>1 DEF ThreadFits, IndexFits, Indexed
    <2>3. loc[t].i1 \in Nat /\ loc[t].i2 \in Nat
      BY <1>1, <1>3, <2>2, BucketType, IndexType
    <2>. QED BY <2>2, <2>3, LockIndType DEF Homes
  <1>. QED BY <1>1, <1>3, <1>4, BodyGuard

\* A step of the lookup: the locals and the label change, the table does not.
ReadStep(t, p, l) ==
  /\ pc'[t] = p /\ loc'[t] = l
  /\ UNCHANGED <<buckets, hashpower, resize_counter, version, call, outer>>

LEMMA ReadStepIs ==
  ASSUME NEW t \in Thread, MapInv, NEW p, NEW l, Jump(t, p), Local(t, l),
         UNCHANGED <<tableVars, threadVars>>
  PROVE  ReadStep(t, p, l)
  BY Knows DEF Jump, Goto, Local, Domains, ReadStep, lockVars, tableVars, threadVars, callVars

LEMMA ReadHpBody ==
  ASSUME NEW t \in Thread, IInv, MapInv, BodyFits(t), InBody(t), read_hp(t)
  PROVE  Undisturbed(t)'
  <1>. PICK l : l = [loc[t] EXCEPT !.hp = hashpower]
    OBVIOUS
  <1>1. pc[t] = "read_hp" /\ ReadStep(t, "read_counter", l)
    BY ReadStepIs DEF read_hp, ReadHashpower, At
  <1>2. Undisturbed(t) /\ LocalsFit(loc[t])
    BY <1>1, ReadingKnows DEF Optimistic
  <1>3. l.hp = hashpower /\ l.cur = loc[t].cur /\ l.hit = loc[t].hit /\ l.same = loc[t].same
    BY <1>2 DEF LocalsFit, NoLocals
  <1>. QED BY <1>1, <1>2, <1>3 DEF ReadStep, Undisturbed, Optimistic, Validating, Compared, Snapshots

LEMMA ReadCounterBody ==
  ASSUME NEW t \in Thread, IInv, MapInv, BodyFits(t), InBody(t), read_counter(t)
  PROVE  Undisturbed(t)'
  <1>. PICK l : l = WithIndices(t)
    OBVIOUS
  <1>1. pc[t] = "read_counter" /\ ReadStep(t, "read_v1", l)
    BY ReadStepIs DEF read_counter, At
  <1>2. Undisturbed(t) /\ LocalsFit(loc[t])
    BY <1>1, ReadingKnows DEF Optimistic
  <1>3. /\ l.hp = loc[t].hp /\ l.cur = loc[t].cur /\ l.hit = loc[t].hit /\ l.same = loc[t].same
        /\ l.counter = resize_counter
    BY <1>2 DEF WithIndices, LocalsFit, NoLocals
  <1>. QED BY <1>1, <1>2, <1>3 DEF ReadStep, Undisturbed, Optimistic, Validating, Compared, Snapshots

LEMMA SaysStays ==
  ASSUME NEW k, NEW x, Says(k, x), UNCHANGED <<buckets, hashpower>>
  PROVE  Says(k, x)'
  BY Zenon DEF Says, Holds, Homes

\* A step of a lookup between its first slot read and its answer.
LEMMA StillReading ==
  ASSUME NEW t \in Thread, NEW l, NEW p \in {"read_cells"} \cup Compared, ReadStep(t, p, l),
         l.hp = hashpower, l.counter = resize_counter, l.same,
         l.v1 = version[lock_ind(l.i1)], l.v2 = version[lock_ind(l.i2)],
         p = "read_cells" =>
           /\ l.hit = None /\ l.cur < 2 * SLOT_PER_BUCKET
           /\ \A n \in 0 .. l.cur - 1 :
                CellRead(l, n) # None => CellRead(l, n).key # call[t].key,
         p \in Compared => Says(call[t].key, l.hit)
  PROVE  Undisturbed(t)'
  <1>1. /\ pc'[t] = p /\ loc'[t] = l
        /\ UNCHANGED <<buckets, hashpower, resize_counter, version, call>>
    BY DEF ReadStep
  <1>2. p \in Compared => Says(call[t].key, loc[t].hit)'
    <2>. PICK k, x : k = call[t].key /\ x = l.hit
      OBVIOUS
    <2>1. p \in Compared => Says(k, x)'
      BY <1>1, SaysStays
    <2>2. (k = call[t].key /\ x = loc[t].hit)'
      BY <1>1
    <2>. QED BY <2>1, <2>2
  <1>3. p = "read_cells" =>
          (\A n \in 0 .. loc[t].cur - 1 :
             CellRead(loc[t], n) # None => CellRead(loc[t], n).key # call[t].key)'
    BY <1>1 DEF CellRead
  <1>4. (loc[t].v1 = version[lock_ind(loc[t].i1)] /\ loc[t].v2 = version[lock_ind(loc[t].i2)])'
    BY <1>1 DEF lock_ind
  <1>. QED BY <1>1, <1>2, <1>3, <1>4
         DEF Undisturbed, Optimistic, Validating, Compared, Snapshots

\* Both versions are even, so the lookup does not start again.
LEMMA ReadVersionsBody ==
  ASSUME NEW t \in Thread, IInv, MapInv, BodyFits(t), InBody(t), read_v1(t) \/ read_v2(t)
  PROVE  Undisturbed(t)'
  <1>1. pc[t] \in {"read_v1", "read_v2"} /\ UNCHANGED <<tableVars, threadVars>>
    BY DEF read_v1, read_v2, At
  <1>. PICK a, b : a = version[lock_ind(loc[t].i1)] /\ b = version[lock_ind(loc[t].i2)]
    OBVIOUS
  <1>2. /\ Undisturbed(t) /\ LocalsFit(loc[t]) /\ a % 2 # 1 /\ b % 2 # 1
    BY <1>1, ReadingKnows DEF Optimistic, Validating
  <1>3. PICK l, p : /\ Local(t, l) /\ Jump(t, p)
                    /\ l = [loc[t] EXCEPT !.v1 = a, !.v2 = a] \/ l = [loc[t] EXCEPT !.v2 = b]
                    /\ l.v1 = a
                    /\ \/ p = "read_v2"
                       \/ p = "read_cells" /\ l.v2 = b
    <2>1. CASE read_v1(t)
      <3>. PICK l : l = [loc[t] EXCEPT !.v1 = a, !.v2 = a]
        OBVIOUS
      <3>1. l.v1 = a /\ l.v2 = a
        BY <1>2 DEF LocalsFit, NoLocals
      <3>2. CASE TwoLocks(t)
        <4>1. Local(t, l) /\ Jump(t, "read_v2")
          BY <2>1, <3>2 DEF read_v1
        <4>. QED BY <3>1, <4>1
      <3>3. CASE ~TwoLocks(t)
        <4>1. StartReading(t, l)
          BY <2>1, <3>3 DEF read_v1
        <4>2. Local(t, l) /\ Jump(t, "read_cells")
          BY <1>2, <3>1, <4>1 DEF StartReading
        <4>3. a = b
          BY <3>3 DEF TwoLocks
        <4>. QED BY <3>1, <4>2, <4>3
      <3>. QED BY <3>2, <3>3
    <2>2. CASE read_v2(t)
      <3>. PICK l : l = [loc[t] EXCEPT !.v2 = b]
        OBVIOUS
      <3>1. pc[t] = "read_v2" /\ StartReading(t, l)
        BY <2>2 DEF read_v2, At
      <3>2. l.v1 = a /\ l.v2 = b
        BY <1>2, <3>1 DEF LocalsFit, NoLocals, Undisturbed
      <3>3. Local(t, l) /\ Jump(t, "read_cells")
        BY <1>2, <3>1, <3>2 DEF StartReading
      <3>. QED BY <3>2, <3>3
    <2>. QED BY <2>1, <2>2
  <1>4. ReadStep(t, p, l)
    BY <1>1, <1>3, ReadStepIs
  <1>5. /\ l.hp = loc[t].hp /\ l.cur = loc[t].cur /\ l.hit = loc[t].hit /\ l.same = loc[t].same
        /\ l.counter = loc[t].counter /\ l.i1 = loc[t].i1 /\ l.i2 = loc[t].i2
    BY <1>2, <1>3 DEF LocalsFit, NoLocals
  <1>6. /\ l.cur = 0 /\ l.hit = None /\ l.hp = hashpower /\ l.counter = resize_counter /\ l.same
    BY <1>1, <1>2, <1>5 DEF Undisturbed, Optimistic, Validating, Compared
  <1>7. 0 < 2 * SLOT_PER_BUCKET
    BY TableAssumption
  <1>8. CASE p = "read_v2"
    BY <1>3, <1>4, <1>5, <1>6, <1>8
       DEF ReadStep, Undisturbed, Optimistic, Validating, Compared, Snapshots, lock_ind
  <1>9. CASE p = "read_cells" /\ l.v2 = b
    <2>1. \A n \in 0 .. l.cur - 1 : FALSE
      BY <1>6
    <2>2. l.v1 = version[lock_ind(l.i1)] /\ l.v2 = version[lock_ind(l.i2)]
      BY <1>3, <1>5, <1>9
    <2>3. p \notin Compared
      BY <1>9 DEF Compared
    <2>. QED BY <1>4, <1>6, <1>7, <1>9, <2>1, <2>2, <2>3, StillReading
  <1>. QED BY <1>3, <1>8, <1>9

LEMMA ReadCellsBody ==
  ASSUME NEW t \in Thread, IInv, MapInv, BodyFits(t), InBody(t), read_cells(t)
  PROVE  Undisturbed(t)'
  <1>. PICK n, k : n = loc[t].cur /\ k = call[t].key
    OBVIOUS
  <1>. PICK cell : cell = CellRead(loc[t], n)
    OBVIOUS
  <1>. DEFINE mine == cell # None /\ cell.key = k
  <1>. PICK l : l = [loc[t] EXCEPT !.cur = n + 1, !.hit = IF mine THEN cell.value ELSE None]
    OBVIOUS
  <1>. PICK p : p = IF mine \/ n + 1 = 2 * SLOT_PER_BUCKET THEN "after_v1" ELSE "read_cells"
    OBVIOUS
  <1>1. /\ pc[t] = "read_cells" /\ UNCHANGED <<tableVars, threadVars>>
        /\ Local(t, l) /\ Jump(t, p)
    BY Zenon DEF read_cells, At, CellRead
  <1>2. ReadStep(t, p, l)
    BY <1>1, ReadStepIs
  <1>3. /\ Undisturbed(t) /\ LocalsFit(loc[t]) /\ Homes(k) = {loc[t].i1, loc[t].i2}
    BY <1>1, ReadingKnows DEF Optimistic, Validating
  <1>4. n \in Nat /\ n < 2 * SLOT_PER_BUCKET /\ 2 * SLOT_PER_BUCKET \in Nat
    BY <1>1, <1>3, TableAssumption DEF Undisturbed, LocalsFit
  <1>5. /\ l.cur = n + 1 /\ l.hit = (IF mine THEN cell.value ELSE None)
        /\ l.hp = loc[t].hp /\ l.same = loc[t].same /\ l.v1 = loc[t].v1 /\ l.v2 = loc[t].v2
        /\ l.counter = loc[t].counter /\ l.i1 = loc[t].i1 /\ l.i2 = loc[t].i2
    BY <1>3 DEF LocalsFit, NoLocals
  <1>6. /\ l.hp = hashpower /\ l.counter = resize_counter /\ l.same
        /\ l.v1 = version[lock_ind(l.i1)] /\ l.v2 = version[lock_ind(l.i2)]
    BY <1>1, <1>3, <1>5 DEF Undisturbed, Optimistic, Validating, Compared
  <1>7. \A m \in 0 .. n - 1 : CellRead(loc[t], m) # None => CellRead(loc[t], m).key # k
    BY <1>1, <1>3 DEF Undisturbed
  <1>12. ReadsAllOf(loc[t], k)
    BY <1>3, ReadsHomes
  <1>8. CASE mine
    <2>1. PICK b \in Homes(k), s \in Slot : cell = buckets[b][s]
      BY <1>4, <1>12 DEF ReadsAllOf
    <2>2. Holds(b, s, k, l.hit)
      BY <1>5, <1>8, <2>1 DEF Holds
    <2>3. Says(k, l.hit) /\ p = "after_v1"
      BY <1>8, <2>1, <2>2 DEF Says
    <2>. QED BY <1>2, <1>6, <2>3, StillReading DEF Compared
  <1>9. ASSUME ~mine
        PROVE  \A m \in 0 .. n : CellRead(loc[t], m) # None => CellRead(loc[t], m).key # k
    <2>1. \A m \in 0 .. n : m \in 0 .. n - 1 \/ m = n
      BY <1>4
    <2>. QED BY <1>7, <1>9, <2>1
  <1>10. CASE ~mine /\ n + 1 = 2 * SLOT_PER_BUCKET
    <2>1. l.hit = None /\ p = "after_v1" /\ n = 2 * SLOT_PER_BUCKET - 1
      BY <1>4, <1>5, <1>10
    <2>2. ASSUME NEW b \in Homes(k), NEW s \in Slot
          PROVE  buckets[b][s] # None => buckets[b][s].key # k
      <3>1. PICK m \in 0 .. 2 * SLOT_PER_BUCKET - 1 : CellRead(loc[t], m) = buckets[b][s]
        BY <1>12 DEF ReadsAllOf
      <3>. QED BY <1>9, <1>10, <2>1, <3>1
    <2>3. Says(k, l.hit)
      BY <2>1, <2>2 DEF Says
    <2>. QED BY <1>2, <1>6, <2>1, <2>3, StillReading DEF Compared
  <1>11. CASE ~mine /\ n + 1 # 2 * SLOT_PER_BUCKET
    <2>1. l.hit = None /\ p = "read_cells" /\ l.cur < 2 * SLOT_PER_BUCKET /\ l.cur - 1 = n
      BY <1>4, <1>5, <1>11
    <2>2. \A m : CellRead(l, m) = CellRead(loc[t], m)
      BY <1>5, Zenon DEF CellRead
    <2>3. \A m \in 0 .. l.cur - 1 : CellRead(l, m) # None => CellRead(l, m).key # k
      BY <1>9, <1>11, <2>1, <2>2
    <2>4. p \notin Compared
      BY <2>1 DEF Compared
    <2>. QED BY <1>2, <1>6, <2>1, <2>3, <2>4, StillReading
  <1>. QED BY <1>8, <1>10, <1>11

\* The versions are still those that were noted.
LEMMA AfterBody ==
  ASSUME NEW t \in Thread, IInv, MapInv, BodyFits(t), InBody(t), after_v1(t) \/ after_v2(t)
  PROVE  Undisturbed(t)'
  <1>1. pc[t] \in {"after_v1", "after_v2"} /\ UNCHANGED <<tableVars, threadVars>>
    BY DEF after_v1, after_v2, At
  <1>2. Undisturbed(t) /\ LocalsFit(loc[t])
    BY <1>1, ReadingKnows DEF Optimistic, Validating
  <1>3. /\ loc[t].v1 = version[lock_ind(loc[t].i1)] /\ loc[t].v2 = version[lock_ind(loc[t].i2)]
        /\ loc[t].hp = hashpower /\ loc[t].counter = resize_counter /\ loc[t].same
        /\ Says(call[t].key, loc[t].hit)
    BY <1>1, <1>2 DEF Undisturbed, Optimistic, Validating, Compared
  <1>4. PICK p \in {"after_v2", "after_counter"} : Jump(t, p)
    BY DEF after_v1, after_v2
  <1>5. PICK e : Local(t, [loc[t] EXCEPT !.same = e]) /\ e
    <2>1. CASE after_v1(t)
      BY <1>3, <2>1 DEF after_v1
    <2>2. CASE after_v2(t)
      BY <1>3, <2>2 DEF after_v2
    <2>. QED BY <2>1, <2>2
  <1>. PICK l : l = [loc[t] EXCEPT !.same = e]
    OBVIOUS
  <1>6. ReadStep(t, p, l)
    BY <1>1, <1>4, <1>5, ReadStepIs
  <1>7. /\ l.hit = loc[t].hit /\ l.hp = loc[t].hp /\ l.v1 = loc[t].v1 /\ l.v2 = loc[t].v2
        /\ l.counter = loc[t].counter /\ l.i1 = loc[t].i1 /\ l.i2 = loc[t].i2 /\ l.same = e
    BY <1>2 DEF LocalsFit, NoLocals
  <1>8. p \in Compared /\ p # "read_cells" /\ l.same
    BY <1>5, <1>7 DEF Compared
  <1>. QED BY <1>3, <1>6, <1>7, <1>8, StillReading

\* What is said of a key is a value, or that it is absent.
LEMMA SaidValue ==
  ASSUME MapInv, NEW k \in Key, NEW x, Says(k, x)
  PROVE  x \in Value \cup {None}
  <1>1. CASE \E b \in Homes(k), s \in Slot : Holds(b, s, k, x)
    <2>1. PICK b \in Homes(k), s \in Slot : Holds(b, s, k, x)
      BY <1>1
    <2>2. hashpower \in Nat /\ buckets \in TabType(hashpower)
      BY DEF MapInv, TableTypes
    <2>3. b \in Index(hashpower)
      BY <2>2, BucketType DEF Homes
    <2>4. buckets[b][s] \in Item
      BY <2>1, <2>2, <2>3 DEF Holds, TabType, Cell
    <2>. QED BY <2>1, <2>4 DEF Holds, Item
  <1>. QED BY <1>1 DEF Says

LEMMA AnswerBody ==
  ASSUME NEW t \in Thread, IInv, MapInv, BodyFits(t), InBody(t), after_counter(t)
  PROVE  Undisturbed(t)'
  <1>. PICK x, k : x = loc[t].hit /\ k = call[t].key
    OBVIOUS
  <1>1. pc[t] = "after_counter" /\ UNCHANGED tableVars
    BY DEF after_counter, At
  <1>2. Undisturbed(t) /\ Domains /\ k \in Key
    BY <1>1, ReadingKnows DEF Optimistic, Validating
  <1>3. /\ resize_counter = loc[t].counter /\ loc[t].same /\ Says(k, x)
    BY <1>1, <1>2 DEF Undisturbed, Optimistic, Validating, Compared
  <1>4. Answer(t, Hit(call[t], x)) /\ Jump(t, "return")
    BY <1>3 DEF after_counter
  <1>5. pc'[t] = "return" /\ call' = call /\ ret'[t] = Hit(call[t], x)
    BY <1>2, <1>4 DEF Jump, Goto, Answer, callVars, Domains
  <1>6. Says(k, x)'
    BY <1>1, <1>3, SaysStays DEF tableVars
  <1>7. Hit(call[t], x)' = Hit(call[t], x)
    BY <1>5
  <1>8. x \in Value \cup {None}
    BY <1>2, <1>3, SaidValue
  <1>9. (\E y \in Value \cup {None} : Says(call[t].key, y) /\ ret[t] = Hit(call[t], y))'
    BY <1>5, <1>6, <1>7, <1>8
  <1>. QED BY <1>5, <1>9 DEF Undisturbed, Optimistic, Validating, Compared, Snapshots

LEMMA LookupBody ==
  ASSUME NEW t \in Thread, IInv, MapInv, BodyFits(t), Lookup(t)
  PROVE  BodyFits(t)'
  <1>1. pc[t] \in Optimistic \cup {"find"}
    BY DEF Lookup, read_hp, ReadHashpower, read_counter, read_v1, read_v2, read_cells, after_v1,
           after_v2, after_counter, find, Locked, At, Optimistic, Validating
  <1>2. Plain(t)
    <2>1. UNCHANGED <<call, outer>>
      BY DEF Lookup, read_hp, ReadHashpower, read_counter, read_v1, read_v2, read_cells, after_v1,
             after_v2, after_counter, find, Answer, threadVars, callVars
    <2>2. CASE read_hp(t) \/ read_counter(t) \/ read_cells(t) \/ after_v1(t) \/ after_v2(t)
      BY <2>1, <2>2, OldOf DEF Plain, read_hp, ReadHashpower, read_counter, WithIndices, read_cells,
                               after_v1, after_v2, Local
    <2>3. ASSUME NEW l, StartReading(t, l) \/ Retry(t, l) \/ Local(t, l), l.old = loc[t].old
          PROVE  Plain(t)
      <3>1. CASE Retry(t, l)
        <4>1. PICK n, w : Local(t, [NoLocals EXCEPT !.tries = n, !.then = w])
          BY <3>1, Zenon DEF Retry
        <4>2. [NoLocals EXCEPT !.tries = n, !.then = w].old = None
          BY DEF NoLocals
        <4>. QED BY <2>1, <4>1, <4>2, OldOf DEF Plain, Local
      <3>2. CASE Local(t, l)
        BY <2>1, <2>3, <3>2, OldOf DEF Plain, Local
      <3>. QED BY <2>3, <3>1, <3>2 DEF StartReading
    <2>4. CASE read_v1(t) \/ read_v2(t)
      <3>1. PICK a, b : \/ StartReading(t, [loc[t] EXCEPT !.v1 = a, !.v2 = b])
                        \/ StartReading(t, [loc[t] EXCEPT !.v2 = b])
                        \/ Local(t, [loc[t] EXCEPT !.v1 = a, !.v2 = b])
        BY <2>4, Zenon DEF read_v1, read_v2
      <3>2. /\ [loc[t] EXCEPT !.v1 = a, !.v2 = b].old = loc[t].old
            /\ [loc[t] EXCEPT !.v2 = b].old = loc[t].old
        BY OldOf
      <3>. QED BY <2>3, <3>1, <3>2
    <2>5. CASE after_counter(t) \/ find(t)
      BY <2>1, <2>3, <2>5 DEF Plain, after_counter, find
    <2>. QED BY <2>2, <2>4, <2>5, Zenon DEF Lookup
  <1>3. BodyCalls(t)' /\ OldFits(t)'
    BY <1>1, <1>2, PlainFits DEF Optimistic, Validating, RehashLabels
  <1>4. ASSUME InBody(t) PROVE Undisturbed(t)'
    <2>1. pc[t] # "find"
      BY <1>4, NotBody DEF InBodyLabels, Optimistic, Validating
    <2>2. ~find(t)
      BY <2>1 DEF find, Locked, At
    <2>. QED BY <1>4, <2>2, ReadHpBody, ReadCounterBody, ReadVersionsBody, ReadCellsBody, AfterBody,
                AnswerBody DEF Lookup
  <1>. QED BY <1>2, <1>3, <1>4 DEF BodyFits, Plain, InBody

-----------------------------------------------------------------------------
(***************************************************************************)
(* The calls on the whole table, and the starts of calls.                  *)
(***************************************************************************)
LEMMA StartBody ==
  ASSUME NEW t \in Thread, MapInv, NEW c \in BodyCall \cup IterCall, Start(t, c), UnlockedBody(c),
         InBody(t)' => /\ c.op \in Unlocked /\ UnlockedBody(Head(outer'[t]).call)
                       /\ Head(outer'[t]).loc.old = None
  PROVE  BodyFits(t)'
  <1>. PICK l : l = [NoLocals EXCEPT !.then = IF c.op = "get_key_value" THEN "find" ELSE c.op]
    OBVIOUS
  <1>. PICK p : p = EntryLabel(c.op)
    OBVIOUS
  <1>1. pc'[t] = p /\ loc'[t] = l /\ call'[t] = c
    BY Knows DEF Start, Local, Jump, Goto, Domains
  <1>2. l.old = None /\ l.cur = 0 /\ l.hit = None /\ l.same = TRUE
    BY DEF NoLocals
  <1>3. /\ p \in {"read_hp", "snapshot_hp", "insert_hp", "clear_lock", "iter_lock", "len",
                  "set_maximum", "set_minimum"}
        /\ p = "snapshot_hp" => c.op \in {"get_key_value", "remove"}
    BY EntryFits
  <1>4. BodyCalls(t)'
    BY <1>1 DEF BodyCalls, UnlockedBody, InBody
  <1>5. OldFits(t)'
    BY <1>1, <1>2 DEF OldFits
  <1>6. ASSUME InBody(t)' PROVE Undisturbed(t)'
    <2>1. p # "snapshot_hp"
      BY <1>3, <1>6 DEF Unlocked
    <2>. QED BY <1>1, <1>2, <1>3, <2>1
           DEF Undisturbed, Optimistic, Validating, Compared, Snapshots
  <1>. QED BY <1>4, <1>5, <1>6 DEF BodyFits

LEMMA ClearBody ==
  ASSUME NEW t \in Thread, IInv, MapInv, BodyFits(t), clear(t)
  PROVE  BodyFits(t)'
  <1>1. pc[t] = "clear" /\ guard[t].phase \in {"none", "held"} /\ UNCHANGED <<call, outer>>
    BY DEF clear, At, threadVars, callVars
  <1>2. ~InBody(t)
    BY <1>1, NotBody DEF InBodyLabels, Optimistic, Validating
  <1>3. guard[t].phase = "held" /\ guard' = guard
    <2>1. pc[t] \in Inside
      BY <1>1 DEF Inside, InWhole
    <2>. QED BY <1>1, <2>1, GuardHeld DEF clear, Jump, lockVars
  <1>4. \/ Local(t, [loc[t] EXCEPT !.cur = 0, !.old = None])
        \/ Goto(t, "clear")
    BY DEF clear, Jump
  <1>5. loc'[t].old # None => pc'[t] = "clear"
    <2>1. [loc[t] EXCEPT !.cur = 0, !.old = None].old = None
      BY OldOf
    <2>. QED BY <1>4, <2>1, Knows DEF Local, Goto, Domains
  <1>. QED BY <1>1, <1>2, <1>3, <1>5 DEF BodyFits, BodyCalls, OldFits, InBody

LEMMA IterBodyBody ==
  ASSUME NEW t \in Thread, IInv, MapInv, BodyFits(t), iter_body(t)
  PROVE  BodyFits(t)'
  <1>. PICK l : l = [loc[t] EXCEPT !.same = FALSE]
    OBVIOUS
  <1>. PICK o : o = [call |-> call[t], ret |-> ret[t], loc |-> l]
    OBVIOUS
  <1>1. pc[t] = "iter" /\ guard[t].phase \in {"none", "held"} /\ outer' = [outer EXCEPT ![t] = <<o>>]
    BY DEF iter_body, At
  <1>2. PICK c \in call[t].value : Start(t, c)
    BY DEF iter_body
  <1>3. c \in BodyCall /\ call[t].op = "iter" /\ Domains /\ UnlockedBody(call[t])
    BY <1>1, <1>2, IterKnows DEF BodyFits, BodyCalls
  <1>4. c.op \in Unlocked /\ UnlockedBody(c)
    BY <1>2, <1>3 DEF UnlockedBody, Unlocked
  <1>5. l.old = None
    <2>1. loc[t].old = None
      BY <1>1 DEF BodyFits, OldFits, RehashLabels
    <2>. QED BY <2>1, OldOf
  <1>6. o.call = call[t] /\ o.loc = l
    OBVIOUS
  <1>7. outer'[t] = <<o>>
    BY <1>1, <1>3, Zenon DEF Domains
  <1>8. Head(outer'[t]) = o
    <2>1. Head(<<o>>) = o
      OBVIOUS
    <2>. QED BY <1>7, <2>1
  <1>. QED BY <1>2, <1>3, <1>4, <1>5, <1>6, <1>8, StartBody

LEMMA BodyReturnBody ==
  ASSUME NEW t \in Thread, IInv, MapInv, BodyFits(t), body_return(t)
  PROVE  BodyFits(t)'
  <1>. PICK o : o = Head(outer[t])
    OBVIOUS
  <1>1. /\ InBody(t) /\ call' = [call EXCEPT ![t] = o.call] /\ Local(t, o.loc)
        /\ outer' = [outer EXCEPT ![t] = <<>>]
    BY DEF body_return
  <1>2. call'[t] = o.call /\ loc'[t] = o.loc /\ outer'[t] = <<>>
    BY <1>1, Knows DEF Domains, Local
  <1>3. UnlockedBody(o.call) /\ o.loc.old = None
    BY <1>1 DEF BodyFits, BodyCalls, OldFits
  <1>. QED BY <1>2, <1>3 DEF BodyFits, BodyCalls, OldFits, UnlockedBody, InBody

\* len, is_empty and the settings: their answers say nothing of a key.
LEMMA SizeBody ==
  ASSUME NEW t \in Thread, IInv, MapInv, BodyFits(t), len(t) \/ set_maximum(t) \/ set_minimum(t)
  PROVE  BodyFits(t)'
  <1>1. pc[t] \in {"len", "set_maximum", "set_minimum"}
    BY DEF len, set_maximum, set_minimum, At
  <1>2. ThreadFits(t) /\ Domains
    BY Knows
  <1>3. loc'[t].old = loc[t].old
    BY <1>2, OldOf DEF len, set_maximum, set_minimum, Local
  <1>4. CASE InBody(t) /\ Unwind(t)
    <2>. PICK o : o = Head(outer[t])
      OBVIOUS
    <2>1. call'[t] = o.call /\ outer'[t] = <<>>
      BY <1>2, <1>4 DEF Unwind, Domains
    <2>2. UnlockedBody(o.call) /\ loc[t].old = None
      BY <1>1, <1>4 DEF BodyFits, BodyCalls, OldFits, RehashLabels
    <2>. QED BY <1>3, <2>1, <2>2 DEF BodyFits, BodyCalls, OldFits, UnlockedBody, InBody
  <1>5. CASE UNCHANGED <<call, outer>> /\ \E p \in {"len", "return", "panicked"} : Jump(t, p)
    <2>1. BodyCalls(t)' /\ OldFits(t)'
      BY <1>1, <1>3, <1>5, PlainFits DEF Plain, RehashLabels
    <2>2. PICK p \in {"len", "return", "panicked"} : pc'[t] = p
      BY <1>2, <1>5 DEF Jump, Goto, Domains
    <2>3. ASSUME InBody(t)' PROVE Undisturbed(t)'
      <3>1. call[t] \in BodyCall /\ InBody(t)
        BY <1>2, <1>5, <2>3 DEF ThreadFits, OuterFits, InBody
      <3>2. call[t].op \in {"len", "is_empty", "set_maximum_hashpower", "set_minimum_load_factor"}
        BY <1>1, <1>2 DEF ThreadFits, CallFits, LabelFits
      <3>3. call[t].key = None
        BY <3>1, <3>2 DEF BodyCall
      <3>4. call'[t].key \notin Key
        BY <1>5, <3>3, NoneAssumption
      <3>. QED BY <2>2, <3>4 DEF Undisturbed, Optimistic, Validating, Compared, Snapshots
    <2>. QED BY <2>1, <2>3 DEF BodyFits
  <1>6. \/ InBody(t) /\ Unwind(t)
        \/ UNCHANGED <<call, outer>> /\ \E p \in {"len", "return", "panicked"} : Jump(t, p)
    <2>1. CASE len(t)
      BY <2>1 DEF len, Answer, threadVars, callVars
    <2>2. CASE set_maximum(t)
      BY <2>2 DEF set_maximum, threadVars, callVars
    <2>3. CASE set_minimum(t)
      BY <2>3 DEF set_minimum, Unwind, threadVars, callVars
    <2>. QED BY <2>1, <2>2, <2>3
  <1>. QED BY <1>4, <1>5, <1>6

LEMMA WholeTableBody ==
  ASSUME NEW t \in Thread, IInv, MapInv, BodyFits(t), WholeTable(t)
  PROVE  BodyFits(t)'
  <1>1. CASE clear_lock(t) \/ clear_count(t) \/ iter_lock(t) \/ iter(t) \/ iter_drop(t)
    <2>1. pc[t] \in {"clear_lock", "clear_count", "iter_lock", "iter"}
      BY <1>1 DEF clear_lock, clear_count, iter_lock, iter, iter_drop, At
    <2>2. Plain(t)
      BY <1>1, OldOf DEF Plain, clear_lock, clear_count, iter_lock, iter, iter_drop, Answer, Local,
                         threadVars, callVars
    <2>. QED BY <2>1, <2>2, PlainOutside DEF RehashLabels, InBodyLabels, Optimistic, Validating
  <1>. QED BY <1>1, ClearBody, IterBodyBody, BodyReturnBody, SizeBody DEF WholeTable

-----------------------------------------------------------------------------
(***************************************************************************)
(* Every step keeps BodyInv, and it holds at the start.                    *)
(***************************************************************************)
LEMMA InvokeBody ==
  ASSUME UnlockedBodies, NEW t \in Thread, IInv, MapInv, BodyFits(t), Invoke(t)
  PROVE  BodyFits(t)'
  <1>1. pc[t] = "idle" /\ UNCHANGED outer
    BY DEF Invoke, At
  <1>2. ~InBody(t)'
    BY <1>1, NotBody DEF InBodyLabels, Optimistic, Validating, InBody
  <1>3. PICK c \in Calls(t)[calls[t] + 1] : Start(t, c)
    BY DEF Invoke
  <1>4. ThreadFits(t) /\ Domains /\ calls[t] \in Nat /\ calls[t] < Len(Calls(t))
    BY Knows DEF ThreadFits, TypeFits, Invoke
  <1>5. Calls(t) \in Seq(SUBSET (BodyCall \cup IterCall))
    BY <1>4, ScriptAssumption DEF Calls, Domains
  <1>6. calls[t] + 1 \in DOMAIN Calls(t)
    BY <1>4, <1>5
  <1>7. c \in BodyCall \cup IterCall
    BY <1>3, <1>5, <1>6
  <1>8. UnlockedBody(c)
    BY <1>3, <1>4, <1>6 DEF UnlockedBodies, Calls, Domains
  <1>. QED BY <1>2, <1>3, <1>7, <1>8, StartBody

LEMMA OwnBody ==
  ASSUME UnlockedBodies, NEW t \in Thread, IInv, MapInv, BodyFits(t), Invoke(t) \/ Continue(t)
  PROVE  BodyFits(t)'
  <1>1. CASE Return(t)
    <2>1. /\ ~InBody(t) /\ UNCHANGED outer /\ call'[t] = NoCall /\ loc'[t] = NoLocals
      BY <1>1, Knows DEF Return, Local, Domains
    <2>2. UnlockedBody(NoCall)
      BY DEF UnlockedBody, NoCall
    <2>. QED BY <2>1, <2>2, OldOf DEF BodyFits, BodyCalls, OldFits, UnlockedBody, InBody
  <1>2. CASE GuardStep(t) /\ UNCHANGED <<tableVars, threadVars, pc, loc>>
    <2>1. guard[t].phase # "held"
      BY <1>2 DEF GuardStep, AcquireNext, BumpNext, UnbumpNext, ReleaseNext
    <2>2. ~InBody(t)
      BY <2>1, Knows DEF ThreadFits, GuardFits
    <2>3. UNCHANGED <<call, outer, pc, loc>>
      BY <1>2 DEF threadVars, callVars
    <2>4. loc[t].old # None => pc[t] \in RehashLabels
      BY <2>1 DEF BodyFits, OldFits
    <2>. QED BY <2>2, <2>3, <2>4 DEF BodyFits, BodyCalls, OldFits, InBody
  <1>. QED BY <1>1, <1>2, InvokeBody, LookupBody, SnapshotsBody, UpdateBody, RunCuckooBody,
              ResizeBody, WholeTableBody DEF Continue

LEMMA StepBodyInv ==
  ASSUME UnlockedBodies, IInv, IInv', MapInv, BodyInv, [Next]_vars
  PROVE  BodyInv'
  <1>1. ASSUME NEW t \in Thread, Invoke(t) \/ Continue(t)
        PROVE  BodyInv'
    <2>1. Good(t)
      BY <1>1, ThreadGood
    <2>2. BodyFits(t)'
      BY <1>1, OwnBody DEF BodyInv
    <2>3. \A u \in Thread : u # t => BodyFits(u)'
      BY <2>1, OthersBody DEF BodyInv
    <2>. QED BY <2>2, <2>3 DEF BodyInv
  <1>2. CASE UNCHANGED vars
    <2>1. UNCHANGED <<buckets, hashpower, resize_counter, version, guard, pc, call, loc, outer, ret>>
      BY <1>2 DEF vars, lockVars, tableVars, threadVars, callVars
    <2>2. ASSUME NEW t \in Thread PROVE BodyFits(t)'
      <3>1. BodyCalls(t)' /\ OldFits(t)'
        BY <2>1 DEF BodyInv, BodyFits, BodyCalls, OldFits, InBody
      <3>2. InBody(t)' => Undisturbed(t)'
        BY <2>1 DEF BodyInv, BodyFits, Undisturbed, Says, Holds, Homes, CellRead, InBody
      <3>. QED BY <3>1, <3>2 DEF BodyFits
    <2>. QED BY <2>2 DEF BodyInv
  <1>. QED BY <1>1, <1>2 DEF Next, AllStopped

LEMMA InitBodyInv ==
  ASSUME Init
  PROVE  BodyInv
  <1>1. ASSUME NEW t \in Thread PROVE BodyFits(t)
    <2>1. call[t] = NoCall /\ loc[t] = NoLocals /\ outer[t] = <<>>
      BY DEF Init
    <2>2. UnlockedBody(NoCall) /\ NoLocals.old = None
      BY DEF UnlockedBody, NoCall, NoLocals
    <2>. QED BY <2>1, <2>2 DEF BodyFits, BodyCalls, OldFits, InBody
  <1>. QED BY <1>1 DEF BodyInv

-----------------------------------------------------------------------------
(***************************************************************************)
(* What follows for the answers.                                           *)
(***************************************************************************)
\* Who replaces or clears the container has all stripes.
LEMMA ReplacerHolds ==
  ASSUME IInv, MapInv, NEW u \in Replacing
  PROVE  /\ u \in Thread /\ pc[u] \in RehashLabels \cup {"clear"} /\ ~InBody(u)
         /\ guard[u].phase = "held" /\ guard[u].want = Lock
         /\ \A l \in Lock : Writing(u, l)
  <1>1. u \in Thread /\ ThreadFits(u) /\ pc[u] \in RehashLabels \cup {"clear"}
    BY Knows DEF Replacing, RehashLabels
  <1>2. pc[u] \in Inside
    BY <1>1 DEF Inside, InWhole
  <1>3. pc[u] \notin InBodies
    BY <1>1 DEF RehashLabels, InBodies, Optimistic, Snapshots, Validating
  <1>4. guard[u].phase = "held"
    <2>1. CASE pc[u] \in RehashLabels
      BY <1>1, <1>2, <1>3, <2>1 DEF ThreadFits, GuardFits, Late
    <2>2. CASE pc[u] = "clear"
      BY <1>1, <2>2 DEF Replacing, ThreadFits, HoldFits
    <2>. QED BY <1>1, <2>1, <2>2
  <1>5. KindAt(u) \in Write /\ WantAt(u) = Lock
    BY <1>1 DEF KindAt, WantAt, InPair, InHop, SnapshotLabels, RehashLabels, Write
  <1>. QED BY <1>1, <1>2, <1>4, <1>5, GuardHeld

\* No thread has an old container or an item in its hand while another one
\* iterates: the table is all there is.
LEMMA AllInTable ==
  ASSUME NEW t \in Thread, IInv, MapInv, HomeInv, BodyInv, InBody(t)
  PROVE  Items = ItemsOf(buckets)
  <1>1. ASSUME NEW u \in Thread, NEW l, l \in guard[u].got, l \in Lock PROVE u = t
    BY <1>1, BodyGuard
  <1>2. ASSUME NEW u \in Replacing PROVE FALSE
    <2>1. u \in Thread /\ ~InBody(u) /\ guard[u].phase = "held" /\ guard[u].want = Lock
      BY ReplacerHolds
    <2>2. 0 \in Lock
      BY NumLocksAssumption DEF Lock
    <2>3. u = t
      BY <1>1, <2>1, <2>2, HeldGuard
    <2>. QED BY <2>1, <2>3
  <1>3. ASSUME NEW u \in Thread PROVE loc[u].walk.carry = None
    <2> SUFFICES ASSUME loc[u].walk.carry # None PROVE FALSE
      OBVIOUS
    <2>1. pc[u] = "move_set" /\ ThreadHome(u)
      BY Knows DEF ThreadFits, WalkFits, HomeInv
    <2>. PICK w : w = loc[u].walk
      OBVIOUS
    <2>2. guard[u].phase = "held" /\ \A b \in Homes(w.carry.key) : Writing(u, lock_ind(b))
      BY <2>1, CarryHolds
    <2>3. PICK l : Writing(u, l)
      BY <2>2 DEF Homes
    <2>4. l \in guard[u].got /\ l \in Lock
      BY <2>2, <2>3, HeldGuard DEF Writing
    <2>5. u = t
      BY <1>1, <2>4
    <2>6. ~InBody(u)
      BY <2>1, NotBody DEF BodyInv, InBodyLabels, Optimistic, Validating
    <2>. QED BY <2>5, <2>6
  <1>4. Carried = {} /\ OldItems = {}
    BY <1>2, <1>3 DEF Carried, OldItems
  <1>. QED BY <1>4 DEF Items

\* In a table where every item is at home and every key once, what is said of
\* a key is what the map contains.
LEMMA SaidIsContents ==
  ASSUME MapInv, HomeInv, Items = ItemsOf(buckets), NEW k \in Key, NEW x, Says(k, x)
  PROVE  Contents[k] = x
  <1>1. hashpower \in Nat /\ buckets \in TabType(hashpower) /\ Legal(hashpower, buckets)
    BY DEF MapInv, TableTypes, HomeInv
  <1>2. Homes(k) \subseteq Index(hashpower)
    BY <1>1, BucketType DEF Homes
  <1>3. CASE \E b \in Homes(k), s \in Slot : Holds(b, s, k, x)
    <2>1. PICK b \in Homes(k), s \in Slot : Holds(b, s, k, x)
      BY <1>3
    <2>. PICK i : i = buckets[b][s]
      OBVIOUS
    <2>2. i \in Items /\ i.key = k /\ i.value = x
      BY <1>1, <1>2, <2>1, ItemsOfCells DEF Holds
    <2>3. ASSUME NEW j \in Items, j.key = k PROVE j = i
      <3>1. PICK c \in Index(hashpower), r \in Slot : j = buckets[c][r] /\ j # None
        BY <1>1, <2>3, ItemsOfCells
      <3>2. c = b /\ r = s
        BY <1>1, <1>2, <2>1, <2>2, <2>3, <3>1, LegalCells DEF Holds
      <3>. QED BY <3>1, <3>2
    <2>4. (CHOOSE j \in Items : j.key = k) = i
      BY <2>2, <2>3
    <2>. QED BY <2>2, <2>4 DEF Contents
  <1>4. CASE x = None /\ \A b \in Homes(k), s \in Slot : buckets[b][s] # None => buckets[b][s].key # k
    <2>1. ASSUME NEW j \in Items, j.key = k PROVE FALSE
      <3>1. PICK c \in Index(hashpower), r \in Slot : j = buckets[c][r] /\ j # None
        BY <1>1, <2>1, ItemsOfCells
      <3>2. c \in HomesOf(hashpower, k)
        BY <1>1, <2>1, <3>1, LegalCells
      <3>. QED BY <1>4, <2>1, <3>1, <3>2 DEF HomesOf, Homes
    <2>. QED BY <1>4, <2>1 DEF Contents
  <1>. QED BY <1>3, <1>4 DEF Says

LEMMA BodyMeans ==
  ASSUME IInv, MapInv, HomeInv, BodyInv
  PROVE  BodyLookupsNeedNoLock
  <1>1. ASSUME NEW t \in Thread, InBody(t)
        PROVE  /\ pc[t] # "snapshot_hp"
               /\ pc[t] = "return" /\ call[t].key \in Key =>
                    ret[t] = Hit(call[t], Contents[call[t].key])
    <2>1. Undisturbed(t)
      BY <1>1 DEF BodyInv, BodyFits
    <2>2. ASSUME pc[t] = "return", call[t].key \in Key
          PROVE  ret[t] = Hit(call[t], Contents[call[t].key])
      <3>1. PICK x : Says(call[t].key, x) /\ ret[t] = Hit(call[t], x)
        BY <2>1, <2>2 DEF Undisturbed
      <3>2. Contents[call[t].key] = x
        BY <1>1, <2>2, <3>1, AllInTable, SaidIsContents
      <3>. QED BY <3>1, <3>2
    <2>. QED BY <2>1, <2>2 DEF Undisturbed, Snapshots
  <1>. QED BY <1>1 DEF BodyLookupsNeedNoLock

\* If the bodies make no call that asks for a lock by itself, a lookup from the
\* body of an iteration is never turned back to the locks, and never waits for
\* the stripes that its own thread has, whatever the other threads do.
THEOREM BodiesUndisturbed ==
  ASSUME UnlockedBodies
  PROVE  Spec => []BodyInv
  <1>1. Init => BodyInv
    BY InitBodyInv
  <1>2. (IInv /\ MapInv) /\ (IInv /\ MapInv)' /\ BodyInv /\ [Next]_vars => BodyInv'
    BY StepBodyInv
  <1>. QED BY <1>1, <1>2, MapInvHolds, PTL DEF Spec

\* As long as no insert has used indices of an earlier size, it is answered
\* with what the map contains.
THEOREM BodyLookupsAnswered ==
  ASSUME UnlockedBodies
  PROVE  Spec /\ []NoStaleIndices => []BodyLookupsNeedNoLock
  <1>1. Init => HomeInv
    BY InitHome
  <1>2. (IInv /\ MapInv) /\ HomeInv /\ NoStaleIndices /\ [Next]_vars => HomeInv'
    BY StepKeepsHome
  <1>3. (IInv /\ MapInv) /\ HomeInv /\ BodyInv => BodyLookupsNeedNoLock
    BY BodyMeans
  <1>4. Spec => []BodyInv
    BY BodiesUndisturbed
  <1>. QED BY <1>1, <1>2, <1>3, <1>4, MapInvHolds, PTL DEF Spec
=============================================================================

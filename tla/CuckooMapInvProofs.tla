-------------------------- MODULE CuckooMapInvProofs --------------------------
(***************************************************************************)
(* MapInv is an invariant of the map, for any threads, keys, hashes, table *)
(* sizes and scripts.                                                      *)
(*                                                                         *)
(* First the locks: every step of the map leaves the lock words and guards *)
(* alone or is one step of a guard's life (LockStep), so the inductive     *)
(* invariant of StripedLocks is one of the map.  Then the rest: a step of  *)
(* thread t changes the locals of t alone and the table only where t       *)
(* writes under its stripes (Good); so what the other threads rely on      *)
(* still holds (OthersFit), and it is left to show, action by action, that *)
(* t fits the label it moves to.                                           *)
(***************************************************************************)
EXTENDS CuckooMapInv, StripedLocksProofs, CuckooTableProofs, FiniteSetTheorems

LockStep(t) ==
  \/ \E k \in Kind, S \in SUBSET Lock : new(t, k, S)
  \/ GuardStep(t)
  \/ drop(t)
  \/ UNCHANGED lockVars

LEMMA LockStepIInv ==
  ASSUME NEW t \in Thread, IInv, LockStep(t)
  PROVE  IInv'
  <1>1. CASE \E k \in Kind, S \in SUBSET Lock : new(t, k, S)
    BY <1>1, NewIInv
  <1>2. CASE GuardStep(t)
    BY <1>2, AcquireIInv, BumpIInv, UnbumpIInv, ReleaseIInv DEF GuardStep
  <1>3. CASE drop(t)
    BY <1>3, DropIInv
  <1>4. CASE UNCHANGED lockVars
    BY <1>4 DEF IInv, LocksTypeOK, AllGuardsOK, Disjoint, LockedByHolder,
                AscendingWait, OddWhileWriting, lockVars
  <1>. QED
    BY <1>1, <1>2, <1>3, <1>4 DEF LockStep

-----------------------------------------------------------------------------
(***************************************************************************)
(* Every action is a LockStep.                                             *)
(***************************************************************************)
LEMMA EnterIsLockStep ==
  ASSUME NEW t \in Thread, NEW k \in Kind, NEW S \in SUBSET Lock, NEW label,
         Enter(t, k, S, label)
  PROVE  LockStep(t)
  BY DEF Enter, LockStep

LEMMA LeaveIsLockStep ==
  ASSUME NEW t \in Thread, NEW label, Leave(t, label)
  PROVE  LockStep(t)
  BY DEF Leave, LockStep

LEMMA JumpIsLockStep ==
  ASSUME NEW t \in Thread, NEW label, Jump(t, label)
  PROVE  LockStep(t)
  BY DEF Jump, LockStep

LEMMA StripesAndKinds ==
  /\ \A b1, b2 : TwoStripes(b1, b2) \in SUBSET Lock
  /\ Lock \in SUBSET Lock
  /\ \A op : GuardKind(op) \in Kind
  /\ {"TwoBucketWriteGuard", "AllLocksGuard", "AllLocksWriteGuard"} \subseteq Kind
  BY DEF TwoStripes, GuardKind, Kind, Read, Write

LEMMA LookupLockStep ==
  ASSUME NEW t \in Thread, Lookup(t) \/ Snapshot(t)
  PROVE  LockStep(t)
  <1>. USE JumpIsLockStep, LeaveIsLockStep, EnterIsLockStep, StripesAndKinds
  <1>1. CASE read_hp(t) \/ snapshot_hp(t)
    BY <1>1 DEF read_hp, snapshot_hp, ReadHashpower
  <1>2. CASE read_counter(t)
    BY <1>2 DEF read_counter
  <1>3. CASE read_v1(t) \/ read_v2(t)
    BY <1>3, Zenon DEF read_v1, read_v2, StartReading, Retry
  <1>4. CASE read_cells(t)
    BY <1>4, Zenon DEF read_cells
  <1>5. CASE after_v1(t) \/ after_v2(t) \/ after_counter(t)
    BY <1>5 DEF after_v1, after_v2, after_counter, Retry
  <1>6. CASE find(t) \/ snapshot_retry(t)
    BY <1>6 DEF find, snapshot_retry
  <1>7. CASE snapshot_counter(t)
    BY <1>7 DEF snapshot_counter
  <1>. QED
    BY <1>1, <1>2, <1>3, <1>4, <1>5, <1>6, <1>7 DEF Lookup, Snapshot

LEMMA UpdateLockStep ==
  ASSUME NEW t \in Thread, Update(t)
  PROVE  LockStep(t)
  <1>. USE JumpIsLockStep, LeaveIsLockStep, EnterIsLockStep, StripesAndKinds
  <1>1. CASE insert_hp(t) \/ cuckoo_hp(t) \/ recheck_hp(t)
    BY <1>1 DEF insert_hp, cuckoo_hp, recheck_hp
  <1>2. CASE insert(t)
    BY <1>2 DEF insert, Put
  <1>3. CASE insert_count(t) \/ remove_count(t)
    BY <1>3 DEF insert_count, remove_count
  <1>4. CASE remove(t)
    BY <1>4 DEF remove
  <1>5. CASE recheck(t)
    BY <1>5 DEF recheck, Put
  <1>. QED
    BY <1>1, <1>2, <1>3, <1>4, <1>5 DEF Update

LEMMA RunCuckooLockStep ==
  ASSUME NEW t \in Thread, RunCuckoo(t)
  PROVE  LockStep(t)
  <1>. USE JumpIsLockStep, LeaveIsLockStep, EnterIsLockStep, StripesAndKinds
  <1>1. CASE run_hp(t) \/ run_counter(t)
    BY <1>1 DEF run_hp, run_counter
  <1>2. CASE search_counter(t) \/ path_counter(t)
    BY <1>2, Zenon DEF search_counter, path_counter, GiveUp
  <1>3. CASE search_slot(t) \/ search_partial(t)
    <2>1. \E p : Jump(t, p)
      BY <1>3, Zenon DEF search_slot, search_partial, ScanOn, GiveUp
    <2>. QED BY <2>1
  <1>4. CASE path_version(t) \/ path_occupied(t)
    BY <1>4, Zenon DEF path_version, path_occupied
  <1>5. CASE path_key(t)
    BY <1>5, Zenon DEF path_key
  <1>6. CASE claim_version(t) \/ from_version(t)
    BY <1>6, Zenon DEF claim_version, from_version
  <1>7. CASE to_version(t)
    BY <1>7, Zenon DEF to_version
  <1>8. CASE claim(t)
    <2>1. \E p : Leave(t, p)
      BY <1>8, Zenon DEF claim
    <2>. QED BY <2>1
  <1>9. CASE move(t)
    <2>1. \E p : Jump(t, p) \/ Leave(t, p)
      BY <1>9, Zenon DEF move
    <2>. QED BY <2>1
  <1>10. CASE move_set(t)
    BY <1>10 DEF move_set
  <1>. QED
    BY <1>1, <1>2, <1>3, <1>4, <1>5, <1>6, <1>7, <1>8, <1>9, <1>10 DEF RunCuckoo

LEMMA ResizeLockStep ==
  ASSUME NEW t \in Thread, Resize(t)
  PROVE  LockStep(t)
  <1>. USE JumpIsLockStep, LeaveIsLockStep, EnterIsLockStep, StripesAndKinds
  <1>1. CASE double(t)
    BY <1>1 DEF double
  <1>2. CASE resize(t)
    BY <1>2 DEF resize, Refuse
  <1>3. CASE resize_load(t)
    BY <1>3 DEF resize_load, Refuse
  <1>4. CASE rehash_one(t)
    BY <1>4 DEF rehash_one
  <1>5. CASE rehash_two(t)
    BY <1>5 DEF rehash_two
  <1>6. CASE resize_count(t)
    BY <1>6 DEF resize_count
  <1>. QED
    BY <1>1, <1>2, <1>3, <1>4, <1>5, <1>6 DEF Resize

LEMMA WholeTableLockStep ==
  ASSUME NEW t \in Thread, WholeTable(t)
  PROVE  LockStep(t)
  <1>. USE JumpIsLockStep, LeaveIsLockStep, EnterIsLockStep, StripesAndKinds
  <1>1. CASE clear_lock(t) \/ iter_lock(t)
    BY <1>1 DEF clear_lock, iter_lock
  <1>2. CASE clear(t) \/ clear_count(t)
    BY <1>2 DEF clear, clear_count
  <1>3. CASE iter(t) \/ iter_drop(t)
    BY <1>3 DEF iter, iter_drop
  <1>4. CASE iter_body(t)
    BY <1>4 DEF iter_body, Start
  <1>5. CASE body_return(t)
    BY <1>5 DEF body_return
  <1>6. CASE len(t)
    BY <1>6 DEF len
  <1>7. CASE set_maximum(t) \/ set_minimum(t)
    BY <1>7 DEF set_maximum, set_minimum, Unwind
  <1>. QED
    BY <1>1, <1>2, <1>3, <1>4, <1>5, <1>6, <1>7 DEF WholeTable

LEMMA ThreadLockStep ==
  ASSUME NEW t \in Thread, Invoke(t) \/ Continue(t)
  PROVE  LockStep(t)
  <1>1. CASE Invoke(t)
    BY <1>1, JumpIsLockStep DEF Invoke, Start
  <1>2. CASE Return(t)
    BY <1>2, JumpIsLockStep DEF Return
  <1>3. CASE GuardStep(t)
    BY <1>3 DEF LockStep
  <1>. QED
    BY <1>1, <1>2, <1>3, LookupLockStep, UpdateLockStep, RunCuckooLockStep,
       ResizeLockStep, WholeTableLockStep DEF Continue

-----------------------------------------------------------------------------
LEMMA MapStepIInv == IInv /\ [Next]_vars => IInv'
  <1> SUFFICES ASSUME IInv, [Next]_vars PROVE IInv'
    OBVIOUS
  <1>1. CASE \E t \in Thread : Invoke(t) \/ Continue(t)
    BY <1>1, ThreadLockStep, LockStepIInv
  <1>2. CASE UNCHANGED vars
    BY <1>2 DEF vars, IInv, LocksTypeOK, AllGuardsOK, Disjoint, LockedByHolder,
                AscendingWait, OddWhileWriting, lockVars
  <1>. QED
    BY <1>1, <1>2 DEF Next, AllStopped

LEMMA MapInvariance == Spec => []IInv
  <1>1. Init => IInv
    BY InitIInv DEF Init
  <1>. QED
    BY <1>1, MapStepIInv, PTL DEF Spec

\* Whatever the calls and however they interleave, no two threads of the map
\* ever have the same stripe, and a stripe's version is odd exactly while one
\* of them writes under it: what the optimistic lookups rely on.
THEOREM MapExclusion == Spec => [](StripeExclusion /\ VersionParity)
  <1>1. IInv => StripeExclusion /\ VersionParity
    BY DEF IInv, Disjoint, LockedByHolder, StripeExclusion, OddWhileWriting,
           AllGuardsOK, GuardOK, VersionParity
  <1>. QED
    BY <1>1, MapInvariance, PTL

\* The guards of lookups, updates, displacement hops, resizes, clear and iter
\* never wait on each other in a circle.
THEOREM MapDeadlockFreedom == Spec => []NoDeadlock
  <1>. QED
    BY IInvNoDeadlock, MapInvariance, PTL

(***************************************************************************)
(* The version of a stripe changes by increments of the thread that has    *)
(* the stripe locked, so an even version read twice, unchanged, means that *)
(* no write guard was in between.                                          *)
(***************************************************************************)
LEMMA MapStepVersions ==
  ASSUME IInv, [Next]_vars, NEW l \in Lock, version'[l] # version[l]
  PROVE  /\ version'[l] = version[l] + 1
         /\ \E u \in Thread : l \in guard[u].got /\ l \in guard'[u].got
  <1>1. CASE \E t \in Thread : Invoke(t) \/ Continue(t)
    <2>1. PICK t \in Thread : LockStep(t)
      BY <1>1, ThreadLockStep
    <2>2. GuardStep(t)
      BY <2>1, Zenon DEF LockStep, new, drop, lockVars
    <2>. QED BY <2>2, StepVersions DEF LocksNext
  <1>2. CASE UNCHANGED vars
    BY <1>2 DEF vars, lockVars
  <1>. QED BY <1>1, <1>2 DEF Next, AllStopped

\* In every behaviour of the map a version moves by one, and only while its
\* stripe is locked: what an optimistic lookup compares.
THEOREM MapVersions == Spec => VersionMovesUnderLock
  <1>. DEFINE A == \A l \in Lock : version'[l] # version[l] =>
                     /\ version'[l] = version[l] + 1
                     /\ \E t \in Thread : l \in guard[t].got /\ l \in guard'[t].got
  <1>1. IInv /\ [Next]_vars => [A]_lockVars
    BY MapStepVersions
  <1>. QED
    BY <1>1, MapInvariance, PTL DEF Spec, VersionMovesUnderLock

-----------------------------------------------------------------------------
(***************************************************************************)
(* What every step of a thread does.                                       *)
(***************************************************************************)
OthersKeep(f, g, t) == DOMAIN g = DOMAIN f /\ \A u \in Thread \ {t} : g[u] = f[u]

Only(t) ==
  /\ OthersKeep(pc, pc', t) /\ OthersKeep(call, call', t) /\ OthersKeep(ret, ret', t)
  /\ OthersKeep(loc, loc', t) /\ OthersKeep(outer, outer', t)
  /\ OthersKeep(calls, calls', t) /\ OthersKeep(guard, guard', t)
  /\ scenario' = scenario

Frame(t) ==
  /\ hashpower <= hashpower'
  /\ (hashpower' # hashpower \/ resize_counter' # resize_counter)
       => \A l \in Lock : Writing(t, l)
  /\ hashpower' = hashpower
       => \A b \in Index(hashpower) : buckets'[b] # buckets[b] => Writing(t, lock_ind(b))
  /\ \A l \in Lock : elem_counter'[l] # elem_counter[l] => Writing(t, l)

Good(t) == Only(t) /\ Frame(t) /\ TableTypes' /\ ThreadFits(t)'

-----------------------------------------------------------------------------
(***************************************************************************)
(* Stripes.                                                                *)
(***************************************************************************)
LEMMA LockIndType ==
  ASSUME NEW b \in Nat
  PROVE  lock_ind(b) \in Lock
  BY NumLocksAssumption, StripeInRange DEF lock_ind, Lock

LEMMA TwoStripesOf ==
  ASSUME NEW b1 \in Nat, NEW b2 \in Nat
  PROVE  lock_ind(b1) \in TwoStripes(b1, b2) /\ lock_ind(b2) \in TwoStripes(b1, b2)
  BY LockIndType DEF TwoStripes

\* The stripes of a key's buckets are the same at all sizes.
LEMMA StripesOfKey ==
  ASSUME NEW m \in Nat, NEW n \in Nat, InitHashpower <= m, InitHashpower <= n, NEW k \in Key
  PROVE  /\ lock_ind(Bucket1(n, k)) = lock_ind(Bucket1(m, k))
         /\ lock_ind(Bucket2(n, k)) = lock_ind(Bucket2(m, k))
  <1>. DEFINE h == InitHashpower
  <1>1. h \in Nat /\ hashsize(h) % NumLocks = 0
    BY StripesAssumption
  <1>2. ASSUME NEW b \in Nat PROVE lock_ind(b % hashsize(h)) = lock_ind(b)
    BY <1>1, NumLocksAssumption, StripeOfLowBits DEF lock_ind
  <1>3. \A i \in {m, n} : Bucket1(i, k) \in Nat /\ Bucket2(i, k) \in Nat
    BY BucketType, IndexType
  <1>4. \A i \in {m, n} : /\ Bucket1(i, k) % hashsize(h) = Bucket1(h, k)
                          /\ Bucket2(i, k) % hashsize(h) = Bucket2(h, k)
    BY <1>1, BucketsLow
  <1>. QED BY <1>2, <1>3, <1>4

LEMMA AtHomeStripe ==
  ASSUME NEW m \in Nat, NEW n \in Nat, InitHashpower <= m, InitHashpower <= n,
         NEW k \in Key, NEW b, AtHome(k, b, n)
  PROVE  /\ b \in Nat
         /\ lock_ind(b) \in TwoStripes(Bucket1(m, k), Bucket2(m, k))
  <1>1. PICK i \in InitHashpower .. n : b = Bucket1(i, k) \/ b = Bucket2(i, k)
    BY DEF AtHome
  <1>2. i \in Nat /\ InitHashpower <= i
    BY <1>1, StripesAssumption
  <1>3. \A j \in {m, i} : Bucket1(j, k) \in Nat /\ Bucket2(j, k) \in Nat
    BY <1>2, BucketType, IndexType
  <1>4. /\ lock_ind(Bucket1(i, k)) = lock_ind(Bucket1(m, k))
        /\ lock_ind(Bucket2(i, k)) = lock_ind(Bucket2(m, k))
    BY <1>2, StripesOfKey
  <1>. QED BY <1>1, <1>3, <1>4, TwoStripesOf

LEMMA AtHomeGrows ==
  ASSUME NEW m \in Nat, NEW n \in Nat, m <= n, NEW k, NEW b, AtHome(k, b, m)
  PROVE  AtHome(k, b, n)
  BY StripesAssumption DEF AtHome

-----------------------------------------------------------------------------
(***************************************************************************)
(* What the guard of one thread keeps the others from.                     *)
(***************************************************************************)
LEMMA HeldGuard ==
  ASSUME IInv, NEW t \in Thread, guard[t].phase = "held"
  PROVE  /\ guard[t].got = guard[t].want
         /\ guard[t].kind \in Write => guard[t].odd = guard[t].want
         /\ guard[t].want \subseteq Lock
  BY DEF IInv, LocksTypeOK, GuardRecord, AllGuardsOK, GuardOK

LEMMA WritersApart ==
  ASSUME IInv, NEW t \in Thread, NEW u \in Thread, u # t, NEW l, Writing(t, l)
  PROVE  l \notin guard[u].got
  <1>1. l \in guard[t].got
    BY HeldGuard DEF Writing
  <1>. QED BY <1>1 DEF IInv, Disjoint

LEMMA SameSizeFor ==
  ASSUME IInv, NEW t \in Thread, NEW u \in Thread, u # t, Frame(t), NEW l \in Lock,
         guard[u].phase = "held", l \in guard[u].want
  PROVE  hashpower' = hashpower /\ resize_counter' = resize_counter
  BY HeldGuard, WritersApart DEF Frame

LEMMA SameTableFor ==
  ASSUME IInv, NEW t \in Thread, NEW u \in Thread, u # t, Frame(t), TableTypes, TableTypes',
         guard[u].phase = "held", guard[u].want = Lock
  PROVE  UNCHANGED <<buckets, hashpower>>
  <1>1. 0 \in Lock
    BY NumLocksAssumption DEF Lock
  <1>2. hashpower' = hashpower
    BY <1>1, SameSizeFor
  <1>3. \A l \in Lock : ~Writing(t, l)
    BY HeldGuard, WritersApart
  <1>4. hashpower \in Nat
    BY DEF TableTypes
  <1>5. \A b \in Index(hashpower) : lock_ind(b) \in Lock
    BY <1>4, IndexType, LockIndType
  <1>6. \A b \in Index(hashpower) : buckets'[b] = buckets[b]
    BY <1>2, <1>3, <1>5 DEF Frame
  <1>7. buckets \in TabType(hashpower) /\ buckets' \in TabType(hashpower)
    BY <1>2 DEF TableTypes
  <1>. QED BY <1>2, <1>6, <1>7 DEF TabType

LEMMA InsideNotInBody == Inside \cap InBodies = {}
  BY DEF Inside, InBodies, InPair, InHop, InWhole, SnapshotLabels, RehashLabels,
         Optimistic, Snapshots, Validating

LEMMA TimesMonotone ==
  ASSUME NEW m \in Nat, NEW n \in Nat, NEW k \in Nat, m <= n
  PROVE  m * k <= n * k
  <1>. DEFINE d == n - m
  <1>1. d \in Nat /\ n = m + d
    OBVIOUS
  <1>. HIDE DEF d
  <1>2. n * k = m * k + d * k /\ d * k >= 0 /\ m * k \in Nat /\ d * k \in Nat
    BY <1>1
  <1>. QED BY <1>2

-----------------------------------------------------------------------------
(***************************************************************************)
(* What a step of t leaves true of another thread.                         *)
(***************************************************************************)
LEMMA OthersFit ==
  ASSUME NEW t \in Thread, NEW u \in Thread, u # t, IInv, MapInv,
         Only(t), Frame(t), TableTypes'
  PROVE  ThreadFits(u)'
  <1>1. /\ pc'[u] = pc[u] /\ call'[u] = call[u] /\ ret'[u] = ret[u] /\ loc'[u] = loc[u]
        /\ outer'[u] = outer[u] /\ calls'[u] = calls[u] /\ guard'[u] = guard[u]
        /\ scenario' = scenario
    BY DEF Only, OthersKeep
  <1>2. ThreadFits(u) /\ TableTypes
    BY DEF MapInv
  <1>3. /\ hashpower \in Nat /\ hashpower' \in Nat /\ InitHashpower \in Nat
        /\ hashpower <= hashpower'
    BY <1>2, StripesAssumption DEF TableTypes, Frame
  <1>4. hashsize(hashpower) <= hashsize(hashpower') /\ Index(hashpower) \subseteq Index(hashpower')
    BY <1>3, IndexGrows
  <1>5. hashsize(hashpower) \in Nat /\ hashsize(hashpower') \in Nat
    BY <1>3, Hashsize
  <1>6. TypeFits(u)' /\ CallFits(u)'
    BY <1>1, <1>2 DEF ThreadFits, TypeFits, CallFits, Calls
  <1>7. GuardFits(u)'
    BY <1>1, <1>2 DEF ThreadFits, GuardFits, InBody, KindAt, WantAt
  <1>8. IndexFits(u)'
    BY <1>1, <1>2, <1>3, AtHomeGrows DEF ThreadFits, IndexFits, Spotted
  <1>9. WalkFits(u)'
    <2>1. PathFits(u) => PathFits(u)'
      <3>1. Linked(loc[u].walk) => Linked(loc[u].walk)'
        BY <1>1 DEF Linked
      <3>. QED BY <1>1, <1>4, <3>1 DEF PathFits
    <2>2. loc[u].walk.hp \in InitHashpower .. hashpower
            => loc[u].walk.hp \in InitHashpower .. hashpower'
      BY <1>3
    <2>. QED BY <1>1, <1>2, <1>4, <2>1, <2>2 DEF ThreadFits, WalkFits
  <1>10. ASSUME guard[u].phase = "held", guard[u].want = Lock
         PROVE  UNCHANGED <<buckets, hashpower>>
    BY <1>2, <1>10, SameTableFor
  <1>11. InBody(u) => guard[u].phase = "held" /\ guard[u].want = Lock
    BY <1>2 DEF ThreadFits, GuardFits
  <1>12. OuterFits(u)'
    BY <1>1, <1>2, <1>10, <1>11 DEF ThreadFits, OuterFits, InBody, Passed
  <1>13. pc[u] \in Inside => ~InBody(u)
    BY <1>2, InsideNotInBody DEF ThreadFits, GuardFits
  <1>14. HoldFits(u)'
    <2>1. pc[u] \in {"resize_load"} \cup RehashLabels => hashpower' = hashpower
      <3> SUFFICES ASSUME pc[u] \in {"resize_load"} \cup RehashLabels
                   PROVE  hashpower' = hashpower
        OBVIOUS
      <3>1. guard[u].phase = "held" /\ guard[u].want = Lock
        BY <1>2, <1>13 DEF ThreadFits, GuardFits, WantAt, Inside, InWhole, InPair, InHop,
                           Late, RehashLabels, SnapshotLabels
      <3>. QED BY <1>10, <3>1
    <2>2. pc[u] = "move_set" => hashpower' = hashpower
      <3> SUFFICES ASSUME pc[u] = "move_set" PROVE hashpower' = hashpower
        OBVIOUS
      <3>. DEFINE w == loc[u].walk
      <3>1. PathFits(u)
        BY <1>2 DEF ThreadFits, WalkFits, OnPath, Hopping
      <3>2. PICK d \in 0 .. MAX_BFS_PATH_LEN - 1 :
              w.path \in [0 .. d -> PathRecord] /\ w.at <= d
        BY <3>1 DEF PathFits
      <3>3. w.at \in Nat /\ w.at # 0
        BY <1>2 DEF ThreadFits, TypeFits, LocalsFit, WalkFits, Hopping
      <3>4. w.at - 1 \in 0 .. d /\ w.at \in 0 .. d
        BY <3>2, <3>3
      <3>5. w.path[w.at - 1].bucket \in Nat /\ w.path[w.at].bucket \in Nat
        BY <3>2, <3>4 DEF PathRecord
      <3>6. /\ guard[u].phase = "held"
            /\ guard[u].want = TwoStripes(w.path[w.at - 1].bucket, w.path[w.at].bucket)
        BY <1>2, <1>13 DEF ThreadFits, GuardFits, WantAt, Inside, InWhole, InPair, InHop,
                           Late, RehashLabels, SnapshotLabels
      <3>7. PICK l \in Lock : l \in guard[u].want
        BY <3>5, <3>6, TwoStripesOf, LockIndType
      <3>. QED BY <3>6, <3>7, SameSizeFor
    <2>3. hashsize(hashpower) * SLOT_PER_BUCKET <= hashsize(hashpower') * SLOT_PER_BUCKET
      BY <1>4, <1>5, TableAssumption, TimesMonotone
    <2>4. pc[u] = "clear" =>
            loc[u].cur < hashsize(hashpower') * SLOT_PER_BUCKET
      <3>1. loc[u].cur \in Nat /\ SLOT_PER_BUCKET \in Nat
        BY <1>2, TableAssumption DEF ThreadFits, TypeFits, LocalsFit
      <3>2. pc[u] = "clear" => loc[u].cur < hashsize(hashpower) * SLOT_PER_BUCKET
        BY <1>2 DEF ThreadFits, HoldFits
      <3>3. hashsize(hashpower) * SLOT_PER_BUCKET \in Nat
            /\ hashsize(hashpower') * SLOT_PER_BUCKET \in Nat
        BY <1>5, <3>1
      <3>. QED BY <2>3, <3>1, <3>2, <3>3
    <2>5. pc[u] = "iter" => /\ loc[u].cur <= hashsize(hashpower')
                            /\ ret[u].value = Passed(loc[u].cur)'
      <3> SUFFICES ASSUME pc[u] = "iter"
                   PROVE  /\ loc[u].cur <= hashsize(hashpower')
                          /\ ret[u].value = Passed(loc[u].cur)'
        OBVIOUS
      <3>1. /\ loc[u].cur \in Nat /\ loc[u].cur <= hashsize(hashpower)
            /\ guard[u].phase # "held" => loc[u].cur = 0
            /\ ret[u].value = Passed(loc[u].cur)
        BY <1>2 DEF ThreadFits, HoldFits, TypeFits, LocalsFit
      <3>2. guard[u].want = Lock
        BY <1>2, <1>13 DEF ThreadFits, GuardFits, WantAt, Inside, InWhole, InPair, InHop,
                           SnapshotLabels
      <3>3. CASE guard[u].phase = "held"
        BY <1>1, <1>10, <3>1, <3>2, <3>3 DEF Passed
      <3>4. CASE guard[u].phase # "held"
        <4>1. loc[u].cur = 0 /\ loc'[u].cur = 0
          BY <1>1, <3>1, <3>4
        <4>. QED BY <1>1, <1>5, <3>1, <4>1 DEF Passed
      <3>. QED BY <3>3, <3>4
    <2>. QED BY <1>1, <1>2, <2>1, <2>2, <2>4, <2>5 DEF ThreadFits, HoldFits
  <1>. QED BY <1>6, <1>7, <1>8, <1>9, <1>12, <1>14 DEF ThreadFits

LEMMA GoodStep ==
  ASSUME NEW t \in Thread, IInv, MapInv, Good(t)
  PROVE  MapInv'
  <1>1. Domains'
    BY DEF MapInv, Domains, Good, Only, OthersKeep
  <1>2. \A u \in Thread \ {t} : ThreadFits(u)'
    BY OthersFit DEF Good
  <1>. QED BY <1>1, <1>2 DEF MapInv, Good

-----------------------------------------------------------------------------
(***************************************************************************)
(* The parts of Good for the usual kinds of step.  First the table.        *)
(***************************************************************************)
LEMMA TableUntouched ==
  ASSUME NEW t \in Thread, MapInv, UNCHANGED <<buckets, hashpower, resize_counter, elem_counter>>,
         maximum_hashpower' \in Nat, minimum_load_factor' \in 0 .. 100
  PROVE  Frame(t) /\ TableTypes'
  BY DEF MapInv, TableTypes, Frame

\* A slot is written.
LEMMA SlotWritten ==
  ASSUME NEW t \in Thread, MapInv, NEW b, NEW s, NEW item \in Cell,
         buckets' = set_kv(buckets, b, s, item) \/ buckets' = erase_kv(buckets, b, s),
         Writing(t, lock_ind(b)),
         UNCHANGED <<hashpower, resize_counter, elem_counter, settings>>
  PROVE  Frame(t) /\ TableTypes'
  <1>1. hashpower \in Nat /\ buckets \in TabType(hashpower)
    BY DEF MapInv, TableTypes
  <1>2. buckets' \in TabType(hashpower)
    BY <1>1, WriteType
  <1>3. \A x \in Index(hashpower) : x # b => buckets'[x] = buckets[x]
    BY <1>1, WriteBucket
  <1>. QED BY <1>1, <1>2, <1>3 DEF MapInv, TableTypes, Frame, settings

\* A counter is written.
LEMMA CounterWritten ==
  ASSUME NEW t \in Thread, MapInv, NEW l \in Lock, NEW n \in Int,
         elem_counter' = [elem_counter EXCEPT ![l] = n], Writing(t, l),
         UNCHANGED <<buckets, hashpower, resize_counter, settings>>
  PROVE  Frame(t) /\ TableTypes'
  BY DEF MapInv, TableTypes, Frame, settings

\* The whole table is written.
LEMMA TableWritten ==
  ASSUME NEW t \in Thread, MapInv, \A l \in Lock : Writing(t, l),
         hashpower' \in Nat, hashpower <= hashpower', buckets' \in TabType(hashpower'),
         resize_counter' \in Nat, UNCHANGED <<elem_counter, settings>>
  PROVE  Frame(t) /\ TableTypes'
  <1>1. hashpower \in Nat
    BY DEF MapInv, TableTypes
  <1>2. \A b \in Index(hashpower) : lock_ind(b) \in Lock
    BY <1>1, IndexType, LockIndType
  <1>. QED BY <1>1, <1>2, StripesAssumption DEF MapInv, TableTypes, Frame, settings

-----------------------------------------------------------------------------
(***************************************************************************)
(* The guard of t.                                                         *)
(***************************************************************************)
\* A step with no guard, or in the body of an iteration.
LEMMA GuardOutside ==
  ASSUME NEW t \in Thread, GuardFits(t), guard'[t] = guard[t], outer'[t] = outer[t],
         pc[t] \notin Inside, pc'[t] \notin Inside,
         pc[t] \in InBodies => pc'[t] \in InBodies
  PROVE  GuardFits(t)'
  BY DEF GuardFits, InBody

LEMMA GuardEntered ==
  ASSUME NEW t \in Thread, IInv, MapInv, NEW k, NEW S, new(t, k, S), outer'[t] = outer[t],
         pc'[t] \in Inside \ Late, k = KindAt(t)', S = WantAt(t)'
  PROVE  GuardFits(t)' /\ guard'[t].phase # "held"
  <1>1. guard'[t].phase = "lock" /\ guard'[t].kind = k /\ guard'[t].want = S
    BY DEF new, IInv, LocksTypeOK
  <1>2. ~InBody(t)
    BY DEF MapInv, ThreadFits, GuardFits, new
  <1>. QED BY <1>1, <1>2 DEF GuardFits, InBody

\* A step under the guard.
LEMMA GuardKept ==
  ASSUME NEW t \in Thread, GuardFits(t), guard[t].phase \in {"none", "held"},
         guard'[t] = guard[t], outer'[t] = outer[t],
         pc[t] \in Inside, pc'[t] \in Inside, KindAt(t)' = KindAt(t), WantAt(t)' = WantAt(t)
  PROVE  GuardFits(t)'
  BY InsideNotInBody DEF GuardFits, InBody

LEMMA GuardLeft ==
  ASSUME NEW t \in Thread, IInv, GuardFits(t), drop(t), outer'[t] = outer[t],
         pc[t] \in Inside, pc'[t] \notin Inside
  PROVE  GuardFits(t)'
  <1>1. ~InBody(t)
    BY InsideNotInBody DEF GuardFits
  <1>2. guard'[t].phase \in {"unbump", "unlock"}
    BY DEF drop, IInv, LocksTypeOK
  <1>. QED BY <1>1, <1>2 DEF GuardFits, InBody

\* What t may write under its guard.
LEMMA GuardHeld ==
  ASSUME NEW t \in Thread, IInv, MapInv, guard[t].phase \in {"none", "held"},
         pc[t] \in Inside
  PROVE  /\ ~InBody(t)
         /\ guard[t].phase = "held" /\ guard[t].kind = KindAt(t) /\ guard[t].want = WantAt(t)
         /\ KindAt(t) \in Write => \A l \in WantAt(t) : Writing(t, l)
  <1>1. GuardFits(t)
    BY DEF MapInv, ThreadFits
  <1>2. ~InBody(t)
    BY <1>1, InsideNotInBody DEF GuardFits
  <1>3. guard[t].phase = "held" /\ guard[t].kind = KindAt(t) /\ guard[t].want = WantAt(t)
    BY <1>1, <1>2 DEF GuardFits
  <1>. QED BY <1>2, <1>3, HeldGuard DEF Writing

-----------------------------------------------------------------------------
(***************************************************************************)
(* The locals of t where nothing is asked of them.                         *)
(***************************************************************************)
WalkLabels == {"run_counter", "slot_search", "search_partial"} \cup OnPath

HoldLabels == {"resize_load", "move_set", "clear", "clear_count", "len", "clear_lock",
               "iter_lock", "iter"} \cup RehashLabels

LEMMA WalkIdle ==
  ASSUME NEW t \in Thread, loc'[t].walk.carry = None, pc'[t] \notin WalkLabels
  PROVE  WalkFits(t)'
  BY DEF WalkFits, WalkLabels, OnPath, Hopping

LEMMA HoldIdle ==
  ASSUME NEW t \in Thread, pc'[t] \notin HoldLabels
  PROVE  HoldFits(t)'
  <1>1. pc'[t] # "resize_load" /\ pc'[t] \notin RehashLabels /\ pc'[t] # "rehash_one"
    BY DEF HoldLabels, RehashLabels
  <1>2. pc'[t] # "move_set" /\ pc'[t] # "clear" /\ pc'[t] \notin {"clear_count", "len"}
    BY DEF HoldLabels
  <1>3. pc'[t] \notin {"clear_lock", "iter_lock"} /\ pc'[t] # "iter"
    BY DEF HoldLabels
  <1>. QED BY <1>1, <1>2, <1>3, Zenon DEF HoldFits

LEMMA OuterSame ==
  ASSUME NEW t \in Thread, OuterFits(t), outer'[t] = outer[t],
         InBody(t) => call'[t] = call[t] /\ UNCHANGED <<buckets, hashpower>>
  PROVE  OuterFits(t)'
  BY DEF OuterFits, InBody, Passed

(***************************************************************************)
(* A step outside the guards that writes nothing shared: t moves to label  *)
(* p with locals l.                                                        *)
(***************************************************************************)
LEMMA NewLocals == LocalsFit(NoLocals) /\ NoLocals.walk.carry = None
  <1>1. NoLocals.walk = NoWalk
    BY DEF NoLocals
  <1>2. NoLocals.cur = 0 /\ NoLocals.hp0 = 0 /\ NoLocals.aside = <<>>
    BY DEF NoLocals
  <1>3. NoWalk.queue = <<>> /\ NoWalk.offset = -1 /\ NoWalk.at = 0 /\ NoWalk.carry = None
    BY DEF NoWalk
  <1>4. <<>> \in Seq(Item) /\ <<>> \in Seq(Entry)
    OBVIOUS
  <1>. QED BY <1>1, <1>2, <1>3, <1>4 DEF LocalsFit

LEMMA OutsideGood ==
  ASSUME NEW t \in Thread, IInv, MapInv, NEW l, NEW p,
         Jump(t, p), Local(t, l) \/ (loc' = loc /\ l = loc[t]),
         OthersKeep(ret, ret', t), UNCHANGED <<callVars, buckets, hashpower>>,
         Frame(t), TableTypes',
         call[t] \in BodyCall \cup IterCall, LocalsFit(l),
         pc[t] \notin Inside, p \in Label, p \notin Inside,
         pc[t] \in InBodies => p \in InBodies,
         LabelFits(p, call[t].op, l.then), IndexFits(t)', WalkFits(t)', HoldFits(t)'
  PROVE  Good(t)
  <1>1. ThreadFits(t) /\ Domains
    BY DEF MapInv
  <1>2. pc'[t] = p /\ loc'[t] = l /\ guard' = guard
    BY <1>1 DEF Jump, Goto, Local, lockVars, Domains
  <1>3. Only(t)
    BY <1>1 DEF Only, OthersKeep, Jump, Goto, Local, lockVars, callVars, Domains
  <1>4. TypeFits(t)' /\ CallFits(t)'
    BY <1>1, <1>2 DEF ThreadFits, TypeFits, CallFits, Calls, callVars
  <1>5. GuardFits(t)'
    BY <1>1, <1>2, GuardOutside DEF ThreadFits, callVars
  <1>6. OuterFits(t)'
    BY <1>1, OuterSame DEF ThreadFits, callVars
  <1>. QED BY <1>3, <1>4, <1>5, <1>6 DEF Good, ThreadFits

LEMMA QuietGood ==
  ASSUME NEW t \in Thread, IInv, MapInv, NEW l, NEW p,
         Jump(t, p), Local(t, l) \/ (loc' = loc /\ l = loc[t]),
         OthersKeep(ret, ret', t), UNCHANGED <<callVars, tableVars>>,
         call[t] \in BodyCall \cup IterCall, LocalsFit(l),
         pc[t] \notin Inside, p \in Label, p \notin Inside, p \notin HoldLabels,
         pc[t] \in InBodies => p \in InBodies,
         LabelFits(p, call[t].op, l.then), IndexFits(t)', WalkFits(t)'
  PROVE  Good(t)
  <1>1. pc'[t] = p
    BY DEF Jump, Goto, MapInv, Domains
  <1>2. Frame(t) /\ TableTypes'
    BY TableUntouched DEF MapInv, TableTypes, tableVars, settings
  <1>3. HoldFits(t)'
    BY <1>1, HoldIdle
  <1>4. UNCHANGED <<callVars, buckets, hashpower>>
    BY DEF tableVars
  <1>. QED BY <1>2, <1>3, <1>4, OutsideGood

\* The caller's view of the invariant.
LEMMA Knows ==
  ASSUME MapInv, NEW t \in Thread
  PROVE  /\ ThreadFits(t) /\ TableTypes /\ Domains
         /\ hashpower \in Nat /\ InitHashpower \in Nat /\ InitHashpower <= hashpower
         /\ hashpower \in InitHashpower .. hashpower
         /\ LocalsFit(loc[t])
  BY StripesAssumption DEF MapInv, TableTypes, ThreadFits, TypeFits

(***************************************************************************)
(* A step that enters a guard, one under it, and one that drops it.        *)
(***************************************************************************)
LEMMA EnterGood ==
  ASSUME NEW t \in Thread, IInv, MapInv, NEW k, NEW S, NEW l, NEW p, Enter(t, k, S, p),
         Local(t, l) \/ (loc' = loc /\ l = loc[t]),
         OthersKeep(ret, ret', t), UNCHANGED <<callVars, tableVars>>,
         call[t] \in BodyCall \cup IterCall, LocalsFit(l),
         p \in Label, p \in Inside \ Late, k = KindAt(t)', S = WantAt(t)',
         LabelFits(p, call[t].op, l.then), IndexFits(t)', WalkFits(t)',
         guard'[t].phase # "held" => HoldFits(t)'
  PROVE  Good(t)
  <1>1. ThreadFits(t) /\ Domains
    BY Knows
  <1>2. pc'[t] = p /\ loc'[t] = l
    BY <1>1 DEF Enter, Goto, Local, Domains
  <1>3. Only(t)
    BY <1>1 DEF Only, OthersKeep, Enter, new, Goto, Local, callVars, Domains
  <1>4. Frame(t) /\ TableTypes'
    BY TableUntouched DEF MapInv, TableTypes, tableVars, settings
  <1>5. TypeFits(t)' /\ CallFits(t)'
    BY <1>1, <1>2 DEF ThreadFits, TypeFits, CallFits, Calls, callVars
  <1>6. GuardFits(t)' /\ guard'[t].phase # "held"
    BY <1>2, GuardEntered DEF Enter, callVars
  <1>7. OuterFits(t)'
    BY <1>1, OuterSame DEF ThreadFits, callVars, tableVars
  <1>. QED BY <1>3, <1>4, <1>5, <1>6, <1>7 DEF Good, ThreadFits

LEMMA StayGood ==
  ASSUME NEW t \in Thread, IInv, MapInv, NEW l, NEW p, guard[t].phase \in {"none", "held"},
         Jump(t, p), Local(t, l) \/ (loc' = loc /\ l = loc[t]),
         OthersKeep(ret, ret', t), UNCHANGED callVars, Frame(t), TableTypes',
         call[t] \in BodyCall \cup IterCall, LocalsFit(l),
         pc[t] \in Inside, p \in Label, p \in Inside,
         KindAt(t)' = KindAt(t), WantAt(t)' = WantAt(t),
         LabelFits(p, call[t].op, l.then), IndexFits(t)', WalkFits(t)', HoldFits(t)'
  PROVE  Good(t)
  <1>1. ThreadFits(t) /\ Domains
    BY Knows
  <1>2. pc'[t] = p /\ loc'[t] = l /\ guard' = guard
    BY <1>1 DEF Jump, Goto, Local, lockVars, Domains
  <1>3. Only(t)
    BY <1>1 DEF Only, OthersKeep, Jump, Goto, Local, lockVars, callVars, Domains
  <1>4. TypeFits(t)' /\ CallFits(t)'
    BY <1>1, <1>2 DEF ThreadFits, TypeFits, CallFits, Calls, callVars
  <1>5. GuardFits(t)'
    BY <1>1, <1>2, GuardKept DEF ThreadFits, callVars
  <1>6. OuterFits(t)'
    BY <1>1, OuterSame, GuardHeld DEF ThreadFits, callVars
  <1>. QED BY <1>3, <1>4, <1>5, <1>6 DEF Good, ThreadFits

LEMMA LeaveGood ==
  ASSUME NEW t \in Thread, IInv, MapInv, NEW l, NEW p,
         Leave(t, p), Local(t, l) \/ (loc' = loc /\ l = loc[t]),
         OthersKeep(ret, ret', t), UNCHANGED callVars, Frame(t), TableTypes',
         call[t] \in BodyCall \cup IterCall, LocalsFit(l),
         pc[t] \in Inside, p \in Label, p \notin Inside, p \notin HoldLabels,
         LabelFits(p, call[t].op, l.then), IndexFits(t)', WalkFits(t)'
  PROVE  Good(t)
  <1>1. ThreadFits(t) /\ Domains
    BY Knows
  <1>2. pc'[t] = p /\ loc'[t] = l
    BY <1>1 DEF Leave, Goto, Local, Domains
  <1>3. Only(t)
    BY <1>1 DEF Only, OthersKeep, Leave, drop, Goto, Local, callVars, Domains
  <1>4. TypeFits(t)' /\ CallFits(t)'
    BY <1>1, <1>2 DEF ThreadFits, TypeFits, CallFits, Calls, callVars
  <1>5. GuardFits(t)'
    BY <1>1, <1>2, GuardLeft DEF ThreadFits, Leave, callVars
  <1>6. HoldFits(t)'
    BY <1>2, HoldIdle
  <1>7. ~InBody(t)
    BY GuardHeld DEF Leave, drop
  <1>8. OuterFits(t)'
    BY <1>1, <1>7, OuterSame DEF ThreadFits, callVars
  <1>. QED BY <1>3, <1>4, <1>5, <1>6, <1>8 DEF Good, ThreadFits

-----------------------------------------------------------------------------
(***************************************************************************)
(* The actions.  From here on the sets of labels are expanded everywhere.  *)
(***************************************************************************)
USE DEF Validating, Optimistic, Snapshots, SnapshotLabels, Hopping, OnPath, Cuckoo,
        RehashLabels, Resizing, Inserting, ClearLabels, IterLabels, Label,
        InPair, InHop, InWhole, Inside, Late, InBodies, Indexed, WalkLabels, HoldLabels

(***************************************************************************)
(* get and contains_key without the locks, and the snapshots.              *)
(***************************************************************************)
LEMMA ReadHashpowerGood ==
  ASSUME NEW t \in Thread, IInv, MapInv, read_hp(t) \/ snapshot_hp(t)
  PROVE  Good(t)
  <1>. DEFINE l == [loc[t] EXCEPT !.hp = hashpower]
  <1>1. PICK here \in {"read_hp", "snapshot_hp"}, p \in {"read_counter", "snapshot_counter"} :
          /\ pc[t] = here /\ Local(t, l) /\ Jump(t, p) /\ UNCHANGED <<tableVars, threadVars>>
          /\ here = "read_hp" <=> p = "read_counter"
    BY DEF read_hp, snapshot_hp, ReadHashpower, At
  <1>2. /\ ThreadFits(t) /\ LocalsFit(loc[t]) /\ Domains
        /\ hashpower \in InitHashpower .. hashpower
    BY Knows
  <1>3. /\ l.hp = hashpower /\ l.then = loc[t].then /\ l.spot = loc[t].spot
        /\ l.walk = loc[t].walk /\ LocalsFit(l)
    BY <1>2 DEF LocalsFit, NoLocals
  <1>. HIDE DEF l
  <1>4. loc'[t] = l /\ pc'[t] = p /\ call' = call
    BY <1>1, <1>2 DEF Local, Jump, Goto, Domains, threadVars, callVars
  <1>5. IndexFits(t)'
    BY <1>1, <1>2, <1>3, <1>4 DEF IndexFits, ThreadFits, Spotted, tableVars
  <1>6. WalkFits(t)'
    BY <1>1, <1>2, <1>3, <1>4, WalkIdle DEF ThreadFits, WalkFits
  <1>7. call[t] \in BodyCall \cup IterCall /\ LabelFits(p, call[t].op, l.then)
    BY <1>1, <1>2, <1>3 DEF ThreadFits, CallFits, LabelFits
  <1>8. /\ here \notin Inside /\ p \notin Inside /\ p \notin HoldLabels /\ p \in Label
        /\ p \in InBodies
    BY <1>1
  <1>. QED BY <1>1, <1>3, <1>5, <1>6, <1>7, <1>8, QuietGood DEF threadVars, OthersKeep

LEMMA ReadCounterGood ==
  ASSUME NEW t \in Thread, IInv, MapInv, read_counter(t)
  PROVE  Good(t)
  <1>. DEFINE k == call[t].key
              l == [loc[t] EXCEPT !.counter = resize_counter,
                      !.i1 = Bucket1(loc[t].hp, k), !.i2 = Bucket2(loc[t].hp, k)]
  <1>1. /\ pc[t] = "read_counter" /\ Local(t, l) /\ Jump(t, "read_v1")
        /\ UNCHANGED <<tableVars, threadVars>>
    BY DEF read_counter, At, WithIndices
  <1>2. ThreadFits(t) /\ LocalsFit(loc[t]) /\ Domains
    BY Knows
  <1>3. /\ l.hp = loc[t].hp /\ l.i1 = Bucket1(loc[t].hp, k) /\ l.i2 = Bucket2(loc[t].hp, k)
        /\ l.then = loc[t].then /\ l.walk = loc[t].walk /\ LocalsFit(l)
    BY <1>2 DEF LocalsFit, NoLocals
  <1>. HIDE DEF l
  <1>4. loc'[t] = l /\ pc'[t] = "read_v1" /\ call' = call /\ hashpower' = hashpower
    BY <1>1, <1>2 DEF Local, Jump, Goto, Domains, threadVars, callVars, tableVars
  <1>5. IndexFits(t)'
    BY <1>1, <1>2, <1>3, <1>4 DEF IndexFits, ThreadFits, Spotted
  <1>6. WalkFits(t)'
    BY <1>1, <1>2, <1>3, <1>4, WalkIdle DEF ThreadFits, WalkFits
  <1>7. call[t] \in BodyCall \cup IterCall /\ LabelFits("read_v1", call[t].op, l.then)
    BY <1>1, <1>2 DEF ThreadFits, CallFits, LabelFits
  <1>. QED BY <1>1, <1>3, <1>5, <1>6, <1>7, QuietGood DEF threadVars, OthersKeep

\* A lookup goes on with what it has read.
LEMMA ReadOnGood ==
  ASSUME NEW t \in Thread, IInv, MapInv, pc[t] \in Validating,
         NEW p \in Validating, NEW l, Local(t, l), Jump(t, p),
         UNCHANGED <<tableVars, threadVars>>, LocalsFit(l), l.hp = loc[t].hp,
         l.i1 = loc[t].i1, l.i2 = loc[t].i2, l.walk = loc[t].walk
  PROVE  Good(t)
  <1>1. ThreadFits(t) /\ Domains
    BY Knows
  <1>2. loc'[t] = l /\ pc'[t] = p /\ call' = call /\ hashpower' = hashpower
    BY <1>1 DEF Local, Jump, Goto, Domains, threadVars, callVars, tableVars
  <1>3. IndexFits(t)'
    BY <1>1, <1>2 DEF IndexFits, ThreadFits, Spotted
  <1>4. WalkFits(t)'
    BY <1>1, <1>2, WalkIdle DEF ThreadFits, WalkFits
  <1>5. call[t] \in BodyCall \cup IterCall /\ LabelFits(p, call[t].op, l.then)
    BY <1>1 DEF ThreadFits, CallFits, LabelFits
  <1>. QED BY <1>3, <1>4, <1>5, QuietGood DEF threadVars, OthersKeep

LEMMA RetryGood ==
  ASSUME NEW t \in Thread, IInv, MapInv, pc[t] \in Validating, NEW l, Retry(t, l),
         UNCHANGED <<tableVars, threadVars>>
  PROVE  Good(t)
  <1>. DEFINE m == [NoLocals EXCEPT !.tries = l.tries + 1, !.then = "find"]
  <1>1. PICK p \in {"read_hp", "snapshot_hp"} : Local(t, m) /\ Jump(t, p)
    BY DEF Retry
  <1>2. ThreadFits(t) /\ Domains
    BY Knows
  <1>3. LocalsFit(m) /\ m.walk.carry = None /\ m.then = "find"
    BY NewLocals DEF LocalsFit, NoLocals
  <1>. HIDE DEF m
  <1>4. loc'[t] = m /\ pc'[t] = p /\ call' = call /\ hashpower' = hashpower
    BY <1>1, <1>2 DEF Local, Jump, Goto, Domains, threadVars, callVars, tableVars
  <1>5. IndexFits(t)'
    BY <1>1, <1>3, <1>4 DEF IndexFits, Spotted
  <1>6. WalkFits(t)'
    BY <1>1, <1>3, <1>4, WalkIdle
  <1>7. call[t] \in BodyCall \cup IterCall /\ LabelFits(p, call[t].op, m.then)
    BY <1>1, <1>2, <1>3 DEF ThreadFits, CallFits, LabelFits
  <1>. QED BY <1>1, <1>3, <1>5, <1>6, <1>7, QuietGood DEF threadVars, OthersKeep

\* What a lookup notes down beside its indices.
LEMMA NotesFit ==
  ASSUME NEW m, LocalsFit(m)
  PROVE  /\ \A w : LET l == [m EXCEPT !.v2 = w] IN
              LocalsFit(l) /\ l.hp = m.hp /\ l.i1 = m.i1 /\ l.i2 = m.i2 /\ l.walk = m.walk
         /\ \A v : LET l == [m EXCEPT !.same = v] IN
              LocalsFit(l) /\ l.hp = m.hp /\ l.i1 = m.i1 /\ l.i2 = m.i2 /\ l.walk = m.walk
         /\ \A n \in Nat : \A v : LET l == [m EXCEPT !.cur = n, !.hit = v] IN
              LocalsFit(l) /\ l.hp = m.hp /\ l.i1 = m.i1 /\ l.i2 = m.i2 /\ l.walk = m.walk
  BY DEF LocalsFit, NoLocals

LEMMA ValidateGood ==
  ASSUME NEW t \in Thread, IInv, MapInv,
         read_v1(t) \/ read_v2(t) \/ read_cells(t) \/ after_v1(t) \/ after_v2(t)
  PROVE  Good(t)
  <1>1. LocalsFit(loc[t]) /\ loc[t].cur \in Nat
    BY Knows DEF LocalsFit
  <1>2. ASSUME NEW l, pc[t] \in Validating, StartReading(t, l),
               UNCHANGED <<tableVars, threadVars>>, LocalsFit(l), l.hp = loc[t].hp,
               l.i1 = loc[t].i1, l.i2 = loc[t].i2, l.walk = loc[t].walk
        PROVE  Good(t)
    BY <1>2, RetryGood, ReadOnGood DEF StartReading
  <1>3. CASE read_v1(t)
    <2>. DEFINE v == version[lock_ind(loc[t].i1)]
                l == [loc[t] EXCEPT !.v1 = v, !.v2 = v]
    <2>1. /\ LocalsFit(l) /\ l.hp = loc[t].hp /\ l.i1 = loc[t].i1 /\ l.i2 = loc[t].i2
          /\ l.walk = loc[t].walk
      BY <1>1 DEF LocalsFit, NoLocals
    <2>2. /\ pc[t] = "read_v1" /\ UNCHANGED <<tableVars, threadVars>>
          /\ (Local(t, l) /\ Jump(t, "read_v2")) \/ StartReading(t, l)
      BY <1>3 DEF read_v1, At
    <2>. HIDE DEF l
    <2>. QED BY <1>2, <2>1, <2>2, ReadOnGood
  <1>4. CASE read_v2(t)
    <2>. DEFINE l == [loc[t] EXCEPT !.v2 = version[lock_ind(loc[t].i2)]]
    <2>1. /\ LocalsFit(l) /\ l.hp = loc[t].hp /\ l.i1 = loc[t].i1 /\ l.i2 = loc[t].i2
          /\ l.walk = loc[t].walk
      BY <1>1, NotesFit, ZenonT(30)
    <2>2. /\ pc[t] = "read_v2" /\ UNCHANGED <<tableVars, threadVars>> /\ StartReading(t, l)
      BY <1>4 DEF read_v2, At
    <2>. HIDE DEF l
    <2>. QED BY <1>2, <2>1, <2>2
  <1>5. CASE read_cells(t)
    <2>1. PICK h : /\ pc[t] = "read_cells" /\ UNCHANGED <<tableVars, threadVars>>
                   /\ Local(t, [loc[t] EXCEPT !.cur = loc[t].cur + 1, !.hit = h])
                   /\ Jump(t, "after_v1") \/ Jump(t, "read_cells")
      BY <1>5, Zenon DEF read_cells, At
    <2>. DEFINE l == [loc[t] EXCEPT !.cur = loc[t].cur + 1, !.hit = h]
    <2>2. loc[t].cur + 1 \in Nat
      BY <1>1
    <2>3. /\ LocalsFit(l) /\ l.hp = loc[t].hp /\ l.i1 = loc[t].i1 /\ l.i2 = loc[t].i2
          /\ l.walk = loc[t].walk
      BY <1>1, <2>2, NotesFit, ZenonT(30)
    <2>. HIDE DEF l
    <2>. QED BY <2>1, <2>3, ReadOnGood, Zenon DEF l
  <1>6. CASE after_v1(t)
    BY <1>1, <1>6, ReadOnGood, NotesFit DEF after_v1, At
  <1>7. CASE after_v2(t)
    BY <1>1, <1>7, ReadOnGood, NotesFit DEF after_v2, At
  <1>. QED BY <1>3, <1>4, <1>5, <1>6, <1>7

LEMMA AfterCounterGood ==
  ASSUME NEW t \in Thread, IInv, MapInv, after_counter(t)
  PROVE  Good(t)
  <1>1. pc[t] = "after_counter" /\ UNCHANGED tableVars
    BY DEF after_counter, At
  <1>2. CASE Retry(t, loc[t]) /\ UNCHANGED threadVars
    BY <1>1, <1>2, RetryGood
  <1>3. CASE Answer(t, Hit(call[t], loc[t].hit)) /\ Jump(t, "return") /\ UNCHANGED loc
    <2>1. ThreadFits(t) /\ Domains /\ LocalsFit(loc[t])
      BY Knows
    <2>2. /\ loc'[t] = loc[t] /\ pc'[t] = "return" /\ call' = call /\ UNCHANGED callVars
          /\ OthersKeep(ret, ret', t)
      BY <1>3, <2>1 DEF Answer, Jump, Goto, Domains, callVars, OthersKeep
    <2>3. IndexFits(t)'
      BY <2>2 DEF IndexFits, Spotted
    <2>4. WalkFits(t)'
      BY <1>1, <2>1, <2>2, WalkIdle DEF ThreadFits, WalkFits
    <2>5. call[t] \in BodyCall \cup IterCall /\ LabelFits("return", call[t].op, loc[t].then)
      BY <1>1, <2>1 DEF ThreadFits, CallFits, LabelFits
    <2>. QED BY <1>1, <1>3, <2>1, <2>2, <2>3, <2>4, <2>5, QuietGood
  <1>. QED BY <1>2, <1>3 DEF after_counter

LEMMA SnapshotCounterGood ==
  ASSUME NEW t \in Thread, IInv, MapInv, snapshot_counter(t)
  PROVE  Good(t)
  <1>. DEFINE k == call[t].key
              l == [loc[t] EXCEPT !.counter = resize_counter,
                      !.i1 = Bucket1(loc[t].hp, k), !.i2 = Bucket2(loc[t].hp, k)]
              S == TwoStripes(l.i1, l.i2)
  <1>1. /\ pc[t] = "snapshot_counter" /\ Local(t, l)
        /\ Enter(t, GuardKind(call[t].op), S, l.then)
        /\ UNCHANGED <<tableVars, threadVars>>
    BY DEF snapshot_counter, At, WithIndices
  <1>2. ThreadFits(t) /\ LocalsFit(loc[t]) /\ Domains
    BY Knows
  <1>3. /\ l.hp = loc[t].hp /\ l.i1 = Bucket1(loc[t].hp, k) /\ l.i2 = Bucket2(loc[t].hp, k)
        /\ l.then = loc[t].then /\ l.spot = loc[t].spot /\ l.walk = loc[t].walk /\ LocalsFit(l)
    BY <1>2 DEF LocalsFit, NoLocals
  <1>. HIDE DEF l
  <1>4. /\ loc'[t] = l /\ pc'[t] = l.then /\ call' = call /\ hashpower' = hashpower
        /\ UNCHANGED callVars /\ OthersKeep(ret, ret', t)
    BY <1>1, <1>2 DEF Local, Enter, Goto, Domains, threadVars, callVars, tableVars, OthersKeep
  <1>5. /\ call[t] \in BodyCall \cup IterCall /\ l.then \in SnapshotLabels
        /\ LabelFits(l.then, call[t].op, l.then)
    BY <1>1, <1>2, <1>3 DEF ThreadFits, CallFits, LabelFits
  <1>6. IndexFits(t)'
    BY <1>1, <1>2, <1>3, <1>4, <1>5 DEF IndexFits, ThreadFits, Spotted
  <1>7. WalkFits(t)'
    BY <1>1, <1>2, <1>3, <1>4, <1>5, WalkIdle DEF ThreadFits, WalkFits
  <1>8. GuardKind(call[t].op) = KindAt(t)' /\ S = WantAt(t)'
    BY <1>4, <1>5 DEF KindAt, WantAt
  <1>9. HoldFits(t)'
    BY <1>4, <1>5, HoldIdle
  <1>. HIDE DEF S
  <1>. QED BY <1>1, <1>3, <1>4, <1>5, <1>6, <1>7, <1>8, <1>9, EnterGood

\* A call that answers under its guard and leaves, the table as it is or
\* changed under the guard.
LEMMA AnswerGood ==
  ASSUME NEW t \in Thread, IInv, MapInv, pc[t] \in Inside \ {"move_set"}, Leave(t, "return"),
         loc' = loc, OthersKeep(ret, ret', t), UNCHANGED callVars, Frame(t), TableTypes'
  PROVE  Good(t)
  <1>1. ThreadFits(t) /\ Domains /\ LocalsFit(loc[t])
    BY Knows
  <1>2. pc'[t] = "return"
    BY <1>1 DEF Leave, Goto, Domains
  <1>3. IndexFits(t)'
    BY <1>2 DEF IndexFits, Spotted
  <1>4. WalkFits(t)'
    BY <1>1, <1>2, WalkIdle DEF ThreadFits, WalkFits
  <1>5. call[t] \in BodyCall \cup IterCall /\ LabelFits("return", call[t].op, loc[t].then)
    BY <1>1 DEF ThreadFits, CallFits, LabelFits
  <1>. QED BY <1>1, <1>3, <1>4, <1>5, LeaveGood

LEMMA Untouched ==
  ASSUME NEW t \in Thread, MapInv, UNCHANGED tableVars
  PROVE  Frame(t) /\ TableTypes'
  BY TableUntouched DEF MapInv, TableTypes, tableVars, settings

LEMMA FindGood ==
  ASSUME NEW t \in Thread, IInv, MapInv, find(t) \/ snapshot_retry(t)
  PROVE  Good(t)
  <1>1. ThreadFits(t) /\ Domains /\ LocalsFit(loc[t])
    BY Knows
  <1>2. CASE find(t)
    <2>1. /\ pc[t] = "find" /\ Leave(t, "return") /\ UNCHANGED <<tableVars, loc, callVars>>
          /\ OthersKeep(ret, ret', t)
      BY <1>1, <1>2 DEF find, Locked, At, Answer, OthersKeep, Domains
    <2>. QED BY <2>1, AnswerGood, Untouched
  <1>3. CASE snapshot_retry(t)
    <2>1. /\ pc[t] \in SnapshotLabels /\ Leave(t, "snapshot_hp")
          /\ UNCHANGED <<tableVars, threadVars, loc>>
      BY <1>3 DEF snapshot_retry, At
    <2>2. /\ pc'[t] = "snapshot_hp" /\ loc' = loc /\ call' = call /\ hashpower' = hashpower
          /\ UNCHANGED callVars /\ OthersKeep(ret, ret', t)
      BY <1>1, <2>1 DEF Leave, Goto, Domains, tableVars, threadVars, callVars, OthersKeep
    <2>3. /\ call[t] \in BodyCall \cup IterCall /\ loc[t].then = pc[t]
          /\ LabelFits("snapshot_hp", call[t].op, loc[t].then)
      BY <1>1, <2>1 DEF ThreadFits, CallFits, LabelFits
    <2>4. IndexFits(t)'
      BY <1>1, <2>1, <2>2, <2>3 DEF IndexFits, ThreadFits, Spotted
    <2>5. WalkFits(t)'
      BY <1>1, <2>1, <2>2, WalkIdle DEF ThreadFits, WalkFits
    <2>. QED BY <1>1, <2>1, <2>2, <2>3, <2>4, <2>5, LeaveGood, Untouched
  <1>. QED BY <1>2, <1>3

-----------------------------------------------------------------------------
(***************************************************************************)
(* remove and insert.                                                      *)
(***************************************************************************)
LEMMA KeyOfCall ==
  ASSUME NEW c \in BodyCall \cup IterCall
  PROVE  /\ c.op \in {"get", "contains_key", "get_key_value", "remove", "insert"}
              => c.key \in Key /\ c \in BodyCall
         /\ c.op = "insert" => [key |-> c.key, value |-> c.value] \in Item
  BY DEF BodyCall, IterCall, Item

\* The stripes of an insert's or a remove's guard are those of its key, and
\* so cover its slot although the table may have grown since it was found.
LEMMA GuardCovers ==
  ASSUME NEW t \in Thread, IInv, MapInv, guard[t].phase \in {"none", "held"},
         pc[t] \in {"remove", "insert", "recheck", "remove_count", "insert_count"}
  PROVE  /\ call[t] \in BodyCall \cup IterCall /\ call[t].key \in Key
         /\ call[t].op \in {"insert", "remove"}
         /\ \A b : AtHome(call[t].key, b, hashpower) =>
                     b \in Nat /\ lock_ind(b) \in Lock /\ Writing(t, lock_ind(b))
  <1>1. ThreadFits(t) /\ hashpower \in Nat /\ InitHashpower \in Nat /\ InitHashpower <= hashpower
    BY Knows
  <1>2. call[t] \in BodyCall \cup IterCall /\ call[t].op \in {"insert", "remove"}
    BY <1>1 DEF ThreadFits, CallFits, LabelFits
  <1>3. call[t].key \in Key
    BY <1>2, KeyOfCall
  <1>4. /\ loc[t].hp \in InitHashpower .. hashpower
        /\ WantAt(t) = TwoStripes(Bucket1(loc[t].hp, call[t].key), Bucket2(loc[t].hp, call[t].key))
    BY <1>1 DEF ThreadFits, IndexFits, WantAt
  <1>5. KindAt(t) \in Write
    BY <1>2 DEF KindAt, GuardKind, Write
  <1>6. \A l \in WantAt(t) : Writing(t, l)
    BY <1>5, GuardHeld
  <1>7. loc[t].hp \in Nat /\ InitHashpower <= loc[t].hp
    BY <1>1, <1>4
  <1>8. \A b : AtHome(call[t].key, b, hashpower) => b \in Nat /\ lock_ind(b) \in WantAt(t)
    BY <1>1, <1>3, <1>4, <1>7, AtHomeStripe
  <1>. QED BY <1>2, <1>3, <1>6, <1>8, LockIndType

\* Where a search or an insertion finds its slot.
LEMMA CellAtHome ==
  ASSUME NEW t \in Thread, MapInv, pc[t] \in Indexed, NEW c,
         c \in Found(t) \/ c \in free_cell(buckets, loc[t].i1, loc[t].i2)
  PROVE  c[2] \in Slot /\ AtHome(call[t].key, c[1], hashpower)
  <1>1. c[1] \in {loc[t].i1, loc[t].i2} /\ c[2] \in Slot
    BY FindCell, FreeCell DEF Found
  <1>2. ThreadFits(t)
    BY Knows
  <1>. QED BY <1>1, <1>2 DEF ThreadFits, IndexFits, AtHome

\* A slot found or claimed is written, and counted in the next step.
LEMMA SlotThenCountGood ==
  ASSUME NEW t \in Thread, IInv, MapInv, guard[t].phase \in {"none", "held"},
         NEW c, NEW item \in Cell, c[2] \in Slot, AtHome(call[t].key, c[1], hashpower),
         \/ pc[t] = "remove" /\ Jump(t, "remove_count")
         \/ pc[t] \in {"insert", "recheck"} /\ Jump(t, "insert_count"),
         buckets' = set_kv(buckets, c[1], c[2], item) \/ buckets' = erase_kv(buckets, c[1], c[2]),
         Local(t, [loc[t] EXCEPT !.spot = c]), OthersKeep(ret, ret', t),
         UNCHANGED <<hashpower, resize_counter, elem_counter, settings, callVars>>
  PROVE  Good(t)
  <1>. DEFINE l == [loc[t] EXCEPT !.spot = c]
  <1>1. ThreadFits(t) /\ Domains /\ LocalsFit(loc[t])
    BY Knows
  <1>2. /\ call[t] \in BodyCall \cup IterCall /\ Writing(t, lock_ind(c[1]))
    BY GuardCovers
  <1>3. Frame(t) /\ TableTypes'
    BY <1>2, SlotWritten
  <1>4. /\ l.hp = loc[t].hp /\ l.i1 = loc[t].i1 /\ l.i2 = loc[t].i2 /\ l.spot = c
        /\ l.then = loc[t].then /\ l.walk = loc[t].walk /\ LocalsFit(l)
    BY <1>1 DEF LocalsFit, NoLocals
  <1>5. Local(t, l)
    OBVIOUS
  <1>. HIDE DEF l
  <1>6. PICK p \in {"remove_count", "insert_count"} :
          /\ Jump(t, p) /\ pc'[t] = p
          /\ p = "remove_count" => pc[t] = "remove"
          /\ p = "insert_count" => pc[t] \in {"insert", "recheck"}
    BY <1>1 DEF Jump, Goto, Domains
  <1>7. loc'[t] = l /\ call' = call
    BY <1>1, <1>5 DEF Local, Domains, callVars
  <1>8. IndexFits(t)'
    BY <1>1, <1>4, <1>6, <1>7 DEF ThreadFits, IndexFits, Spotted
  <1>9. WalkFits(t)'
    BY <1>1, <1>4, <1>6, <1>7, WalkIdle DEF ThreadFits, WalkFits
  <1>10. LabelFits(p, call[t].op, l.then)
    BY <1>1, <1>6 DEF ThreadFits, CallFits, LabelFits
  <1>11. KindAt(t)' = KindAt(t) /\ WantAt(t)' = WantAt(t)
    BY <1>4, <1>6, <1>7 DEF KindAt, WantAt
  <1>12. HoldFits(t)'
    BY <1>6, HoldIdle
  <1>. QED BY <1>2, <1>3, <1>4, <1>5, <1>6, <1>8, <1>9, <1>10, <1>11, <1>12, StayGood

LEMMA CountGood ==
  ASSUME NEW t \in Thread, IInv, MapInv, remove_count(t) \/ insert_count(t)
  PROVE  Good(t)
  <1>. DEFINE b == loc[t].spot[1]
  <1>1. ThreadFits(t) /\ Domains /\ TableTypes
    BY Knows
  <1>2. PICK delta \in {-1, 1} :
          /\ pc[t] \in {"remove_count", "insert_count"} /\ guard[t].phase \in {"none", "held"}
          /\ elem_counter' = [elem_counter EXCEPT ![lock_ind(b)] = elem_counter[lock_ind(b)] + delta]
          /\ Leave(t, "return")
          /\ UNCHANGED <<buckets, hashpower, resize_counter, settings, threadVars, loc>>
    BY DEF remove_count, insert_count, At, Count
  <1>3. AtHome(call[t].key, b, hashpower)
    BY <1>1, <1>2 DEF ThreadFits, IndexFits, Spotted
  <1>4. lock_ind(b) \in Lock /\ Writing(t, lock_ind(b))
    BY <1>2, <1>3, GuardCovers
  <1>5. elem_counter[lock_ind(b)] + delta \in Int
    BY <1>1, <1>4 DEF TableTypes
  <1>6. Frame(t) /\ TableTypes'
    BY <1>2, <1>4, <1>5, CounterWritten
  <1>. QED BY <1>2, <1>6, AnswerGood DEF threadVars, callVars, OthersKeep

LEMMA RemoveGood ==
  ASSUME NEW t \in Thread, IInv, MapInv, remove(t)
  PROVE  Good(t)
  <1>1. Domains
    BY Knows
  <1>2. /\ pc[t] = "remove" /\ guard[t].phase \in {"none", "held"}
        /\ OthersKeep(ret, ret', t)
        /\ UNCHANGED <<hashpower, resize_counter, elem_counter, settings, callVars>>
    BY <1>1 DEF remove, Locked, At, Answer, OthersKeep, Domains
  <1>3. CASE Leave(t, "return") /\ UNCHANGED <<buckets, loc>>
    BY <1>2, <1>3, AnswerGood, Untouched DEF tableVars
  <1>4. CASE \E c \in Found(t) :
               /\ buckets' = erase_kv(buckets, c[1], c[2])
               /\ Local(t, [loc[t] EXCEPT !.spot = c])
               /\ Jump(t, "remove_count")
    <2>1. PICK c \in Found(t) :
               /\ buckets' = erase_kv(buckets, c[1], c[2])
               /\ Local(t, [loc[t] EXCEPT !.spot = c])
               /\ Jump(t, "remove_count")
      BY <1>4
    <2>2. c[2] \in Slot /\ AtHome(call[t].key, c[1], hashpower)
      BY <1>2, CellAtHome
    <2>3. None \in Cell
      BY DEF Cell
    <2>. QED BY <1>2, <2>1, <2>2, <2>3, SlotThenCountGood
  <1>. QED BY <1>3, <1>4 DEF remove

\* Put, of insert and recheck.
LEMMA PutGood ==
  ASSUME NEW t \in Thread, IInv, MapInv, guard[t].phase \in {"none", "held"},
         pc[t] \in {"insert", "recheck"}, NEW c,
         c[2] \in Slot, AtHome(call[t].key, c[1], hashpower), Put(t, c),
         UNCHANGED <<hashpower, resize_counter, elem_counter, settings>>
  PROVE  Good(t)
  <1>1. ThreadFits(t) /\ Domains
    BY Knows
  <1>2. call[t] \in BodyCall \cup IterCall /\ call[t].op = "insert"
    BY <1>1 DEF ThreadFits, CallFits, LabelFits
  <1>3. MyItem(t) \in Cell
    BY <1>2, KeyOfCall DEF MyItem, Cell
  <1>4. OthersKeep(ret, ret', t) /\ UNCHANGED callVars
    BY <1>1 DEF Put, Answer, OthersKeep, Domains
  <1>. QED BY <1>3, <1>4, SlotThenCountGood DEF Put

\* A step of an insert that drops its guard and goes on, or starts again.
LEMMA InsertGoesOn ==
  ASSUME NEW t \in Thread, IInv, MapInv, pc[t] \in Inserting \cap (Inside \ {"move_set"}),
         NEW p \in {"insert_hp", "cuckoo_hp", "double"}, p = "cuckoo_hp" => pc[t] \in Indexed,
         Leave(t, p), loc' = loc, UNCHANGED <<callVars, hashpower>>, OthersKeep(ret, ret', t),
         Frame(t), TableTypes'
  PROVE  Good(t)
  <1>1. ThreadFits(t) /\ Domains /\ LocalsFit(loc[t])
    BY Knows
  <1>2. pc'[t] = p /\ call' = call
    BY <1>1 DEF Leave, Goto, Domains, callVars
  <1>3. IndexFits(t)'
    BY <1>1, <1>2 DEF ThreadFits, IndexFits, Spotted
  <1>4. WalkFits(t)'
    BY <1>1, <1>2, WalkIdle DEF ThreadFits, WalkFits
  <1>5. call[t] \in BodyCall \cup IterCall /\ LabelFits(p, call[t].op, loc[t].then)
    BY <1>1 DEF ThreadFits, CallFits, LabelFits
  <1>. QED BY <1>1, <1>3, <1>4, <1>5, LeaveGood

LEMMA InsertGood ==
  ASSUME NEW t \in Thread, IInv, MapInv, insert(t)
  PROVE  Good(t)
  <1>. DEFINE room == free_cell(buckets, loc[t].i1, loc[t].i2)
  <1>1. ThreadFits(t) /\ Domains
    BY Knows
  <1>2. /\ pc[t] = "insert" /\ guard[t].phase \in {"none", "held"}
        /\ UNCHANGED <<hashpower, resize_counter, elem_counter, settings>>
    BY DEF insert, Locked, At
  <1>3. ASSUME NEW c \in Found(t), buckets' = set_kv(buckets, c[1], c[2], MyItem(t)),
               Answer(t, Ok(ValueAt(Found(t)))), Leave(t, "return"), UNCHANGED loc
        PROVE  Good(t)
    <2>1. c[2] \in Slot /\ AtHome(call[t].key, c[1], hashpower)
      BY <1>2, CellAtHome
    <2>2. Writing(t, lock_ind(c[1])) /\ call[t] \in BodyCall \cup IterCall
      BY <1>2, <2>1, GuardCovers
    <2>3. MyItem(t) \in Cell
      BY <1>1, <1>2, <2>2, KeyOfCall DEF ThreadFits, CallFits, LabelFits, MyItem, Cell
    <2>4. Frame(t) /\ TableTypes'
      BY <1>2, <1>3, <2>2, <2>3, SlotWritten
    <2>. QED BY <1>1, <1>2, <1>3, <2>4, AnswerGood DEF Answer, OthersKeep, Domains
  <1>4. ASSUME NEW c \in room, Put(t, c)
        PROVE  Good(t)
    BY <1>2, <1>4, CellAtHome, PutGood
  <1>5. ASSUME Leave(t, "cuckoo_hp"), UNCHANGED <<buckets, threadVars, loc>>
        PROVE  Good(t)
    BY <1>2, <1>5, InsertGoesOn, Untouched DEF threadVars, callVars, tableVars, OthersKeep
  <1>. QED BY <1>3, <1>4, <1>5 DEF insert

LEMMA RecheckGood ==
  ASSUME NEW t \in Thread, IInv, MapInv, recheck(t)
  PROVE  Good(t)
  <1>1. /\ pc[t] = "recheck" /\ guard[t].phase \in {"none", "held"}
        /\ UNCHANGED <<hashpower, resize_counter, elem_counter, settings>>
    BY DEF recheck, Locked, At
  <1>2. CASE Put(t, loc[t].spot)
    <2>1. ThreadFits(t)
      BY Knows
    <2>2. loc[t].spot[2] \in Slot /\ AtHome(call[t].key, loc[t].spot[1], hashpower)
      BY <1>1, <2>1 DEF ThreadFits, IndexFits, Spotted
    <2>. QED BY <1>1, <1>2, <2>2, PutGood
  <1>3. ASSUME NEW p \in {"insert_hp", "double"}, Leave(t, p), UNCHANGED <<buckets, loc, threadVars>>
        PROVE  Good(t)
    BY <1>1, <1>3, InsertGoesOn, Untouched DEF threadVars, callVars, tableVars, OthersKeep
  <1>. QED BY <1>2, <1>3 DEF recheck

LEMMA InsertQuietGood ==
  ASSUME NEW t \in Thread, IInv, MapInv, insert_hp(t) \/ cuckoo_hp(t) \/ recheck_hp(t)
  PROVE  Good(t)
  <1>1. ThreadFits(t) /\ Domains /\ LocalsFit(loc[t])
    BY Knows
  <1>2. call[t] \in BodyCall \cup IterCall /\ call[t].op = "insert" /\ loc[t].walk.carry = None
    BY <1>1 DEF insert_hp, cuckoo_hp, recheck_hp, At, ThreadFits, CallFits, LabelFits, WalkFits
  <1>3. UNCHANGED <<tableVars, callVars>> /\ hashpower' = hashpower
        /\ call' = call /\ OthersKeep(ret, ret', t)
    BY DEF insert_hp, cuckoo_hp, recheck_hp, threadVars, callVars, tableVars, OthersKeep
  <1>4. CASE insert_hp(t)
    <2>. DEFINE l == [NoLocals EXCEPT !.hp0 = hashpower, !.then = "insert"]
    <2>1. pc[t] = "insert_hp" /\ Local(t, l) /\ Jump(t, "snapshot_hp")
      BY <1>4 DEF insert_hp, At
    <2>2. LocalsFit(l) /\ l.then = "insert" /\ l.walk.carry = None
      BY NewLocals, Knows DEF LocalsFit, NoLocals
    <2>. HIDE DEF l
    <2>3. loc'[t] = l /\ pc'[t] = "snapshot_hp"
      BY <1>1, <2>1 DEF Local, Jump, Goto, Domains
    <2>4. IndexFits(t)' /\ WalkFits(t)'
      BY <2>2, <2>3, WalkIdle DEF IndexFits, Spotted
    <2>5. LabelFits("snapshot_hp", call[t].op, l.then)
      BY <1>2, <2>2 DEF LabelFits
    <2>. QED BY <1>2, <1>3, <2>1, <2>2, <2>4, <2>5, QuietGood
  <1>5. CASE cuckoo_hp(t)
    <2>. DEFINE l == [loc[t] EXCEPT !.cuckoo_hp = hashpower]
    <2>1. pc[t] = "cuckoo_hp" /\ Local(t, l) /\ Jump(t, "run_hp")
      BY <1>5 DEF cuckoo_hp, At
    <2>2. /\ LocalsFit(l) /\ l.then = loc[t].then /\ l.walk = loc[t].walk
          /\ l.hp = loc[t].hp /\ l.i1 = loc[t].i1 /\ l.i2 = loc[t].i2
      BY <1>1 DEF LocalsFit, NoLocals
    <2>. HIDE DEF l
    <2>3. loc'[t] = l /\ pc'[t] = "run_hp"
      BY <1>1, <2>1 DEF Local, Jump, Goto, Domains
    <2>4. IndexFits(t)'
      BY <1>1, <1>3, <2>1, <2>2, <2>3 DEF ThreadFits, IndexFits, Spotted
    <2>5. WalkFits(t)'
      BY <1>2, <2>2, <2>3, WalkIdle
    <2>6. LabelFits("run_hp", call[t].op, l.then)
      BY <1>2 DEF LabelFits
    <2>. QED BY <1>2, <1>3, <2>1, <2>2, <2>4, <2>5, <2>6, QuietGood
  <1>6. CASE recheck_hp(t)
    <2>. DEFINE l == [loc[t] EXCEPT !.then = "recheck"]
    <2>1. pc[t] = "recheck_hp"
      BY <1>6 DEF recheck_hp, At
    <2>2. CASE Jump(t, "insert_hp") /\ UNCHANGED loc
      <3>1. loc'[t] = loc[t] /\ pc'[t] = "insert_hp"
        BY <1>1, <2>2 DEF Jump, Goto, Domains
      <3>2. IndexFits(t)' /\ WalkFits(t)'
        BY <1>2, <3>1, WalkIdle DEF IndexFits, Spotted
      <3>3. LabelFits("insert_hp", call[t].op, loc[t].then)
        BY <1>2 DEF LabelFits
      <3>. QED BY <1>1, <1>2, <1>3, <2>1, <2>2, <3>2, <3>3, QuietGood
    <2>3. CASE Local(t, l) /\ Jump(t, "snapshot_hp")
      <3>1. LocalsFit(l) /\ l.then = "recheck" /\ l.walk = loc[t].walk /\ l.spot = loc[t].spot
        BY <1>1 DEF LocalsFit, NoLocals
      <3>2. Local(t, l)
        BY <2>3
      <3>. HIDE DEF l
      <3>3. loc'[t] = l /\ pc'[t] = "snapshot_hp"
        BY <1>1, <2>3 DEF Local, Jump, Goto, Domains
      <3>4. IndexFits(t)' /\ WalkFits(t)'
        BY <1>1, <1>2, <1>3, <2>1, <3>1, <3>3, WalkIdle DEF ThreadFits, IndexFits, Spotted
      <3>5. LabelFits("snapshot_hp", call[t].op, l.then)
        BY <1>2, <3>1 DEF LabelFits
      <3>. QED BY <1>2, <1>3, <2>1, <2>3, <3>1, <3>2, <3>4, <3>5, QuietGood
    <2>. QED BY <1>6, <2>2, <2>3 DEF recheck_hp
  <1>. QED BY <1>4, <1>5, <1>6

-----------------------------------------------------------------------------
(***************************************************************************)
(* run_cuckoo.                                                             *)
(***************************************************************************)
WalkType(w) ==
  DOMAIN w = DOMAIN NoWalk /\ w.queue \in Seq(Entry) /\ w.offset \in Int /\ w.at \in Nat

\* What a step of run_cuckoo knows, and how its walk is replaced.
LEMMA WalkKnows ==
  ASSUME NEW t \in Thread, MapInv, pc[t] \in Cuckoo
  PROVE  /\ ThreadFits(t) /\ TableTypes /\ Domains /\ LocalsFit(loc[t]) /\ WalkType(loc[t].walk)
         /\ call[t] \in BodyCall \cup IterCall /\ call[t].op = "insert" /\ call[t].key \in Key
         /\ hashpower \in Nat /\ InitHashpower \in Nat
         /\ loc[t].hp \in InitHashpower .. hashpower
         /\ loc[t].i1 = Bucket1(loc[t].hp, call[t].key)
         /\ loc[t].i2 = Bucket2(loc[t].hp, call[t].key)
  <1>1. ThreadFits(t) /\ TableTypes /\ Domains /\ LocalsFit(loc[t]) /\ hashpower \in Nat
        /\ InitHashpower \in Nat
    BY Knows
  <1>2. call[t] \in BodyCall \cup IterCall /\ call[t].op = "insert"
    BY <1>1 DEF ThreadFits, CallFits, LabelFits
  <1>3. call[t].key \in Key
    BY <1>2, KeyOfCall
  <1>4. IndexFits(t)
    BY <1>1 DEF ThreadFits
  <1>5. /\ loc[t].hp \in InitHashpower .. hashpower
        /\ loc[t].i1 = Bucket1(loc[t].hp, call[t].key)
        /\ loc[t].i2 = Bucket2(loc[t].hp, call[t].key)
    BY <1>4 DEF IndexFits
  <1>. QED BY <1>1, <1>2, <1>3, <1>5 DEF LocalsFit, WalkType

LEMMA WalkReplaced ==
  ASSUME NEW t \in Thread, MapInv, NEW w, WalkType(w), NEW l, l = [loc[t] EXCEPT !.walk = w]
  PROVE  /\ l.walk = w /\ l.hp = loc[t].hp /\ l.i1 = loc[t].i1 /\ l.i2 = loc[t].i2
         /\ l.then = loc[t].then /\ l.spot = loc[t].spot /\ LocalsFit(l)
  <1>1. LocalsFit(loc[t])
    BY Knows
  <1>. QED BY <1>1 DEF LocalsFit, WalkType, NoLocals

LEMMA WalkStepGood ==
  ASSUME NEW t \in Thread, IInv, MapInv, pc[t] \in Cuckoo \ Inside, NEW p,
         p \in (Cuckoo \ (Inside \cup {"recheck_hp"})) \cup {"double", "panicked"},
         NEW w, WalkType(w), Walk(t, w) \/ (loc' = loc /\ w = loc[t].walk),
         Jump(t, p), UNCHANGED <<tableVars, threadVars>>,
         /\ pc'[t] = p /\ loc'[t].walk = w /\ loc'[t].i1 = loc[t].i1 /\ loc'[t].i2 = loc[t].i2
            /\ hashpower' = hashpower
            => WalkFits(t)'
  PROVE  Good(t)
  <1>1. /\ ThreadFits(t) /\ Domains /\ LocalsFit(loc[t])
        /\ call[t] \in BodyCall \cup IterCall /\ call[t].op = "insert"
    BY WalkKnows
  <1>2. PICK l : /\ Local(t, l) \/ (loc' = loc /\ l = loc[t])
                 /\ l.walk = w /\ l.hp = loc[t].hp /\ l.i1 = loc[t].i1 /\ l.i2 = loc[t].i2
                 /\ LocalsFit(l)
    BY <1>1, WalkReplaced DEF Walk
  <1>3. /\ loc'[t] = l /\ pc'[t] = p /\ call' = call /\ hashpower' = hashpower
        /\ UNCHANGED callVars /\ OthersKeep(ret, ret', t)
    BY <1>1, <1>2 DEF Local, Jump, Goto, Domains, threadVars, callVars, tableVars, OthersKeep
  <1>4. IndexFits(t)'
    BY <1>1, <1>2, <1>3 DEF ThreadFits, IndexFits, Spotted
  <1>5. WalkFits(t)'
    BY <1>2, <1>3
  <1>6. LabelFits(p, call[t].op, l.then)
    BY <1>1 DEF LabelFits
  <1>. QED BY <1>1, <1>2, <1>3, <1>4, <1>5, <1>6, QuietGood

LEMMA RunHpGood ==
  ASSUME NEW t \in Thread, IInv, MapInv, run_hp(t)
  PROVE  Good(t)
  <1>. DEFINE w == [NoWalk EXCEPT !.hp = hashpower]
  <1>1. /\ pc[t] = "run_hp" /\ Walk(t, w) /\ Jump(t, "run_counter")
        /\ UNCHANGED <<tableVars, threadVars>>
    BY DEF run_hp, At
  <1>2. WalkType(w) /\ w.hp = hashpower /\ w.carry = None
    BY DEF WalkType, NoWalk
  <1>. HIDE DEF w
  <1>3. hashpower \in InitHashpower .. hashpower
    BY Knows
  <1>4. ASSUME pc'[t] = "run_counter", loc'[t].walk = w, hashpower' = hashpower
        PROVE  WalkFits(t)'
    BY <1>2, <1>3, <1>4 DEF WalkFits
  <1>. QED BY <1>1, <1>2, <1>4, WalkStepGood

LEMMA StartBuckets ==
  ASSUME NEW t \in Thread, MapInv, pc[t] \in Cuckoo
  PROVE  loc[t].i1 \in Index(hashpower) /\ loc[t].i2 \in Index(hashpower)
         /\ loc[t].i1 \in Nat /\ loc[t].i2 \in Nat
  <1>1. loc[t].hp \in Nat /\ loc[t].hp <= hashpower /\ hashpower \in Nat
    BY WalkKnows
  <1>2. loc[t].i1 \in Index(loc[t].hp) /\ loc[t].i2 \in Index(loc[t].hp)
    BY <1>1, WalkKnows, BucketType
  <1>. QED BY <1>1, <1>2, IndexGrows, IndexType

LEMMA RunCounterGood ==
  ASSUME NEW t \in Thread, IInv, MapInv, run_counter(t)
  PROVE  Good(t)
  <1>. DEFINE e1 == [bucket |-> loc[t].i1, pathcode |-> 0, depth |-> 0]
              e2 == [bucket |-> loc[t].i2, pathcode |-> 1, depth |-> 0]
              q  == <<e1, e2>>
              w  == [loc[t].walk EXCEPT !.counter = resize_counter, !.queue = q, !.last = 2]
  <1>1. /\ pc[t] = "run_counter" /\ Walk(t, w) /\ Jump(t, "slot_search")
        /\ UNCHANGED <<tableVars, threadVars>>
    BY DEF run_counter, At
  <1>2. /\ loc[t].i1 \in Index(hashpower) /\ loc[t].i2 \in Index(hashpower)
        /\ loc[t].i1 \in Nat /\ loc[t].i2 \in Nat
        /\ WalkType(loc[t].walk) /\ ThreadFits(t)
    BY <1>1, StartBuckets, WalkKnows
  <1>3. e1 \in Entry /\ e2 \in Entry
    BY <1>2, TableAssumption DEF Entry
  <1>. HIDE DEF e1, e2
  <1>4. q \in Seq(Entry) /\ q # <<>>
    BY <1>3
  <1>5. \A i \in 1 .. Len(q) : q[i].bucket \in Index(hashpower)
    <2>1. Len(q) = 2 /\ q[1] = e1 /\ q[2] = e2
      OBVIOUS
    <2>2. e1.bucket \in Index(hashpower) /\ e2.bucket \in Index(hashpower)
      BY <1>2 DEF e1, e2
    <2>. QED BY <2>1, <2>2
  <1>. HIDE DEF q
  <1>6. WalkType(w) /\ w.hp = loc[t].walk.hp /\ w.carry = loc[t].walk.carry /\ w.queue = q
    BY <1>2, <1>4 DEF WalkType, NoWalk
  <1>. HIDE DEF w
  <1>7. loc[t].walk.hp \in InitHashpower .. hashpower /\ loc[t].walk.carry = None
    BY <1>1, <1>2 DEF ThreadFits, WalkFits
  <1>8. ASSUME pc'[t] = "slot_search", loc'[t].walk = w, hashpower' = hashpower
        PROVE  WalkFits(t)'
    BY <1>4, <1>5, <1>6, <1>7, <1>8 DEF WalkFits
  <1>. QED BY <1>1, <1>6, <1>8, WalkStepGood

LEMMA SearchCounterGood ==
  ASSUME NEW t \in Thread, IInv, MapInv, search_counter(t)
  PROVE  Good(t)
  <1>. DEFINE m == loc[t].walk
              w == [m EXCEPT !.offset = 0]
  <1>1. pc[t] = "slot_search" /\ UNCHANGED <<tableVars, threadVars>>
    BY DEF search_counter, At
  <1>2. ThreadFits(t) /\ WalkType(m)
    BY <1>1, WalkKnows
  <1>3. m.carry = None
    BY <1>1, <1>2 DEF ThreadFits, WalkFits
  <1>4. CASE Jump(t, "double") /\ UNCHANGED loc
    <2>1. ASSUME pc'[t] = "double", loc'[t].walk = m PROVE WalkFits(t)'
      BY <1>3, <2>1, WalkIdle
    <2>. QED BY <1>1, <1>2, <1>4, <2>1, WalkStepGood
  <1>5. CASE Walk(t, w) /\ Jump(t, "slot_search")
    <2>1. WalkType(w) /\ w.hp = m.hp /\ w.carry = None /\ w.queue = m.queue
      BY <1>2, <1>3 DEF WalkType, NoWalk
    <2>2. Walk(t, w) /\ Jump(t, "slot_search")
      BY <1>5
    <2>. HIDE DEF w
    <2>3. ASSUME pc'[t] = "slot_search", loc'[t].walk = w, hashpower' = hashpower
          PROVE  WalkFits(t)'
      BY <1>1, <1>2, <2>1, <2>3 DEF ThreadFits, WalkFits
    <2>. QED BY <1>1, <2>1, <2>2, <2>3, WalkStepGood
  <1>. QED BY <1>4, <1>5 DEF search_counter, GiveUp

\* The path that a pathcode stands for.
LEMMA PathOfType ==
  ASSUME NEW t, NEW b, b.pathcode \in Nat, b.depth \in Nat,
         loc[t].i1 \in Nat, loc[t].i2 \in Nat
  PROVE  /\ PathOf(t, b) \in [0 .. b.depth -> PathRecord]
         /\ \A i \in 0 .. b.depth : PathOf(t, b)[i].bucket \in {loc[t].i1, loc[t].i2}
  <1>. DEFINE m == SLOT_PER_BUCKET
              c == b.pathcode
              step == [n \in Nat |-> [x \in Nat |-> x \div m]]
              left[n \in Nat] == IF n = 0 THEN c ELSE left[n - 1] \div m
              start == IF left[b.depth + 1] = 0 THEN loc[t].i1 ELSE loc[t].i2
  <1>1. m \in Nat \ {0} /\ c \in Nat
    BY TableAssumption
  <1>2. PathOf(t, b) = [i \in 0 .. b.depth |->
          [bucket |-> start, slot |-> left[b.depth - i] % m, hv |-> None, version |-> None]]
    BY DEF PathOf
  <1>3. start \in {loc[t].i1, loc[t].i2}
    OBVIOUS
  <1>. HIDE DEF m, c, start
  <1>4. \A x \in Nat : x \div m \in Nat /\ x % m \in 0 .. m - 1
    BY <1>1, DivModExists
  <1>5. step \in [Nat -> [Nat -> Nat]] /\ \A n, x \in Nat : step[n][x] = x \div m
    BY <1>4
  <1>. HIDE DEF step
  <1>6. PICK f : Iterates(f, Nat, c, step)
    BY <1>1, <1>5, Iteration, Zenon
  <1>7. f = [n \in Nat |-> IF n = 0 THEN c ELSE f[n - 1] \div m]
    <2>1. f \in [Nat -> Nat] /\ f[0] = c /\ \A n \in Nat : f[n + 1] = step[n][f[n]]
      BY <1>6 DEF Iterates
    <2>2. ASSUME NEW n \in Nat, n # 0 PROVE f[n] = f[n - 1] \div m
      <3>1. n - 1 \in Nat /\ n - 1 + 1 = n
        BY <2>2
      <3>. QED BY <1>5, <2>1, <3>1
    <2>. QED BY <2>1, <2>2
  <1>8. left = [n \in Nat |-> IF n = 0 THEN c ELSE left[n - 1] \div m]
    BY <1>7, Zenon
  <1>. HIDE DEF left
  <1>9. \A n \in Nat : left[n] = IF n = 0 THEN c ELSE left[n - 1] \div m
    BY <1>8, Zenon
  <1>10. \A n \in Nat : left[n] \in Nat
    <2>. DEFINE T == {n \in Nat : left[n] \in Nat}
    <2>1. 0 \in T
      BY <1>1, <1>9
    <2>2. ASSUME NEW n \in Nat, n \in T PROVE n + 1 \in T
      <3>1. PICK k \in Nat : k = n + 1 /\ k # 0 /\ k - 1 = n
        OBVIOUS
      <3>2. left[k] = left[k - 1] \div m
        BY <1>9, <3>1, Zenon
      <3>3. left[k - 1] \in Nat
        BY <2>2, <3>1
      <3>. QED BY <1>4, <3>1, <3>2, <3>3
    <2>. HIDE DEF T
    <2>3. \A n \in Nat : n \in T
      BY <2>1, <2>2, SetInduction
    <2>. QED BY <2>3 DEF T
  <1>11. ASSUME NEW i \in 0 .. b.depth
         PROVE  [bucket |-> start, slot |-> left[b.depth - i] % m, hv |-> None, version |-> None]
                  \in PathRecord
    <2>1. b.depth - i \in Nat
      BY <1>11
    <2>2. left[b.depth - i] % m \in Slot
      BY <1>4, <1>10, <2>1 DEF Slot, m
    <2>. QED BY <1>3, <2>2 DEF PathRecord
  <1>. QED BY <1>2, <1>3, <1>11

\* Its queue holds entries for buckets of the table.
Queue(q) ==
  q \in Seq(Entry) /\ \A i \in 1 .. Len(q) : q[i].bucket \in Index(hashpower)

LEMMA QueueHead ==
  ASSUME NEW q, Queue(q), q # <<>>
  PROVE  /\ Head(q) \in Entry /\ Head(q).bucket \in Index(hashpower)
         /\ Queue(Tail(q)) /\ (Len(q) > 1 => Tail(q) # <<>>)
         /\ \A e \in Entry : e.bucket \in Index(hashpower)
              => Queue(Append(q, e)) /\ Append(q, e) # <<>>
  <1>1. q \in Seq(Entry) /\ Len(q) \in Nat /\ Len(q) # 0
    BY DEF Queue
  <1>2. Head(q) = q[1] /\ 1 \in 1 .. Len(q)
    BY <1>1
  <1>3. /\ Tail(q) \in Seq(Entry) /\ Len(Tail(q)) = Len(q) - 1
        /\ \A i \in 1 .. Len(q) - 1 : Tail(q)[i] = q[i + 1] /\ i + 1 \in 1 .. Len(q)
    BY <1>1
  <1>4. ASSUME NEW e \in Entry, e.bucket \in Index(hashpower)
        PROVE  Queue(Append(q, e)) /\ Append(q, e) # <<>>
    <2>. DEFINE a == Append(q, e)
    <2>1. a \in Seq(Entry) /\ Len(a) = Len(q) + 1
      BY <1>1
    <2>2. \A i \in 1 .. Len(q) : a[i] = q[i]
      BY <1>1
    <2>3. a[Len(q) + 1] = e
      BY <1>1
    <2>4. \A i \in 1 .. Len(a) : i \in 1 .. Len(q) \/ i = Len(q) + 1
      BY <1>1, <2>1
    <2>. HIDE DEF a
    <2>5. a # <<>>
      BY <1>1, <2>1
    <2>6. \A i \in 1 .. Len(a) : a[i].bucket \in Index(hashpower)
      BY <1>4, <2>2, <2>3, <2>4 DEF Queue
    <2>. QED BY <2>1, <2>5, <2>6 DEF Queue, a
  <1>5. Head(q) \in Entry /\ Head(q).bucket \in Index(hashpower)
    BY <1>1, <1>2 DEF Queue
  <1>6. Queue(Tail(q))
    BY <1>1, <1>3 DEF Queue
  <1>7. Len(q) > 1 => Tail(q) # <<>>
    <2>1. Tail(q) = <<>> => Len(Tail(q)) = 0
      OBVIOUS
    <2>. QED BY <1>1, <1>3, <2>1
  <1>. QED BY <1>4, <1>5, <1>6, <1>7

\* The labels of slot_search while it scans a bucket.
Search == {"slot_search", "search_partial"}

\* What a scan knows of its walk and of the bucket it is in, with v for the
\* walk and x for the head of its queue.
LEMMA ScanKnows ==
  ASSUME NEW t \in Thread, MapInv, pc[t] \in Search, loc[t].walk.offset >= 0,
         NEW v, WalkType(v), v.queue = loc[t].walk.queue, v.offset = loc[t].walk.offset,
         NEW x, x = Head(v.queue)
  PROVE  /\ loc[t].walk.hp \in InitHashpower .. hashpower /\ loc[t].walk.carry = None
         /\ loc[t].walk.hp \in Nat /\ loc[t].walk.hp <= hashpower
         /\ Queue(v.queue) /\ v.queue # <<>>
         /\ x \in Entry /\ x.bucket \in Index(hashpower) /\ x.bucket \in Nat
         /\ x.pathcode \in Nat /\ x.depth \in 0 .. MAX_BFS_PATH_LEN - 1
         /\ Extended(v) \in Nat
  <1>. DEFINE w == loc[t].walk
  <1>1. /\ ThreadFits(t) /\ WalkType(w) /\ hashpower \in Nat /\ InitHashpower \in Nat
    BY WalkKnows DEF Search
  <1>2. /\ w.hp \in InitHashpower .. hashpower /\ w.carry = None
        /\ Queue(v.queue) /\ v.queue # <<>>
    BY <1>1 DEF ThreadFits, WalkFits, WalkType, Queue, Search
  <1>3. w.hp \in Nat /\ w.hp <= hashpower
    <2>. HIDE DEF w
    <2>. QED BY <1>1, <1>2
  <1>4. x \in Entry /\ x.bucket \in Index(hashpower)
    BY <1>2, QueueHead
  <1>5. x.pathcode \in Nat /\ x.bucket \in Nat /\ x.depth \in 0 .. MAX_BFS_PATH_LEN - 1
    BY <1>4 DEF Entry
  <1>6. ScannedSlot(v) \in Nat
    <2>. DEFINE n == x.pathcode + v.offset
    <2>1. v.offset \in Int /\ v.offset >= 0 /\ SLOT_PER_BUCKET \in Nat \ {0}
      BY TableAssumption DEF WalkType
    <2>2. n \in Nat
      BY <1>5, <2>1
    <2>. HIDE DEF n
    <2>3. n % SLOT_PER_BUCKET \in 0 .. SLOT_PER_BUCKET - 1
      BY <2>1, <2>2, DivModExists
    <2>4. n % SLOT_PER_BUCKET \in Nat
      BY <2>1, <2>3
    <2>. QED BY <2>4 DEF n, ScannedSlot
  <1>7. Extended(v) \in Nat
    <2>. DEFINE n == ScannedSlot(v)
    <2>1. Extended(v) = x.pathcode * SLOT_PER_BUCKET + n
      BY DEF Extended
    <2>2. n \in Nat
      BY <1>6
    <2>. HIDE DEF n
    <2>. QED BY <1>5, <2>1, <2>2, TableAssumption
  <1>. QED BY <1>2, <1>3, <1>4, <1>5, <1>7, Zenon

\* On to the next slot or bucket, or the end of the search, with walk v.
LEMMA ScanOnGood ==
  ASSUME NEW t \in Thread, IInv, MapInv, pc[t] \in Search, UNCHANGED <<tableVars, threadVars>>,
         NEW v, WalkType(v), v.hp = loc[t].walk.hp, v.hp \in InitHashpower .. hashpower,
         v.carry = None, loc[t].walk.carry = None, Queue(v.queue), v.queue # <<>>, ScanOn(t, v)
  PROVE  Good(t)
  <1>. DEFINE next == [v EXCEPT !.offset = v.offset + 1]
              over == [v EXCEPT !.queue = Tail(v.queue), !.offset = -1]
  <1>1. \/ Walk(t, next) /\ Jump(t, "slot_search")
        \/ Len(v.queue) > 1 /\ Walk(t, over) /\ Jump(t, "slot_search")
        \/ UNCHANGED loc /\ Jump(t, "double")
    BY Zenon DEF ScanOn, GiveUp
  <1>2. pc[t] \in Cuckoo \ Inside
    BY DEF Search
  <1>3. CASE UNCHANGED loc /\ Jump(t, "double")
    <2>1. ASSUME pc'[t] = "double", loc'[t].walk = loc[t].walk PROVE WalkFits(t)'
      BY <2>1, WalkIdle DEF Search
    <2>2. WalkType(loc[t].walk)
      BY <1>2, WalkKnows
    <2>. QED BY <1>2, <1>3, <2>1, <2>2, WalkStepGood
  <1>4. ASSUME NEW u, Walk(t, u), Jump(t, "slot_search"),
               u = next \/ (u = over /\ Len(v.queue) > 1)
        PROVE  Good(t)
    <2>1. /\ DOMAIN u = DOMAIN NoWalk /\ u.hp = v.hp /\ u.carry = None /\ u.at = v.at
          /\ u.offset = v.offset + 1 \/ u.offset = -1
          /\ u.queue = v.queue \/ (u.queue = Tail(v.queue) /\ Len(v.queue) > 1)
      BY <1>4 DEF WalkType, NoWalk
    <2>2. Queue(u.queue) /\ u.queue # <<>>
      BY <2>1, QueueHead
    <2>3. WalkType(u)
      BY <2>1, <2>2 DEF WalkType, Queue
    <2>. HIDE DEF next, over
    <2>4. ASSUME pc'[t] = "slot_search", loc'[t].walk = u, hashpower' = hashpower
          PROVE  WalkFits(t)'
      BY <2>1, <2>2, <2>4 DEF WalkFits, Queue, Search
    <2>5. "slot_search" \in Cuckoo \ (Inside \cup {"recheck_hp"})
      BY DEF Search
    <2>. QED BY <1>2, <1>4, <2>3, <2>4, <2>5, WalkStepGood
  <1>. QED BY <1>1, <1>3, <1>4, Zenon

\* An empty slot: the path that leads to it, y for its entry in the queue.
LEMMA SearchFoundGood ==
  ASSUME NEW t \in Thread, IInv, MapInv, pc[t] = "slot_search", UNCHANGED <<tableVars, threadVars>>,
         NEW w, w = loc[t].walk, w.hp \in InitHashpower .. hashpower,
         NEW y, y.pathcode \in Nat, y.depth \in 0 .. MAX_BFS_PATH_LEN - 1,
         Walk(t, [NoWalk EXCEPT !.hp = w.hp, !.counter = w.counter, !.path = PathOf(t, y)]),
         Jump(t, "path_counter")
  PROVE  Good(t)
  <1>. DEFINE d == y.depth
              f == [NoWalk EXCEPT !.hp = w.hp, !.counter = w.counter, !.path = PathOf(t, y)]
  <1>1. /\ loc[t].i1 \in Index(hashpower) /\ loc[t].i2 \in Index(hashpower)
        /\ loc[t].i1 \in Nat /\ loc[t].i2 \in Nat
    BY StartBuckets DEF Search
  <1>2. /\ PathOf(t, y) \in [0 .. d -> PathRecord]
        /\ \A i \in 0 .. d : PathOf(t, y)[i].bucket \in {loc[t].i1, loc[t].i2}
    <2>1. d \in Nat
      BY TableAssumption
    <2>. QED BY <1>1, <2>1, PathOfType
  <1>3. /\ DOMAIN f = DOMAIN NoWalk /\ f.hp = w.hp /\ f.path = PathOf(t, y)
        /\ f.at = 0 /\ f.carry = None /\ f.queue = <<>> /\ f.offset = -1
    BY DEF NoWalk
  <1>4. Walk(t, f)
    OBVIOUS
  <1>5. 0 \in 0 .. d /\ d \in 0 .. MAX_BFS_PATH_LEN - 1
    BY TableAssumption
  <1>. HIDE DEF f, d
  <1>6. ASSUME pc'[t] = "path_counter", loc'[t].walk = f, hashpower' = hashpower,
               loc'[t].i1 = loc[t].i1, loc'[t].i2 = loc[t].i2
        PROVE  WalkFits(t)'
    <2>. DEFINE p == PathOf(t, y)
    <2>1. f.hp = w.hp /\ f.path = p /\ f.at = 0 /\ f.carry = None
      BY <1>3
    <2>2. p \in [0 .. d -> PathRecord] /\ \A i \in 0 .. d : p[i].bucket \in {loc[t].i1, loc[t].i2}
      BY <1>2
    <2>. HIDE DEF p
    <2>3. DOMAIN p = 0 .. d /\ \A i \in DOMAIN p : p[i].bucket \in Index(hashpower)
      BY <1>1, <2>2
    <2>4. Linked(f)
      BY <2>1, <2>3 DEF Linked
    <2>5. PathFits(t)'
      BY <1>5, <1>6, <2>1, <2>2, <2>3, <2>4 DEF PathFits, Linked
    <2>. QED BY <1>6, <2>1, <2>5 DEF WalkFits, Search
  <1>7. WalkType(f)
    BY <1>3 DEF WalkType
  <1>8. "path_counter" \in Cuckoo \ (Inside \cup {"recheck_hp"}) /\ "slot_search" \in Cuckoo \ Inside
    BY DEF Search
  <1>. QED BY <1>4, <1>6, <1>7, <1>8, WalkStepGood

LEMMA SearchSlotGood ==
  ASSUME NEW t \in Thread, IInv, MapInv, search_slot(t)
  PROVE  Good(t)
  <1>. DEFINE w == loc[t].walk
              v == [w EXCEPT !.seen = IF w.offset = 0 THEN hashpower ELSE w.seen]
              x == Head(v.queue)
              y == [x EXCEPT !.pathcode = Extended(v)]
  <1>1. /\ pc[t] = "slot_search" /\ w.offset >= 0
        /\ UNCHANGED <<tableVars, threadVars>>
        /\ \/ /\ Walk(t, [NoWalk EXCEPT !.hp = v.hp, !.counter = v.counter, !.path = PathOf(t, y)])
              /\ Jump(t, "path_counter")
           \/ SearchDeeper(x) /\ Walk(t, v) /\ Jump(t, "search_partial")
           \/ ScanOn(t, v)
    BY Zenon DEF search_slot, At
  <1>2. WalkType(w) /\ pc[t] \in Search /\ pc[t] \in Cuckoo \ Inside
    <2>1. pc[t] \in Search /\ pc[t] \in Cuckoo \ Inside
      BY <1>1 DEF Search
    <2>. QED BY <2>1, WalkKnows, Zenon
  <1>3. /\ WalkType(v) /\ v.queue = w.queue /\ v.offset = w.offset /\ v.hp = w.hp
        /\ v.counter = w.counter /\ v.carry = w.carry
    BY <1>2 DEF WalkType, NoWalk
  <1>. HIDE DEF v
  <1>4. /\ w.hp \in InitHashpower .. hashpower /\ w.carry = None
        /\ Queue(v.queue) /\ v.queue # <<>> /\ x \in Entry
        /\ x.depth \in 0 .. MAX_BFS_PATH_LEN - 1 /\ Extended(v) \in Nat
    BY <1>1, <1>2, <1>3, ScanKnows
  <1>5. CASE ScanOn(t, v)
    BY <1>1, <1>2, <1>3, <1>4, <1>5, ScanOnGood
  <1>6. CASE SearchDeeper(x) /\ Walk(t, v) /\ Jump(t, "search_partial")
    <2>1. ASSUME pc'[t] = "search_partial", loc'[t].walk = v, hashpower' = hashpower
          PROVE  WalkFits(t)'
      BY <1>1, <1>3, <1>4, <1>6, <2>1 DEF WalkFits, Queue, Search, SearchDeeper
    <2>2. "search_partial" \in Cuckoo \ (Inside \cup {"recheck_hp"})
      BY DEF Search
    <2>. QED BY <1>1, <1>2, <1>3, <1>6, <2>1, <2>2, WalkStepGood
  <1>7. ASSUME Walk(t, [NoWalk EXCEPT !.hp = v.hp, !.counter = v.counter, !.path = PathOf(t, y)]),
               Jump(t, "path_counter")
        PROVE  Good(t)
    <2>1. y.pathcode = Extended(v) /\ y.depth = x.depth
      BY <1>4 DEF Entry
    <2>2. Walk(t, [NoWalk EXCEPT !.hp = w.hp, !.counter = w.counter, !.path = PathOf(t, y)])
      BY <1>3, <1>7
    <2>. HIDE DEF x, y
    <2>. QED BY <1>1, <1>4, <1>7, <2>1, <2>2, SearchFoundGood, Zenon
  <1>. QED BY <1>1, <1>5, <1>6, <1>7, Zenon

\* What a scan appends to its queue, for the item it has read.
LEMMA AppendedGood ==
  ASSUME MapInv, NEW n \in Nat, n <= hashpower, hashpower \in Nat, NEW cell \in Item,
         NEW x \in Entry, SearchDeeper(x), NEW code \in Nat,
         NEW alt, alt = [bucket   |-> alt_index(n, hash_key[cell.key].partial, x.bucket),
                         pathcode |-> code, depth |-> x.depth + 1]
  PROVE  alt \in Entry /\ alt.bucket \in Index(hashpower)
  <1>1. cell.key \in Key
    BY DEF Item
  <1>2. hash_key[cell.key].partial \in Nat
    BY <1>1, HashKeyType, Zenon
  <1>3. x.bucket \in Nat /\ x.depth \in 0 .. MAX_BFS_PATH_LEN - 1
    BY DEF Entry
  <1>4. alt.bucket \in 0 .. hashsize(n) - 1
    BY <1>2, <1>3, AltIndex
  <1>5. alt.bucket \in Index(hashpower) /\ alt.bucket \in Nat
    BY <1>4, IndexGrows, IndexType DEF Index
  <1>6. x.depth + 1 \in 0 .. MAX_BFS_PATH_LEN - 1
    BY <1>3, TableAssumption DEF SearchDeeper
  <1>. QED BY <1>5, <1>6 DEF Entry

LEMMA SearchPartialGood ==
  ASSUME NEW t \in Thread, IInv, MapInv, search_partial(t)
  PROVE  Good(t)
  <1>. DEFINE w == loc[t].walk
              x == Head(w.queue)
              Alt(cell) == [bucket   |-> alt_index(w.hp, hash_key[cell.key].partial, x.bucket),
                            pathcode |-> Extended(w), depth |-> x.depth + 1]
              More(cell) == [w EXCEPT !.queue = Append(w.queue, Alt(cell)), !.last = w.last + 1]
  <1>1. /\ pc[t] = "search_partial" /\ UNCHANGED <<tableVars, threadVars>>
        /\ \/ ScanOn(t, w)
           \/ \E cell \in Cell : cell # None /\ ScanOn(t, More(cell))
    BY Zenon DEF search_partial, At
  <1>2. ThreadFits(t) /\ WalkType(w) /\ hashpower \in Nat /\ pc[t] \in Search
    <2>1. pc[t] \in Search /\ pc[t] \in Cuckoo
      BY <1>1 DEF Search
    <2>. QED BY <2>1, WalkKnows, Zenon
  <1>3. w.offset >= 0 /\ SearchDeeper(x)
    BY <1>1, <1>2 DEF ThreadFits, WalkFits
  <1>4. /\ w.hp \in InitHashpower .. hashpower /\ w.carry = None
        /\ w.hp \in Nat /\ w.hp <= hashpower
        /\ Queue(w.queue) /\ w.queue # <<>> /\ x \in Entry /\ Extended(w) \in Nat
    BY <1>2, <1>3, ScanKnows
  <1>5. CASE ScanOn(t, w)
    BY <1>1, <1>2, <1>4, <1>5, ScanOnGood, Zenon
  <1>6. ASSUME NEW cell \in Cell, cell # None, ScanOn(t, More(cell)) PROVE Good(t)
    <2>. DEFINE alt == Alt(cell)
                v   == More(cell)
    <2>1. alt \in Entry /\ alt.bucket \in Index(hashpower)
      <3>1. cell \in Item
        BY <1>6 DEF Cell
      <3>. QED BY <1>2, <1>3, <1>4, <3>1, AppendedGood
    <2>2. v = [w EXCEPT !.queue = Append(w.queue, alt), !.last = w.last + 1] /\ ScanOn(t, v)
      BY <1>6
    <2>. HIDE DEF alt, v
    <2>3. Queue(Append(w.queue, alt)) /\ Append(w.queue, alt) # <<>>
      BY <1>4, <2>1, QueueHead
    <2>4. /\ WalkType(v) /\ v.hp = w.hp /\ v.carry = None /\ v.queue = Append(w.queue, alt)
      BY <1>2, <1>4, <2>2, <2>3 DEF WalkType, NoWalk, Queue
    <2>. HIDE DEF w
    <2>. QED BY <1>1, <1>2, <1>4, <2>2, <2>3, <2>4, ScanOnGood DEF w
  <1>. QED BY <1>1, <1>5, <1>6, Zenon

\* A step along the path that changes nothing.
LEMMA PathStaysGood ==
  ASSUME NEW t \in Thread, IInv, MapInv, pc[t] \in OnPath \ Inside, NEW p,
         p \in {"double", "run_hp", "panicked", "path_version", "path_key",
                "claim_version", "from_version", "to_version"},
         p \in Hopping => loc[t].walk.at # 0,
         loc' = loc, Jump(t, p), UNCHANGED <<tableVars, threadVars>>
  PROVE  Good(t)
  <1>1. ThreadFits(t) /\ WalkType(loc[t].walk) /\ Domains
    BY WalkKnows
  <1>2. /\ PathFits(t) /\ loc[t].walk.carry = None
        /\ loc[t].walk.hp \in InitHashpower .. hashpower
    BY <1>1 DEF ThreadFits, WalkFits
  <1>3. loc'[t] = loc[t] /\ pc'[t] = p /\ hashpower' = hashpower
    BY <1>1 DEF Jump, Goto, Domains, tableVars
  <1>4. PathFits(t)'
    BY <1>2, <1>3 DEF PathFits, Linked
  <1>5. WalkFits(t)'
    BY <1>2, <1>3, <1>4 DEF WalkFits
  <1>. QED BY <1>1, <1>5, WalkStepGood

LEMMA PathQuietGood ==
  ASSUME NEW t \in Thread, IInv, MapInv,
         path_counter(t) \/ from_version(t)
  PROVE  Good(t)
  <1>1. CASE path_counter(t)
    BY <1>1, PathStaysGood DEF path_counter, At, GiveUp
  <1>2. CASE from_version(t)
    <2>1. pc[t] = "from_version" /\ ThreadFits(t)
      BY <1>2, Knows DEF from_version, At
    <2>2. loc[t].walk.at # 0
      BY <2>1 DEF ThreadFits, WalkFits
    <2>. QED BY <1>2, <2>1, <2>2, PathStaysGood DEF from_version
  <1>. QED BY <1>1, <1>2

\* The path at hand, and a record of it.
LEMMA PathKnows ==
  ASSUME NEW t \in Thread, MapInv, pc[t] \in OnPath, NEW w, w = loc[t].walk
  PROVE  /\ PathFits(t) /\ w.hp \in InitHashpower .. hashpower /\ w.hp \in Nat
         /\ w.at \in Nat /\ w.at \in DOMAIN w.path /\ 0 \in DOMAIN w.path
         /\ \E d \in 0 .. MAX_BFS_PATH_LEN - 1 :
              w.path \in [0 .. d -> PathRecord] /\ w.at <= d
         /\ \A i \in DOMAIN w.path :
              /\ w.path[i] \in PathRecord /\ w.path[i].bucket \in Index(hashpower)
              /\ w.path[i].bucket \in Nat /\ w.path[i].slot \in Slot
         /\ w.path[0].bucket \in {loc[t].i1, loc[t].i2}
  <1>1. ThreadFits(t) /\ WalkType(w) /\ hashpower \in Nat /\ InitHashpower \in Nat
    BY WalkKnows
  <1>2. PathFits(t) /\ w.hp \in InitHashpower .. hashpower /\ w.at \in Nat
    BY <1>1 DEF ThreadFits, WalkFits, WalkType
  <1>3. PICK d \in 0 .. MAX_BFS_PATH_LEN - 1 : w.path \in [0 .. d -> PathRecord] /\ w.at <= d
    BY <1>2 DEF PathFits
  <1>4. \A i \in DOMAIN w.path : w.path[i].bucket \in Index(hashpower)
    BY <1>2 DEF PathFits
  <1>5. w.path[0].bucket \in {loc[t].i1, loc[t].i2}
    BY <1>2 DEF PathFits
  <1>6. DOMAIN w.path = 0 .. d /\ 0 \in 0 .. d /\ w.at \in 0 .. d
    BY <1>2, <1>3, TableAssumption
  <1>7. \A i \in DOMAIN w.path : w.path[i] \in PathRecord
    BY <1>3, <1>6
  <1>8. \A i \in DOMAIN w.path : w.path[i].bucket \in Nat /\ w.path[i].slot \in Slot
    BY <1>7 DEF PathRecord
  <1>9. w.hp \in Nat
    BY <1>1, <1>2
  <1>10. w.at \in DOMAIN w.path /\ 0 \in DOMAIN w.path
    BY <1>6
  <1>. QED BY <1>2, <1>3, <1>4, <1>5, <1>7, <1>8, <1>9, <1>10, Zenon

\* A step along the path that notes something down in it.
LEMMA PathNotedGood ==
  ASSUME NEW t \in Thread, IInv, MapInv, NEW p,
         pc[t] \in {"path_version", "path_occupied", "path_key"},
         p \in {"path_occupied", "path_key", "path_counter", "claim_version", "from_version"},
         NEW w, Walk(t, w), WalkType(w), w.hp = loc[t].walk.hp, w.carry = None,
         p \in Hopping => w.at # 0,
         Jump(t, p), UNCHANGED <<tableVars, threadVars>>,
         \E d \in 0 .. MAX_BFS_PATH_LEN - 1 : w.path \in [0 .. d -> PathRecord] /\ w.at <= d,
         \A i \in DOMAIN w.path : w.path[i].bucket \in Index(hashpower),
         w.path[0].bucket \in {loc[t].i1, loc[t].i2}, Linked(w)
  PROVE  Good(t)
  <1>1. w.hp \in InitHashpower .. hashpower
    BY PathKnows
  <1>2. ASSUME pc'[t] = p, loc'[t].walk = w, loc'[t].i1 = loc[t].i1, loc'[t].i2 = loc[t].i2,
               hashpower' = hashpower
        PROVE  WalkFits(t)'
    <2>1. PathFits(t)'
      BY <1>2 DEF PathFits, Linked
    <2>. QED BY <1>1, <1>2, <2>1 DEF WalkFits
  <1>. QED BY <1>2, WalkStepGood

LEMMA RecordFields ==
  ASSUME NEW r \in PathRecord
  PROVE  /\ \A v \in Nat \cup {None} : LET q == [r EXCEPT !.version = v] IN
              q \in PathRecord /\ q.bucket = r.bucket /\ q.hv = r.hv
         /\ \A h \in Hashes : LET q == [r EXCEPT !.hv = h] IN
              q \in PathRecord /\ q.bucket = r.bucket /\ q.hv = h
         /\ \A b \in Nat : LET q == [r EXCEPT !.bucket = b] IN
              q \in PathRecord /\ q.bucket = b /\ q.hv = r.hv
         /\ \A h \in Hashes \cup {None} : LET q == [r EXCEPT !.hv = h, !.version = None] IN
              q \in PathRecord /\ q.bucket = r.bucket /\ q.hv = h
  BY DEF PathRecord

LEMMA PathVersionGood ==
  ASSUME NEW t \in Thread, IInv, MapInv, path_version(t)
  PROVE  Good(t)
  <1>. DEFINE w  == loc[t].walk
              n  == w.at
              v  == version[lock_ind(w.path[n].bucket)]
              r2 == [w.path[n] EXCEPT !.version = v]
              p2 == [w.path EXCEPT ![n] = r2]
              w2 == [w EXCEPT !.path = p2]
  <1>1. /\ pc[t] = "path_version" /\ Walk(t, w2) /\ Jump(t, "path_occupied")
        /\ UNCHANGED <<tableVars, threadVars>>
    BY Zenon DEF path_version, At
  <1>2. ThreadFits(t) /\ WalkType(w)
    BY <1>1, WalkKnows, Zenon
  <1>3. w.carry = None /\ Linked(w)
    BY <1>1, <1>2, Zenon DEF ThreadFits, WalkFits, PathFits
  <1>4. PICK d \in 0 .. MAX_BFS_PATH_LEN - 1 : w.path \in [0 .. d -> PathRecord] /\ n <= d
    BY <1>1, PathKnows
  <1>5. /\ n \in 0 .. d /\ n \in Nat /\ d \in Nat /\ 0 \in 0 .. d
        /\ \A i \in 0 .. d : w.path[i].bucket \in Index(hashpower) /\ w.path[i].bucket \in Nat
        /\ w.path[0].bucket \in {loc[t].i1, loc[t].i2}
    <2>1. /\ n \in Nat /\ \A i \in DOMAIN w.path :
               w.path[i].bucket \in Index(hashpower) /\ w.path[i].bucket \in Nat
          /\ w.path[0].bucket \in {loc[t].i1, loc[t].i2}
      BY <1>1, PathKnows, Zenon
    <2>2. DOMAIN w.path = 0 .. d /\ n \in 0 .. d /\ d \in Nat /\ 0 \in 0 .. d
      BY <1>4, <2>1, TableAssumption
    <2>. QED BY <2>1, <2>2, Zenon
  <1>6. v \in Nat
    BY <1>5, LockIndType DEF IInv, LocksTypeOK
  <1>. HIDE DEF v
  <1>7. r2 \in PathRecord /\ r2.bucket = w.path[n].bucket /\ r2.hv = w.path[n].hv
    BY <1>4, <1>5, <1>6, RecordFields, Zenon
  <1>. HIDE DEF r2
  <1>8. /\ p2 \in [0 .. d -> PathRecord] /\ p2[n] = r2
        /\ \A j \in 0 .. d : j # n => p2[j] = w.path[j]
    BY <1>4, <1>5, <1>7
  <1>. HIDE DEF p2
  <1>9. \A j \in 0 .. d : p2[j].bucket = w.path[j].bucket /\ p2[j].hv = w.path[j].hv
    BY <1>7, <1>8
  <1>10. /\ WalkType(w2) /\ w2.hp = w.hp /\ w2.carry = None /\ w2.path = p2 /\ w2.at = n
    BY <1>2, <1>3 DEF WalkType, NoWalk
  <1>. HIDE DEF w2
  <1>11. Linked(w2)
    <2> SUFFICES ASSUME NEW i \in 0 .. d, i < n, p2[i].hv # None
                 PROVE  p2[i + 1].bucket = alt_index(w.hp, p2[i].hv.partial, p2[i].bucket)
      BY <1>8, <1>10 DEF Linked
    <2>1. i + 1 \in 0 .. d /\ i \in DOMAIN w.path
      BY <1>4, <1>5
    <2>2. w.path[i + 1].bucket = alt_index(w.hp, w.path[i].hv.partial, w.path[i].bucket)
      BY <1>3, <1>9, <2>1 DEF Linked
    <2>. QED BY <1>9, <2>1, <2>2
  <1>12. /\ DOMAIN w2.path = 0 .. d
         /\ \A i \in DOMAIN w2.path : w2.path[i].bucket \in Index(hashpower)
         /\ w2.path[0].bucket \in {loc[t].i1, loc[t].i2}
    BY <1>5, <1>8, <1>9, <1>10
  <1>13. w2.path \in [0 .. d -> PathRecord] /\ w2.at <= d
    BY <1>4, <1>8, <1>10
  <1>. QED BY <1>1, <1>10, <1>11, <1>12, <1>13, PathNotedGood, Zenon

LEMMA PathOccupiedGood ==
  ASSUME NEW t \in Thread, IInv, MapInv, path_occupied(t)
  PROVE  Good(t)
  <1>. DEFINE w  == loc[t].walk
              w2 == [w EXCEPT !.seen = hashpower]
  <1>1. /\ pc[t] = "path_occupied" /\ Walk(t, w2) /\ UNCHANGED <<tableVars, threadVars>>
        /\ Jump(t, "path_key") \/ Jump(t, StartMove(t))
    BY Zenon DEF path_occupied, At
  <1>2. ThreadFits(t) /\ WalkType(w)
    BY <1>1, WalkKnows, Zenon
  <1>3. w.carry = None /\ Linked(w)
    BY <1>1, <1>2, Zenon DEF ThreadFits, WalkFits, PathFits
  <1>4. /\ \E d \in 0 .. MAX_BFS_PATH_LEN - 1 : w.path \in [0 .. d -> PathRecord] /\ w.at <= d
        /\ \A i \in DOMAIN w.path : w.path[i].bucket \in Index(hashpower)
        /\ w.path[0].bucket \in {loc[t].i1, loc[t].i2}
    BY <1>1, PathKnows
  <1>5. /\ WalkType(w2) /\ w2.hp = w.hp /\ w2.carry = None /\ w2.path = w.path /\ w2.at = w.at
    BY <1>2, <1>3 DEF WalkType, NoWalk
  <1>6. PICK p \in {"path_key", "claim_version", "from_version"} :
          Jump(t, p) /\ (p \in Hopping => w.at # 0)
    BY <1>1 DEF StartMove
  <1>. HIDE DEF w2
  <1>7. Linked(w2)
    BY <1>3, <1>5 DEF Linked
  <1>. HIDE DEF w
  <1>8. /\ \E d \in 0 .. MAX_BFS_PATH_LEN - 1 : w2.path \in [0 .. d -> PathRecord] /\ w2.at <= d
        /\ \A i \in DOMAIN w2.path : w2.path[i].bucket \in Index(hashpower)
        /\ w2.path[0].bucket \in {loc[t].i1, loc[t].i2}
        /\ p \in Hopping => w2.at # 0
    BY <1>4, <1>5, <1>6
  <1>. QED BY <1>1, <1>5, <1>6, <1>7, <1>8, PathNotedGood DEF w

\* path_key with the cell that is read.
KeyRead(t, cell) ==
  LET w    == loc[t].walk
      hv   == hash_key[cell.key]
      here == [w.path EXCEPT ![w.at] = [w.path[w.at] EXCEPT !.hv = hv]]
      next == alt_index(w.hp, hv.partial, Record(t).bucket)
  IN  IF cell = None THEN Jump(t, "panicked") /\ UNCHANGED loc
      ELSE IF w.at + 1 \in DOMAIN w.path
      THEN /\ Walk(t, [w EXCEPT !.at = w.at + 1, !.path =
                [here EXCEPT ![w.at + 1] = [here[w.at + 1] EXCEPT !.bucket = next]]])
           /\ Jump(t, "path_counter")
      ELSE Walk(t, [w EXCEPT !.path = here]) /\ Jump(t, StartMove(t))

LEMMA KeyReadGood ==
  ASSUME NEW t \in Thread, IInv, MapInv, pc[t] = "path_key", UNCHANGED <<tableVars, threadVars>>,
         NEW cell \in Cell, KeyRead(t, cell)
  PROVE  Good(t)
  <1>. DEFINE w    == loc[t].walk
              n    == w.at
              r    == w.path[n]
              hv   == hash_key[cell.key]
              h    == [r EXCEPT !.hv = hv]
              here == [w.path EXCEPT ![n] = h]
              next == alt_index(w.hp, hv.partial, r.bucket)
              g    == [here[n + 1] EXCEPT !.bucket = next]
              on   == [here EXCEPT ![n + 1] = g]
              w1   == [w EXCEPT !.path = here]
              w2   == [w EXCEPT !.at = n + 1, !.path = on]
  <1>1. /\ pc[t] = "path_key" /\ UNCHANGED <<tableVars, threadVars>>
        /\ \/ cell = None /\ Jump(t, "panicked") /\ UNCHANGED loc
           \/ cell # None /\ n + 1 \in DOMAIN w.path /\ Walk(t, w2) /\ Jump(t, "path_counter")
           \/ cell # None /\ Walk(t, w1) /\ Jump(t, StartMove(t))
    BY Zenon DEF KeyRead, Record
  <1>2. ThreadFits(t) /\ TableTypes /\ WalkType(w) /\ hashpower \in Nat
    BY <1>1, WalkKnows, Zenon
  <1>3. w.carry = None /\ Linked(w)
    BY <1>1, <1>2, Zenon DEF ThreadFits, WalkFits, PathFits
  <1>4. PICK d \in 0 .. MAX_BFS_PATH_LEN - 1 : w.path \in [0 .. d -> PathRecord] /\ n <= d
    BY <1>1, PathKnows, Zenon
  <1>5. /\ n \in 0 .. d /\ n \in Nat /\ d \in Nat /\ 0 \in 0 .. d
        /\ \A i \in 0 .. d : w.path[i].bucket \in Index(hashpower) /\ w.path[i].bucket \in Nat
        /\ w.path[0].bucket \in {loc[t].i1, loc[t].i2} /\ r.slot \in Slot
        /\ w.hp \in Nat /\ w.hp <= hashpower
    <2>1. /\ n \in Nat /\ \A i \in DOMAIN w.path :
               /\ w.path[i].bucket \in Index(hashpower) /\ w.path[i].bucket \in Nat
               /\ w.path[i].slot \in Slot
          /\ w.path[0].bucket \in {loc[t].i1, loc[t].i2}
          /\ w.hp \in InitHashpower .. hashpower /\ w.hp \in Nat
      BY <1>1, PathKnows, Zenon
    <2>2. DOMAIN w.path = 0 .. d /\ n \in 0 .. d /\ d \in Nat /\ 0 \in 0 .. d
      BY <1>4, <2>1, TableAssumption
    <2>3. w.hp <= hashpower
      BY <1>2, <2>1, Knows
    <2>. QED BY <2>1, <2>2, <2>3, Zenon
  <1>6. ASSUME cell = None, Jump(t, "panicked"), UNCHANGED loc PROVE Good(t)
    BY <1>1, <1>6, PathStaysGood
  <1>7. ASSUME cell # None
        PROVE  /\ hv \in Hashes /\ next \in Index(hashpower) /\ next \in Nat
    <2>1. cell \in Item
      BY <1>7 DEF Cell
    <2>2. cell.key \in Key
      BY <2>1, Zenon DEF Item
    <2>3. hv \in Hashes /\ hv.partial \in Nat
      BY <2>2, HashKeyType, Zenon DEF Hashes
    <2>. HIDE DEF hv
    <2>4. next \in 0 .. hashsize(w.hp) - 1
      BY <1>5, <2>3, AltIndex
    <2>. HIDE DEF next
    <2>. QED BY <1>2, <1>5, <2>3, <2>4, IndexGrows, IndexType DEF Index
  <1>. HIDE DEF hv
  <1>8. ASSUME cell # None
        PROVE  /\ h \in PathRecord /\ h.bucket = r.bucket /\ h.hv = hv
               /\ here \in [0 .. d -> PathRecord] /\ here[n] = h
               /\ \A j \in 0 .. d : j # n => here[j] = w.path[j]
    <2>1. hv \in Hashes /\ r \in PathRecord
      BY <1>4, <1>5, <1>7, <1>8, Zenon
    <2>2. h \in PathRecord /\ h.bucket = r.bucket /\ h.hv = hv
      BY <2>1, RecordFields, Zenon
    <2>. HIDE DEF h
    <2>. QED BY <1>4, <1>5, <2>2, Zenon
  <1>. HIDE DEF h, here, next, r, w
  <1>11. r = w.path[n] /\ DOMAIN w.path = 0 .. d
    BY <1>4 DEF r
  <1>9. ASSUME cell # None, Walk(t, w1), Jump(t, StartMove(t)) PROVE Good(t)
    <2>. DEFINE p == StartMove(t)
    <2>1. /\ WalkType(w1) /\ w1.hp = w.hp /\ w1.carry = None /\ w1.path = here /\ w1.at = n
      BY <1>2, <1>3 DEF WalkType, NoWalk
    <2>2. p \in {"claim_version", "from_version"} /\ (p = "from_version" => n # 0)
      BY DEF StartMove, w
    <2>3. Walk(t, w1) /\ Jump(t, p)
      BY <1>9
    <2>4. ASSUME NEW j \in 0 .. d
          PROVE  here[j].bucket = w.path[j].bucket /\ (j < n => here[j] = w.path[j])
      <3>1. CASE j = n
        BY <1>5, <1>8, <1>9, <1>11, <3>1
      <3>2. CASE j # n
        BY <1>8, <1>9, <3>2
      <3>. QED BY <3>1, <3>2
    <2>. HIDE DEF w1, p
    <2>5. Linked(w1)
      <3> SUFFICES ASSUME NEW i \in 0 .. d, i < n, here[i].hv # None
                   PROVE  here[i + 1].bucket = alt_index(w.hp, here[i].hv.partial, here[i].bucket)
        BY <1>8, <1>9, <2>1 DEF Linked
      <3>1. i + 1 \in 0 .. d /\ i \in DOMAIN w.path
        BY <1>4, <1>5
      <3>2. w.path[i + 1].bucket = alt_index(w.hp, w.path[i].hv.partial, w.path[i].bucket)
        BY <1>3, <2>4, <3>1 DEF Linked
      <3>. QED BY <2>4, <3>1, <3>2
    <2>6. /\ w1.path \in [0 .. d -> PathRecord] /\ w1.at <= d
          /\ \A i \in DOMAIN w1.path : w1.path[i].bucket \in Index(hashpower)
          /\ w1.path[0].bucket \in {loc[t].i1, loc[t].i2}
      BY <1>4, <1>5, <1>8, <1>9, <2>1, <2>4
    <2>. QED BY <1>1, <2>1, <2>2, <2>3, <2>5, <2>6, PathNotedGood DEF w
  <1>10. ASSUME cell # None, n + 1 \in DOMAIN w.path, Walk(t, w2), Jump(t, "path_counter")
         PROVE  Good(t)
    <2>. DEFINE m == n + 1
    <2>1. /\ WalkType(w2) /\ w2.hp = w.hp /\ w2.carry = None /\ w2.path = on /\ w2.at = m
      BY <1>2, <1>3, <1>5 DEF WalkType, NoWalk
    <2>2. m \in 0 .. d /\ m \in Nat /\ m # n /\ m # 0 /\ \A i \in 0 .. d : i < m => i < n \/ i = n
      BY <1>5, <1>10, <1>11
    <2>3. Walk(t, w2)
      BY <1>10
    <2>4. here[m] \in PathRecord /\ next \in Nat /\ next \in Index(hashpower)
      BY <1>7, <1>8, <1>10, <2>2
    <2>5. g = [here[m] EXCEPT !.bucket = next]
      OBVIOUS
    <2>6. g \in PathRecord /\ g.bucket = next
      BY <2>4, <2>5, RecordFields, Zenon
    <2>7. on = [here EXCEPT ![m] = g]
      OBVIOUS
    <2>. HIDE DEF g, on, m, w2
    <2>8. /\ on \in [0 .. d -> PathRecord] /\ on[m] = g
          /\ \A j \in 0 .. d : j # m => on[j] = here[j]
      BY <1>8, <1>10, <2>2, <2>6, <2>7
    <2>9. /\ on[n] = h /\ \A j \in 0 .. d : j < n => on[j] = w.path[j]
          /\ \A j \in 0 .. d : j # m => on[j].bucket = w.path[j].bucket
      <3>1. on[n] = h
        BY <1>5, <1>8, <1>10, <2>2, <2>8
      <3>2. ASSUME NEW j \in 0 .. d, j < n PROVE on[j] = w.path[j]
        <4>1. j # n /\ j # m
          BY <1>5, <3>2 DEF m
        <4>. QED BY <1>8, <1>10, <2>8, <4>1
      <3>3. ASSUME NEW j \in 0 .. d, j # m PROVE on[j].bucket = w.path[j].bucket
        BY <1>8, <1>10, <1>11, <2>8, <3>1, <3>3
      <3>. QED BY <3>1, <3>2, <3>3
    <2>10. Linked(w2)
      <3> SUFFICES ASSUME NEW i \in 0 .. d, i < m, on[i].hv # None
                   PROVE  on[i + 1].bucket = alt_index(w.hp, on[i].hv.partial, on[i].bucket)
        BY <2>1, <2>8 DEF Linked
      <3>1. CASE i = n
        <4>1. on[i + 1] = g
          BY <2>8, <3>1 DEF m
        <4>2. on[i].hv = hv /\ on[i].bucket = r.bucket
          BY <1>8, <1>10, <2>9, <3>1
        <4>. QED BY <2>6, <4>1, <4>2 DEF next
      <3>2. CASE i < n
        <4>1. i + 1 \in 0 .. d /\ i + 1 # m /\ i \in DOMAIN w.path
          BY <1>4, <1>5, <3>2 DEF m
        <4>2. w.path[i].hv # None /\ on[i] = w.path[i]
          BY <2>9, <3>2
        <4>3. w.path[i + 1].bucket = alt_index(w.hp, w.path[i].hv.partial, w.path[i].bucket)
          BY <1>3, <3>2, <4>1, <4>2 DEF Linked
        <4>. QED BY <2>9, <4>1, <4>2, <4>3
      <3>. QED BY <2>2, <3>1, <3>2
    <2>11. /\ w2.path \in [0 .. d -> PathRecord] /\ w2.at <= d
           /\ \A i \in DOMAIN w2.path : w2.path[i].bucket \in Index(hashpower)
           /\ w2.path[0].bucket \in {loc[t].i1, loc[t].i2}
      <3>1. w2.path = on /\ DOMAIN on = 0 .. d /\ 0 # m /\ m <= d
        BY <2>1, <2>2, <2>8
      <3>2. \A i \in 0 .. d : on[i].bucket \in Index(hashpower)
        BY <1>5, <2>4, <2>6, <2>8, <2>9
      <3>3. on[0].bucket \in {loc[t].i1, loc[t].i2}
        BY <1>5, <2>9, <3>1
      <3>. QED BY <2>1, <2>8, <3>1, <3>2, <3>3
    <2>. QED BY <1>1, <1>10, <2>1, <2>3, <2>10, <2>11, PathNotedGood DEF w
  <1>. QED BY <1>1, <1>6, <1>9, <1>10, Zenon

LEMMA PathKeyGood ==
  ASSUME NEW t \in Thread, IInv, MapInv, path_key(t)
  PROVE  Good(t)
  <1>1. /\ pc[t] = "path_key" /\ UNCHANGED <<tableVars, threadVars>>
        /\ \E cell \in Cell : KeyRead(t, cell)
    BY Zenon DEF path_key, KeyRead, At
  <1>. QED BY <1>1, KeyReadGood

\* run_cuckoo takes the locks, the path as it is.
LEMMA PathLocksGood ==
  ASSUME NEW t \in Thread, IInv, MapInv, pc[t] \in OnPath \ Inside, NEW S, NEW p,
         Enter(t, "TwoBucketWriteGuard", S, p), UNCHANGED <<tableVars, threadVars, loc>>,
         \/ p = "claim" /\ S = TwoStripes(loc[t].i1, loc[t].i2)
         \/ /\ p = "move" /\ loc[t].walk.at # 0
            /\ S = TwoStripes(loc[t].walk.path[loc[t].walk.at - 1].bucket,
                              loc[t].walk.path[loc[t].walk.at].bucket)
  PROVE  Good(t)
  <1>1. /\ ThreadFits(t) /\ Domains /\ LocalsFit(loc[t])
        /\ call[t] \in BodyCall \cup IterCall /\ call[t].op = "insert"
    BY WalkKnows
  <1>2. /\ PathFits(t) /\ loc[t].walk.carry = None /\ loc[t].walk.hp \in InitHashpower .. hashpower
    BY <1>1 DEF ThreadFits, WalkFits
  <1>3. /\ loc'[t] = loc[t] /\ pc'[t] = p /\ call' = call /\ hashpower' = hashpower
        /\ UNCHANGED callVars /\ OthersKeep(ret, ret', t)
    BY <1>1 DEF Enter, Goto, Domains, tableVars, threadVars, callVars, OthersKeep
  <1>4. IndexFits(t)'
    BY <1>1, <1>3 DEF ThreadFits, IndexFits, Spotted
  <1>5. WalkFits(t)'
    <2>1. PathFits(t)'
      BY <1>2, <1>3, Zenon DEF PathFits, Linked
    <2>. QED BY <1>2, <1>3, <2>1, Zenon DEF WalkFits
  <1>6. LabelFits(p, call[t].op, loc[t].then)
    BY <1>1 DEF LabelFits
  <1>7. "TwoBucketWriteGuard" = KindAt(t)' /\ S = WantAt(t)'
    BY <1>1, <1>3 DEF KindAt, WantAt, GuardKind
  <1>8. HoldFits(t)'
    BY <1>3, HoldIdle
  <1>. QED BY <1>1, <1>3, <1>4, <1>5, <1>6, <1>7, <1>8, EnterGood

LEMMA LockPathGood ==
  ASSUME NEW t \in Thread, IInv, MapInv, claim_version(t) \/ to_version(t)
  PROVE  Good(t)
  <1>1. CASE claim_version(t)
    BY <1>1, PathStaysGood, PathLocksGood DEF claim_version, At
  <1>2. CASE to_version(t)
    <2>1. pc[t] = "to_version" /\ ThreadFits(t)
      BY <1>2, Knows DEF to_version, At
    <2>2. loc[t].walk.at # 0
      BY <2>1 DEF ThreadFits, WalkFits
    <2>. QED BY <1>2, <2>1, <2>2, PathStaysGood, PathLocksGood DEF to_version
  <1>. QED BY <1>1, <1>2

\* It drops them and starts again.
LEMMA RunAgainGood ==
  ASSUME NEW t \in Thread, IInv, MapInv, pc[t] \in {"claim", "move"},
         Leave(t, "run_hp"), UNCHANGED <<tableVars, threadVars, loc>>
  PROVE  Good(t)
  <1>1. /\ ThreadFits(t) /\ Domains /\ LocalsFit(loc[t])
        /\ call[t] \in BodyCall \cup IterCall /\ call[t].op = "insert"
    BY WalkKnows
  <1>2. loc[t].walk.carry = None
    BY <1>1 DEF ThreadFits, WalkFits
  <1>3. /\ loc'[t] = loc[t] /\ pc'[t] = "run_hp" /\ call' = call /\ hashpower' = hashpower
        /\ UNCHANGED callVars /\ OthersKeep(ret, ret', t)
    BY <1>1 DEF Leave, Goto, Domains, tableVars, threadVars, callVars, OthersKeep
  <1>4. IndexFits(t)'
    BY <1>1, <1>3 DEF ThreadFits, IndexFits, Spotted
  <1>5. WalkFits(t)'
    BY <1>2, <1>3, WalkIdle
  <1>6. LabelFits("run_hp", call[t].op, loc[t].then)
    BY <1>1 DEF LabelFits
  <1>. QED BY <1>1, <1>3, <1>4, <1>5, <1>6, LeaveGood, Untouched

\* It has freed a slot of its key, or seen one free, and drops them.
LEMMA SpotGood ==
  ASSUME NEW t \in Thread, IInv, MapInv, pc[t] \in {"claim", "move_set"},
         NEW s, s = <<loc[t].walk.path[0].bucket, loc[t].walk.path[0].slot>>,
         Local(t, [loc[t] EXCEPT !.spot = s, !.walk = NoWalk]), Leave(t, "recheck_hp"),
         Frame(t), TableTypes', UNCHANGED <<hashpower, threadVars>>
  PROVE  Good(t)
  <1>. DEFINE l == [loc[t] EXCEPT !.spot = s, !.walk = NoWalk]
  <1>1. /\ ThreadFits(t) /\ Domains /\ LocalsFit(loc[t])
        /\ call[t] \in BodyCall \cup IterCall /\ call[t].op = "insert"
        /\ loc[t].hp \in InitHashpower .. hashpower
        /\ loc[t].i1 = Bucket1(loc[t].hp, call[t].key)
        /\ loc[t].i2 = Bucket2(loc[t].hp, call[t].key)
    BY WalkKnows
  <1>2. s[2] \in Slot /\ s[1] \in {loc[t].i1, loc[t].i2}
    BY PathKnows
  <1>3. AtHome(call[t].key, s[1], hashpower)
    BY <1>1, <1>2 DEF AtHome
  <1>4. l.spot = s /\ l.walk.carry = None /\ LocalsFit(l)
        /\ l.hp = loc[t].hp /\ l.i1 = loc[t].i1 /\ l.i2 = loc[t].i2
    <2>1. DOMAIN l = DOMAIN NoLocals /\ l.walk = NoWalk /\ l.cur = loc[t].cur
          /\ l.hp0 = loc[t].hp0 /\ l.aside = loc[t].aside /\ l.spot = s
          /\ l.hp = loc[t].hp /\ l.i1 = loc[t].i1 /\ l.i2 = loc[t].i2
      BY <1>1 DEF LocalsFit, NoLocals
    <2>. HIDE DEF l
    <2>2. LocalsFit(NoLocals) /\ NoLocals.walk = NoWalk /\ NoWalk.carry = None
      BY NewLocals DEF NoLocals, NoWalk
    <2>. QED BY <1>1, <2>1, <2>2 DEF LocalsFit
  <1>5. Local(t, l)
    OBVIOUS
  <1>. HIDE DEF l
  <1>6. /\ loc'[t] = l /\ pc'[t] = "recheck_hp" /\ call' = call /\ hashpower' = hashpower
        /\ UNCHANGED callVars /\ OthersKeep(ret, ret', t)
    BY <1>1, <1>5 DEF Leave, Local, Goto, Domains, threadVars, callVars, OthersKeep
  <1>7. IndexFits(t)'
    BY <1>1, <1>2, <1>3, <1>4, <1>6 DEF IndexFits, Spotted
  <1>8. WalkFits(t)'
    BY <1>4, <1>6, WalkIdle
  <1>9. LabelFits("recheck_hp", call[t].op, l.then)
    BY <1>1 DEF LabelFits
  <1>. QED BY <1>1, <1>4, <1>5, <1>6, <1>7, <1>8, <1>9, LeaveGood

LEMMA ClaimGood ==
  ASSUME NEW t \in Thread, IInv, MapInv, claim(t)
  PROVE  Good(t)
  <1>1. pc[t] = "claim" /\ UNCHANGED <<tableVars, threadVars>>
    BY DEF claim, At
  <1>2. CASE Leave(t, "run_hp") /\ UNCHANGED loc
    BY <1>1, <1>2, RunAgainGood
  <1>3. ASSUME NEW s, s = <<loc[t].walk.path[0].bucket, loc[t].walk.path[0].slot>>,
               Local(t, [loc[t] EXCEPT !.spot = s, !.walk = NoWalk]), Leave(t, "recheck_hp")
        PROVE  Good(t)
    BY <1>1, <1>3, SpotGood, Untouched DEF tableVars
  <1>. QED BY <1>2, <1>3 DEF claim

\* The two records of a hop, and its guard.
LEMMA HopKnows ==
  ASSUME NEW t \in Thread, IInv, MapInv, pc[t] \in {"move", "move_set"},
         guard[t].phase \in {"none", "held"}, NEW w, w = loc[t].walk
  PROVE  /\ w.at - 1 \in DOMAIN w.path /\ w.at - 1 \in Nat
         /\ Writing(t, lock_ind(w.path[w.at - 1].bucket))
         /\ Writing(t, lock_ind(w.path[w.at].bucket))
  <1>1. ThreadFits(t)
    BY Knows
  <1>2. w.at # 0
    BY <1>1 DEF ThreadFits, WalkFits
  <1>3. w.at \in Nat /\ w.at \in DOMAIN w.path
        /\ \A i \in DOMAIN w.path : w.path[i].bucket \in Nat
    BY PathKnows
  <1>4. PICK d \in Nat : DOMAIN w.path = 0 .. d
    BY PathKnows
  <1>5. w.at - 1 \in DOMAIN w.path /\ w.at - 1 \in Nat
    BY <1>2, <1>3, <1>4
  <1>6. /\ KindAt(t) \in Write
        /\ WantAt(t) = TwoStripes(w.path[w.at - 1].bucket, w.path[w.at].bucket)
    BY DEF KindAt, WantAt, Write
  <1>7. \A l \in WantAt(t) : Writing(t, l)
    BY <1>6, GuardHeld
  <1>. DEFINE b1 == w.path[w.at - 1].bucket
              b2 == w.path[w.at].bucket
  <1>8. b1 \in Nat /\ b2 \in Nat
    BY <1>3, <1>5
  <1>. HIDE DEF b1, b2
  <1>9. lock_ind(b1) \in TwoStripes(b1, b2) /\ lock_ind(b2) \in TwoStripes(b1, b2)
    BY <1>8, TwoStripesOf, Zenon
  <1>. QED BY <1>5, <1>6, <1>7, <1>9, Zenon DEF b1, b2

LEMMA MoveGood ==
  ASSUME NEW t \in Thread, IInv, MapInv, move(t)
  PROVE  Good(t)
  <1>. DEFINE w    == loc[t].walk
              from == w.path[w.at - 1]
              cell == buckets[from.bucket][from.slot]
              w2   == [w EXCEPT !.carry = cell]
              l    == [loc[t] EXCEPT !.walk = w2]
  <1>1. /\ pc[t] = "move" /\ guard[t].phase \in {"none", "held"}
        /\ UNCHANGED <<hashpower, resize_counter, elem_counter, settings, threadVars>>
    BY Zenon DEF move, At
  <1>2. CASE Leave(t, "run_hp") /\ UNCHANGED <<buckets, loc>>
    BY <1>1, <1>2, RunAgainGood DEF tableVars
  <1>3. ASSUME hashpower = w.hp, from.hv # None, cell # None,
               hash_key[cell.key].hash = from.hv.hash,
               Walk(t, w2), buckets' = erase_kv(buckets, from.bucket, from.slot),
               Jump(t, "move_set")
        PROVE  Good(t)
    <2>1. /\ ThreadFits(t) /\ TableTypes /\ Domains /\ LocalsFit(loc[t]) /\ WalkType(w)
          /\ call[t] \in BodyCall \cup IterCall /\ call[t].op = "insert"
      BY <1>1, WalkKnows
    <2>2. /\ PathFits(t) /\ w.hp \in InitHashpower .. hashpower /\ w.at # 0 /\ Linked(w)
      BY <1>1, <2>1 DEF ThreadFits, WalkFits, PathFits
    <2>3. w.at - 1 \in DOMAIN w.path /\ Writing(t, lock_ind(from.bucket))
      BY <1>1, HopKnows
    <2>4. from \in PathRecord /\ from.bucket \in Index(hashpower) /\ from.slot \in Slot
      BY <1>1, <2>3, PathKnows
    <2>5. cell \in Item
      <3>1. buckets \in TabType(hashpower)
        BY <2>1 DEF TableTypes
      <3>. HIDE DEF from
      <3>. QED BY <1>3, <2>4, <3>1, CellType DEF occupied
    <2>6. hash_key[cell.key].partial = from.hv.partial
      <3>1. cell.key \in Key
        BY <2>5, Zenon DEF Item
      <3>2. PICK k \in Key : from.hv = hash_key[k]
        BY <1>3, <2>4, Zenon DEF PathRecord, Hashes
      <3>3. hash_key[cell.key].hash = hash_key[k].hash
        BY <1>3, <3>2, Zenon
      <3>. HIDE DEF cell, from
      <3>4. hash_key[cell.key].partial = hash_key[k].partial
        BY <3>1, <3>3, HashKeyAssumption, Zenon
      <3>. QED BY <3>2, <3>4, Zenon
    <2>7. None \in Cell
      BY DEF Cell
    <2>8. Frame(t) /\ TableTypes'
      BY <1>1, <1>3, <2>3, <2>7, SlotWritten, Zenon
    <2>9. /\ WalkType(w2) /\ w2.carry = cell /\ w2.hp = w.hp /\ w2.path = w.path /\ w2.at = w.at
      BY <2>1, Zenon DEF WalkType, NoWalk
    <2>10. Local(t, l)
      BY <1>3, Zenon DEF Walk
    <2>11. /\ l.walk = w2 /\ l.hp = loc[t].hp /\ l.i1 = loc[t].i1 /\ l.i2 = loc[t].i2
           /\ LocalsFit(l)
      <3>. HIDE DEF w2, cell, from, w
      <3>. QED BY <2>9, WalkReplaced
    <2>. HIDE DEF l, w2, cell
    <2>12. /\ loc'[t] = l /\ pc'[t] = "move_set" /\ call' = call /\ hashpower' = hashpower
           /\ UNCHANGED callVars /\ OthersKeep(ret, ret', t)
      BY <1>1, <1>3, <2>1, <2>10
         DEF Jump, Local, Goto, Domains, threadVars, callVars, OthersKeep
    <2>13. IndexFits(t)'
      BY <1>1, <2>1, <2>11, <2>12, Zenon DEF ThreadFits, IndexFits, Spotted
    <2>14. WalkFits(t)'
      <3>1. PathFits(t)'
        BY <2>2, <2>9, <2>11, <2>12 DEF PathFits, Linked
      <3>. QED BY <1>3, <2>2, <2>5, <2>6, <2>9, <2>11, <2>12, <3>1, Zenon DEF WalkFits
    <2>15. HoldFits(t)'
      BY <1>3, <2>9, <2>11, <2>12 DEF HoldFits
    <2>16. KindAt(t)' = KindAt(t) /\ WantAt(t)' = WantAt(t)
      BY <1>1, <2>9, <2>11, <2>12 DEF KindAt, WantAt
    <2>17. LabelFits("move_set", call[t].op, l.then)
      BY <2>1 DEF LabelFits
    <2>18. pc[t] \in Inside /\ "move_set" \in Inside /\ "move_set" \in Label
      BY <1>1 DEF Inside, Label
    <2>19. /\ guard[t].phase \in {"none", "held"} /\ Jump(t, "move_set")
           /\ OthersKeep(ret, ret', t) /\ UNCHANGED callVars
           /\ call[t] \in BodyCall \cup IterCall /\ LocalsFit(l)
      BY <1>1, <1>3, <2>1, <2>11, <2>12, ZenonT(30)
    <2>. HIDE DEF w, from, Label, Inside
    <2>. QED BY <2>8, <2>10, <2>13, <2>14, <2>15, <2>16, <2>17, <2>18, <2>19, StayGood
  <1>. QED BY <1>2, <1>3, Zenon DEF move, SameTable, AsExpected

LEMMA MoveSetGood ==
  ASSUME NEW t \in Thread, IInv, MapInv, move_set(t)
  PROVE  Good(t)
  <1>. DEFINE w    == loc[t].walk
              n    == w.at - 1
              from == w.path[w.at - 1]
              to   == w.path[w.at]
              to2   == [to EXCEPT !.hv = from.hv, !.version = None]
              from2 == [from EXCEPT !.hv = None, !.version = None]
              p2   == [w.path EXCEPT ![w.at] = to2, ![w.at - 1] = from2]
              w2   == [w EXCEPT !.carry = None, !.at = w.at - 1, !.path = p2]
              l    == [loc[t] EXCEPT !.walk = w2]
  <1>1. /\ pc[t] = "move_set" /\ guard[t].phase \in {"none", "held"}
        /\ buckets' = set_kv(buckets, to.bucket, to.slot, w.carry)
        /\ UNCHANGED <<hashpower, resize_counter, elem_counter, settings, threadVars>>
    BY DEF move_set, At
  <1>2. /\ ThreadFits(t) /\ TableTypes /\ Domains /\ LocalsFit(loc[t]) /\ WalkType(w)
        /\ call[t] \in BodyCall \cup IterCall /\ call[t].op = "insert"
    BY <1>1, WalkKnows, Zenon
  <1>3. w.carry \in Item /\ Linked(w)
    BY <1>1, <1>2, Zenon DEF ThreadFits, WalkFits, PathFits
  <1>4. /\ n \in DOMAIN w.path /\ n \in Nat /\ w.at = n + 1 /\ w.at \in Nat /\ w.at \in DOMAIN w.path
        /\ Writing(t, lock_ind(to.bucket))
    <2>1. n \in DOMAIN w.path /\ n \in Nat /\ Writing(t, lock_ind(to.bucket))
      BY <1>1, HopKnows
    <2>2. w.at \in Nat /\ w.at \in DOMAIN w.path
      BY <1>1, PathKnows, Zenon
    <2>. HIDE DEF w
    <2>. QED BY <2>1, <2>2
  <1>5. Frame(t) /\ TableTypes'
    <2>1. w.carry \in Cell
      BY <1>3 DEF Cell
    <2>. QED BY <1>1, <1>4, <2>1, SlotWritten, Zenon
  <1>6. w2.at = n
    BY <1>2, Zenon DEF WalkType, NoWalk
  <1>7. ASSUME n = 0, Local(t, [loc[t] EXCEPT !.spot = <<from.bucket, from.slot>>, !.walk = NoWalk]),
               Leave(t, "recheck_hp")
        PROVE  Good(t)
    <2>1. PICK s : /\ s = <<w.path[0].bucket, w.path[0].slot>>
                   /\ Local(t, [loc[t] EXCEPT !.spot = s, !.walk = NoWalk])
      BY <1>7
    <2>. QED BY <1>1, <1>5, <1>7, <2>1, SpotGood, Zenon
  <1>8. ASSUME n # 0, Walk(t, w2), Leave(t, "from_version")
        PROVE  Good(t)
    <2>1. PICK d \in 0 .. MAX_BFS_PATH_LEN - 1 : w.path \in [0 .. d -> PathRecord] /\ w.at <= d
      BY <1>1, PathKnows
    <2>2. /\ DOMAIN w.path = 0 .. d /\ d \in Nat /\ 0 \in 0 .. d
          /\ from \in PathRecord /\ to \in PathRecord
          /\ w.hp \in InitHashpower .. hashpower
          /\ w.path[0].bucket \in {loc[t].i1, loc[t].i2}
          /\ \A i \in 0 .. d : w.path[i].bucket \in Index(hashpower)
      <3>1. /\ w.hp \in InitHashpower .. hashpower
            /\ w.path[0].bucket \in {loc[t].i1, loc[t].i2}
            /\ \A i \in DOMAIN w.path :
                 w.path[i] \in PathRecord /\ w.path[i].bucket \in Index(hashpower)
        BY <1>1, PathKnows
      <3>. HIDE DEF w
      <3>. QED BY <1>4, <2>1, <3>1, TableAssumption
    <2>3. from.hv \in Hashes \cup {None}
      BY <2>2 DEF PathRecord
    <2>4. /\ to2 \in PathRecord /\ to2.bucket = to.bucket
          /\ from2 \in PathRecord /\ from2.bucket = from.bucket
      BY <2>2, <2>3, RecordFields, Zenon
    <2>. HIDE DEF to2, from2
    <2>5. /\ p2 \in [0 .. d -> PathRecord] /\ p2[n] = from2 /\ p2[w.at] = to2
          /\ \A i \in 0 .. d : i # n /\ i # w.at => p2[i] = w.path[i]
      <3>1. n \in 0 .. d /\ w.at \in 0 .. d /\ n # w.at
        BY <1>4, <2>2
      <3>. HIDE DEF w, n, from, to
      <3>2. p2 = [w.path EXCEPT ![w.at] = to2, ![n] = from2]
        BY DEF n
      <3>. HIDE DEF p2
      <3>. QED BY <2>1, <2>4, <3>1, <3>2
    <2>. HIDE DEF p2
    <2>6. /\ WalkType(w2) /\ w2.carry = None /\ w2.hp = w.hp /\ w2.path = p2 /\ w2.at = n
      BY <1>2, <1>4 DEF WalkType, NoWalk
    <2>7. Local(t, l)
      BY <1>8 DEF Walk
    <2>8. /\ l.walk = w2 /\ l.hp = loc[t].hp /\ l.i1 = loc[t].i1 /\ l.i2 = loc[t].i2
           /\ LocalsFit(l)
      <3>. HIDE DEF w2
      <3>. QED BY <2>6, WalkReplaced
    <2>9. \A i \in 0 .. d : p2[i].bucket = w.path[i].bucket
      <3>. SUFFICES ASSUME NEW i \in 0 .. d PROVE p2[i].bucket = w.path[i].bucket
        OBVIOUS
      <3>1. CASE i = n
        BY <2>4, <2>5, <3>1
      <3>2. CASE i = w.at
        BY <2>4, <2>5, <3>2
      <3>3. CASE i # n /\ i # w.at
        BY <2>5, <3>3
      <3>. QED BY <3>1, <3>2, <3>3
    <2>10. ASSUME NEW i \in DOMAIN p2, i < n, p2[i].hv # None
           PROVE  p2[i + 1].bucket = alt_index(w.hp, p2[i].hv.partial, p2[i].bucket)
      <3>1. i \in 0 .. d /\ i # n /\ i # w.at /\ i < w.at /\ i + 1 \in 0 .. d
        <4>1. i \in 0 .. d /\ n \in 0 .. d
          BY <1>4, <2>2, <2>5
        <4>. HIDE DEF w, n
        <4>. QED BY <1>4, <2>2, <2>10, <4>1
      <3>2. p2[i] = w.path[i]
        BY <2>5, <3>1
      <3>3. w.path[i + 1].bucket = alt_index(w.hp, w.path[i].hv.partial, w.path[i].bucket)
        BY <1>3, <2>2, <2>10, <3>1, <3>2 DEF Linked
      <3>. QED BY <2>9, <3>1, <3>2, <3>3
    <2>. HIDE DEF l, w2
    <2>11. Linked(w2)
      BY <2>6, <2>10 DEF Linked
    <2>12. /\ loc'[t] = l /\ pc'[t] = "from_version" /\ call' = call /\ hashpower' = hashpower
           /\ UNCHANGED callVars /\ OthersKeep(ret, ret', t)
      BY <1>1, <1>2, <1>8, <2>7
         DEF Leave, Local, Goto, Domains, threadVars, callVars, OthersKeep
    <2>13. IndexFits(t)'
      BY <1>1, <1>2, <2>8, <2>12 DEF ThreadFits, IndexFits, Spotted
    <2>14. WalkFits(t)'
      <3>1. n <= d /\ DOMAIN p2 = 0 .. d
        BY <1>4, <2>2, <2>5, SMTT(30)
      <3>2. \A i \in DOMAIN p2 : p2[i].bucket \in Index(hashpower)
        BY <2>2, <2>9, <3>1
      <3>3. p2[0].bucket \in {loc[t].i1, loc[t].i2}
        BY <2>2, <2>9
      <3>. HIDE DEF w, n
      <3>4. PathFits(t)'
        BY <2>5, <2>6, <2>8, <2>11, <2>12, <3>1, <3>2, <3>3 DEF PathFits, Linked
      <3>. QED BY <1>8, <2>2, <2>6, <2>8, <2>12, <3>4 DEF WalkFits
    <2>15. LabelFits("from_version", call[t].op, l.then)
      BY <1>2 DEF LabelFits
    <2>. QED BY <1>1, <1>2, <1>5, <1>8, <2>7, <2>8, <2>12, <2>13, <2>14, <2>15, LeaveGood
  <1>. QED BY <1>6, <1>7, <1>8 DEF move_set

-----------------------------------------------------------------------------
(***************************************************************************)
(* Steps under the locks of all stripes.                                   *)
(***************************************************************************)
WholeWriting == InWhole \ {"iter"}

LEMMA WholeHeld ==
  ASSUME NEW t \in Thread, IInv, MapInv, pc[t] \in WholeWriting,
         guard[t].phase \in {"none", "held"}
  PROVE  \A l \in Lock : Writing(t, l)
  <1>1. KindAt(t) \in Write /\ WantAt(t) = Lock
    BY DEF WholeWriting, KindAt, WantAt, Write
  <1>. QED BY <1>1, GuardHeld DEF WholeWriting

LEMMA WholeKnows ==
  ASSUME NEW t \in Thread, MapInv, pc[t] \in InWhole \cup {"double", "clear_lock", "iter_lock"}
  PROVE  /\ ThreadFits(t) /\ TableTypes /\ Domains /\ LocalsFit(loc[t])
         /\ hashpower \in Nat /\ loc[t].walk.carry = None
         /\ call[t] \in BodyCall \cup IterCall
         /\ pc[t] \in Inserting => call[t].op = "insert"
         /\ pc[t] \in ClearLabels => call[t].op = "clear"
         /\ pc[t] \in IterLabels => call[t].op = "iter"
  <1>1. ThreadFits(t) /\ TableTypes /\ Domains /\ LocalsFit(loc[t]) /\ hashpower \in Nat
    BY Knows
  <1>. QED BY <1>1 DEF ThreadFits, CallFits, LabelFits, WalkFits

LEMMA WholeEnterGood ==
  ASSUME NEW t \in Thread, IInv, MapInv, NEW k, NEW p, Enter(t, k, Lock, p),
         \/ p = "resize" /\ k = "AllLocksWriteGuard" /\ pc[t] = "double"
         \/ p = "clear" /\ k = "AllLocksWriteGuard" /\ pc[t] = "clear_lock"
         \/ /\ p = "iter" /\ k = "AllLocksGuard" /\ pc[t] = "iter_lock"
            /\ ret'[t].value = {},
         loc' = loc, OthersKeep(ret, ret', t), UNCHANGED <<callVars, tableVars>>
  PROVE  Good(t)
  <1>1. /\ ThreadFits(t) /\ TableTypes /\ Domains /\ LocalsFit(loc[t])
        /\ hashpower \in Nat /\ loc[t].walk.carry = None
        /\ call[t] \in BodyCall \cup IterCall
        /\ pc[t] = "double" => call[t].op = "insert"
        /\ pc[t] = "clear_lock" => call[t].op = "clear"
        /\ pc[t] = "iter_lock" => call[t].op = "iter"
    BY WholeKnows
  <1>2. pc'[t] = p /\ loc'[t] = loc[t] /\ hashpower' = hashpower
    BY <1>1 DEF Enter, Goto, Domains, tableVars
  <1>3. IndexFits(t)'
    BY <1>2 DEF IndexFits, Spotted
  <1>4. WalkFits(t)'
    BY <1>1, <1>2, WalkIdle
  <1>5. k = KindAt(t)' /\ Lock = WantAt(t)'
    BY <1>2 DEF KindAt, WantAt
  <1>6. HoldFits(t)'
    <2>1. pc[t] \in {"clear_lock", "iter_lock"} => loc[t].cur = 0
      BY <1>1 DEF ThreadFits, HoldFits
    <2>2. 0 < hashsize(hashpower) * SLOT_PER_BUCKET /\ 0 <= hashsize(hashpower)
      <3>1. 0 \in Nat /\ hashsize(hashpower) \in Nat \ {0} /\ SLOT_PER_BUCKET \in Nat \ {0}
        BY <1>1, Hashsize, TableAssumption
      <3>. QED BY <3>1
    <2>3. Passed(0)' = {}
      BY DEF Passed
    <2>. QED BY <1>2, <2>1, <2>2, <2>3 DEF HoldFits
  <1>7. LabelFits(p, call[t].op, loc[t].then)
    BY <1>1 DEF LabelFits
  <1>. QED BY <1>1, <1>3, <1>4, <1>5, <1>6, <1>7, EnterGood

LEMMA WholeLockGood ==
  ASSUME NEW t \in Thread, IInv, MapInv, double(t) \/ clear_lock(t) \/ iter_lock(t)
  PROVE  Good(t)
  <1>1. Domains
    BY Knows
  <1>2. UNCHANGED <<callVars, tableVars>> /\ loc' = loc /\ OthersKeep(ret, ret', t)
    BY <1>1 DEF double, clear_lock, iter_lock, Answer, threadVars, callVars, OthersKeep, Domains
  <1>3. CASE double(t)
    BY <1>2, <1>3, WholeEnterGood DEF double, At
  <1>4. CASE clear_lock(t)
    BY <1>2, <1>4, WholeEnterGood DEF clear_lock, At
  <1>5. CASE iter_lock(t)
    <2>1. ret'[t].value = {}
      BY <1>1, <1>5 DEF iter_lock, Answer, Collected, Domains
    <2>. QED BY <1>2, <1>5, <2>1, WholeEnterGood DEF iter_lock, At
  <1>. QED BY <1>3, <1>4, <1>5

LEMMA WholeStays ==
  ASSUME NEW t \in Thread, IInv, MapInv, pc[t] \in WholeWriting,
         guard[t].phase \in {"none", "held"}, NEW p \in WholeWriting,
         pc[t] \in ClearLabels <=> p \in ClearLabels, Jump(t, p),
         NEW l, Local(t, l) \/ (loc' = loc /\ l = loc[t]), LocalsFit(l), l.walk.carry = None,
         UNCHANGED threadVars, Frame(t), TableTypes',
         pc'[t] = p /\ loc'[t] = l => HoldFits(t)'
  PROVE  Good(t)
  <1>1. /\ Domains /\ call[t] \in BodyCall \cup IterCall
        /\ pc[t] \in Inserting => call[t].op = "insert"
        /\ pc[t] \in ClearLabels => call[t].op = "clear"
    BY WholeKnows DEF WholeWriting
  <1>2. /\ pc'[t] = p /\ loc'[t] = l /\ UNCHANGED callVars /\ OthersKeep(ret, ret', t)
    BY <1>1 DEF Jump, Goto, Local, Domains, threadVars, OthersKeep
  <1>3. IndexFits(t)'
    BY <1>2 DEF IndexFits, Spotted, WholeWriting
  <1>4. WalkFits(t)'
    BY <1>2, WalkIdle DEF WholeWriting
  <1>5. KindAt(t)' = KindAt(t) /\ WantAt(t)' = WantAt(t)
    BY <1>2 DEF KindAt, WantAt, WholeWriting
  <1>6. LabelFits(p, call[t].op, l.then)
    BY <1>1 DEF LabelFits, WholeWriting
  <1>7. p \in Label /\ p \in Inside /\ pc[t] \in Inside
    BY DEF WholeWriting
  <1>. QED BY <1>1, <1>2, <1>3, <1>4, <1>5, <1>6, <1>7, StayGood

LEMMA ResizeGood ==
  ASSUME NEW t \in Thread, IInv, MapInv, resize(t)
  PROVE  Good(t)
  <1>1. pc[t] = "resize" /\ guard[t].phase \in {"none", "held"} /\ UNCHANGED tableVars /\ loc' = loc
    BY DEF resize, At, Refuse
  <1>2. CASE Leave(t, "insert_hp") /\ UNCHANGED threadVars
    BY <1>1, <1>2, InsertGoesOn, Untouched DEF threadVars, callVars, tableVars, OthersKeep
  <1>3. CASE Refuse(t, "MaximumHashpowerExceeded")
    <2>1. OthersKeep(ret, ret', t) /\ UNCHANGED callVars /\ Leave(t, "return")
      BY <1>3, Knows DEF Refuse, Answer, OthersKeep, Domains
    <2>. QED BY <1>1, <2>1, AnswerGood, Untouched
  <1>4. CASE hashpower = loc[t].hp0 /\ Jump(t, "resize_load") /\ UNCHANGED threadVars
    <2>1. ASSUME pc'[t] = "resize_load", loc'[t] = loc[t] PROVE HoldFits(t)'
      BY <1>1, <1>4, <2>1 DEF HoldFits, tableVars
    <2>2. LocalsFit(loc[t]) /\ loc[t].walk.carry = None
      BY <1>1, WholeKnows
    <2>. QED BY <1>1, <1>4, <2>1, <2>2, WholeStays, Untouched DEF WholeWriting
  <1>. QED BY <1>2, <1>3, <1>4 DEF resize

LEMMA PositionsLen ==
  ASSUME NEW hp \in Nat
  PROVE  /\ Len(Positions(hp)) = hashsize(hp) * SLOT_PER_BUCKET
         /\ hashsize(hp) * SLOT_PER_BUCKET \in Nat /\ 0 < hashsize(hp) * SLOT_PER_BUCKET
  <1>. DEFINE m == hashsize(hp) * SLOT_PER_BUCKET
  <1>1. hashsize(hp) \in Nat \ {0} /\ SLOT_PER_BUCKET \in Nat \ {0}
    BY Hashsize, TableAssumption
  <1>2. m \in Nat /\ 0 < m
    BY <1>1
  <1>3. Positions(hp) = [n \in 1 .. m |-> <<(n - 1) \div SLOT_PER_BUCKET, (n - 1) % SLOT_PER_BUCKET>>]
    BY DEF Positions
  <1>. HIDE DEF m
  <1>4. Len(Positions(hp)) = m
    BY <1>2, <1>3
  <1>. QED BY <1>2, <1>4 DEF m

LEMMA ResizeLoadGood ==
  ASSUME NEW t \in Thread, IInv, MapInv, resize_load(t)
  PROVE  Good(t)
  <1>1. pc[t] = "resize_load" /\ guard[t].phase \in {"none", "held"}
    BY DEF resize_load, At
  <1>2. CASE Refuse(t, "LoadFactorTooLow")
    <2>1. /\ OthersKeep(ret, ret', t) /\ UNCHANGED callVars /\ Leave(t, "return")
          /\ UNCHANGED <<tableVars, loc>>
      BY <1>2, Knows DEF Refuse, Answer, OthersKeep, Domains
    <2>. QED BY <1>1, <2>1, AnswerGood, Untouched
  <1>3. ASSUME Local(t, [loc[t] EXCEPT !.old = buckets, !.cur = 0, !.aside = <<>>]),
               buckets' = BucketContainer(loc[t].hp0 + 1), hashpower' = loc[t].hp0 + 1,
               Jump(t, "rehash_one"),
               UNCHANGED <<resize_counter, elem_counter, settings, threadVars>>
        PROVE  Good(t)
    <2>. DEFINE l == [loc[t] EXCEPT !.old = buckets, !.cur = 0, !.aside = <<>>]
    <2>1. /\ ThreadFits(t) /\ TableTypes /\ LocalsFit(loc[t]) /\ hashpower \in Nat
          /\ loc[t].walk.carry = None
      BY <1>1, WholeKnows
    <2>2. hashpower = loc[t].hp0 /\ buckets \in TabType(hashpower) /\ resize_counter \in Nat
      BY <1>1, <2>1 DEF ThreadFits, HoldFits, TableTypes
    <2>3. Local(t, l)
      BY <1>3
    <2>4. LocalsFit(l) /\ l.walk = loc[t].walk /\ l.hp0 = loc[t].hp0 /\ l.cur = 0 /\ l.old = buckets
      BY <2>1 DEF LocalsFit, NoLocals
    <2>. HIDE DEF l
    <2>5. hashpower' \in Nat /\ hashpower <= hashpower' /\ buckets' \in TabType(hashpower')
      BY <1>3, <2>1, <2>2, EmptyTab
    <2>6. Frame(t) /\ TableTypes'
      <3>1. \A m \in Lock : Writing(t, m)
        BY <1>1, WholeHeld DEF WholeWriting
      <3>. QED BY <1>3, <2>2, <2>5, <3>1, TableWritten
    <2>7. 0 < hashsize(hashpower) * SLOT_PER_BUCKET
      BY <2>1, PositionsLen
    <2>8. ASSUME pc'[t] = "rehash_one", loc'[t] = l PROVE HoldFits(t)'
      BY <1>3, <2>2, <2>4, <2>7, <2>8 DEF HoldFits
    <2>. QED BY <1>1, <1>3, <2>1, <2>3, <2>4, <2>6, <2>8, WholeStays DEF WholeWriting
  <1>. QED BY <1>2, <1>3 DEF resize_load

\* A rehash panics: the guard is dropped.
LEMMA RehashPanicGood ==
  ASSUME NEW t \in Thread, IInv, MapInv, pc[t] \in RehashLabels, Leave(t, "panicked"),
         NEW l, Local(t, l), LocalsFit(l), l.walk = loc[t].walk, UNCHANGED threadVars,
         Frame(t), TableTypes'
  PROVE  Good(t)
  <1>1. Domains /\ call[t] \in BodyCall \cup IterCall /\ loc[t].walk.carry = None
    BY WholeKnows
  <1>2. /\ pc'[t] = "panicked" /\ loc'[t] = l /\ UNCHANGED callVars /\ OthersKeep(ret, ret', t)
    BY <1>1 DEF Leave, Goto, Local, Domains, threadVars, OthersKeep
  <1>3. IndexFits(t)'
    BY <1>2 DEF IndexFits, Spotted
  <1>4. WalkFits(t)'
    BY <1>1, <1>2, WalkIdle
  <1>5. LabelFits("panicked", call[t].op, l.then)
    BY DEF LabelFits
  <1>. QED BY <1>1, <1>2, <1>3, <1>4, <1>5, LeaveGood

\* What a rehash starts a step from.
LEMMA RehashKnows ==
  ASSUME NEW t \in Thread, IInv, MapInv, pc[t] \in RehashLabels,
         guard[t].phase \in {"none", "held"}
  PROVE  /\ LocalsFit(loc[t]) /\ loc[t].walk.carry = None
         /\ loc[t].hp0 \in Nat /\ loc[t].cur \in Nat /\ loc[t].aside \in Seq(Item)
         /\ hashpower = loc[t].hp0 + 1 /\ hashpower \in Nat
         /\ Rehashing(t) \in AccType(hashpower)
         /\ \A tab \in TabType(hashpower) :
              buckets' = tab /\ UNCHANGED <<hashpower, resize_counter, elem_counter, settings>>
                => Frame(t) /\ TableTypes'
  <1>1. /\ ThreadFits(t) /\ TableTypes /\ LocalsFit(loc[t]) /\ hashpower \in Nat
        /\ loc[t].walk.carry = None
    BY WholeKnows
  <1>2. loc[t].hp0 \in Nat /\ loc[t].cur \in Nat /\ loc[t].aside \in Seq(Item)
    BY <1>1 DEF LocalsFit
  <1>3. hashpower = loc[t].hp0 + 1
    BY <1>1 DEF ThreadFits, HoldFits
  <1>4. Rehashing(t) \in AccType(hashpower)
    BY <1>1, <1>2 DEF Rehashing, AccType, TableTypes
  <1>5. \A l \in Lock : Writing(t, l)
    BY WholeHeld DEF WholeWriting
  <1>6. ASSUME NEW tab \in TabType(hashpower), buckets' = tab,
               UNCHANGED <<hashpower, resize_counter, elem_counter, settings>>
        PROVE  Frame(t) /\ TableTypes'
    BY <1>1, <1>5, <1>6, TableWritten DEF TableTypes
  <1>. QED BY <1>1, <1>2, <1>3, <1>4, <1>6

LEMMA RehashOneGood ==
  ASSUME NEW t \in Thread, IInv, MapInv, rehash_one(t)
  PROVE  Good(t)
  <1>. DEFINE hp == loc[t].hp0
              n  == loc[t].cur + 1
              st == rehash_move(hp, loc[t].old, Rehashing(t), Positions(hp)[n])
              l1 == [loc[t] EXCEPT !.old = None]
              l2 == [loc[t] EXCEPT !.cur = n, !.aside = st.alternate_items]
  <1>1. /\ pc[t] = "rehash_one" /\ guard[t].phase \in {"none", "held"} /\ buckets' = st.tab
        /\ UNCHANGED <<hashpower, resize_counter, elem_counter, settings, threadVars>>
        /\ \/ Leave(t, "panicked") /\ Local(t, l1)
           \/ /\ Local(t, l2)
              /\ \/ Jump(t, "rehash_one") /\ n < Len(Positions(hp))
                 \/ Jump(t, "rehash_two")
    BY DEF rehash_one, At
  <1>2. /\ LocalsFit(loc[t]) /\ loc[t].walk.carry = None
        /\ hp \in Nat /\ loc[t].cur \in Nat /\ hashpower = hp + 1 /\ hashpower \in Nat
        /\ Rehashing(t) \in AccType(hashpower)
        /\ \A tab \in TabType(hashpower) :
             buckets' = tab /\ UNCHANGED <<hashpower, resize_counter, elem_counter, settings>>
               => Frame(t) /\ TableTypes'
    BY <1>1, RehashKnows
  <1>3. loc[t].old \in TabType(hp) /\ loc[t].cur < hashsize(hp) * SLOT_PER_BUCKET
    BY <1>1, Knows DEF ThreadFits, HoldFits
  <1>4. Positions(hp)[n][1] \in Index(hp) /\ Positions(hp)[n][2] \in Slot
    BY <1>2, <1>3, PositionType
  <1>5. st \in AccType(hashpower)
    BY <1>2, <1>3, <1>4, MoveType
  <1>. HIDE DEF st
  <1>6. st.tab \in TabType(hashpower) /\ st.alternate_items \in Seq(Item)
    BY <1>5 DEF AccType
  <1>7. Frame(t) /\ TableTypes'
    BY <1>1, <1>2, <1>6
  <1>8. LocalsFit(l1) /\ l1.walk = loc[t].walk
    BY <1>2 DEF LocalsFit, NoLocals
  <1>9. /\ LocalsFit(l2) /\ l2.walk = loc[t].walk /\ l2.hp0 = hp /\ l2.cur = n
        /\ l2.old = loc[t].old
    BY <1>2, <1>6 DEF LocalsFit, NoLocals
  <1>. HIDE DEF l1, l2
  <1>10. CASE Leave(t, "panicked") /\ Local(t, l1)
    BY <1>1, <1>7, <1>8, <1>10, RehashPanicGood
  <1>11. ASSUME NEW p \in RehashLabels, Local(t, l2), Jump(t, p),
                p = "rehash_one" => n < Len(Positions(hp))
         PROVE  Good(t)
    <2>1. ASSUME pc'[t] = p, loc'[t] = l2 PROVE HoldFits(t)'
      BY <1>1, <1>2, <1>3, <1>9, <1>11, <2>1, PositionsLen DEF HoldFits
    <2>. QED BY <1>1, <1>2, <1>7, <1>9, <1>11, <2>1, WholeStays DEF WholeWriting
  <1>. QED BY <1>1, <1>10, <1>11

LEMMA RehashTwoGood ==
  ASSUME NEW t \in Thread, IInv, MapInv, rehash_two(t)
  PROVE  Good(t)
  <1>. DEFINE hp == loc[t].hp0
              st == rehash_place_item(hp + 1, Rehashing(t), Head(loc[t].aside))
              l0 == [loc[t] EXCEPT !.old = None]
              l1 == [loc[t] EXCEPT !.old = None, !.aside = <<>>]
              l2 == [loc[t] EXCEPT !.aside = Tail(loc[t].aside)]
  <1>1. /\ pc[t] = "rehash_two" /\ guard[t].phase \in {"none", "held"}
        /\ UNCHANGED <<hashpower, resize_counter, elem_counter, settings, threadVars>>
    BY DEF rehash_two, At
  <1>2. /\ LocalsFit(loc[t]) /\ loc[t].walk.carry = None
        /\ hp \in Nat /\ loc[t].aside \in Seq(Item) /\ hashpower = hp + 1 /\ hashpower \in Nat
        /\ Rehashing(t) \in AccType(hashpower)
        /\ \A tab \in TabType(hashpower) :
             buckets' = tab /\ UNCHANGED <<hashpower, resize_counter, elem_counter, settings>>
               => Frame(t) /\ TableTypes'
    BY <1>1, RehashKnows
  <1>3. LocalsFit(l0) /\ l0.walk = loc[t].walk
    BY <1>2 DEF LocalsFit, NoLocals
  <1>4. LocalsFit(l1) /\ l1.walk = loc[t].walk
    <2>1. <<>> \in Seq(Item)
      OBVIOUS
    <2>. QED BY <1>2, <2>1 DEF LocalsFit, NoLocals
  <1>5. CASE Local(t, l0) /\ Jump(t, "resize_count") /\ UNCHANGED buckets
    <2>. HIDE DEF l0
    <2>1. Frame(t) /\ TableTypes'
      BY <1>1, <1>5, Untouched DEF tableVars
    <2>2. ASSUME pc'[t] = "resize_count" PROVE HoldFits(t)'
      BY <2>2, HoldIdle
    <2>. QED BY <1>1, <1>2, <1>3, <1>5, <2>1, <2>2, WholeStays DEF WholeWriting
  <1>6. ASSUME loc[t].aside # <<>>, buckets' = st.tab,
               \/ Local(t, l1) /\ Leave(t, "panicked")
               \/ Local(t, l2) /\ Jump(t, "rehash_two")
        PROVE  Good(t)
    <2>1. Head(loc[t].aside) \in Item /\ Tail(loc[t].aside) \in Seq(Item)
      BY <1>2, <1>6
    <2>2. st \in AccType(hashpower)
      BY <1>2, <2>1, PlaceItemType
    <2>. HIDE DEF st
    <2>3. Frame(t) /\ TableTypes'
      <3>1. st.tab \in TabType(hashpower)
        BY <2>2 DEF AccType
      <3>. QED BY <1>1, <1>2, <1>6, <3>1
    <2>4. LocalsFit(l2) /\ l2.walk = loc[t].walk /\ l2.hp0 = hp
      BY <1>2, <2>1 DEF LocalsFit, NoLocals
    <2>. HIDE DEF l1, l2
    <2>5. CASE Local(t, l1) /\ Leave(t, "panicked")
      BY <1>1, <1>4, <2>3, <2>5, RehashPanicGood
    <2>6. CASE Local(t, l2) /\ Jump(t, "rehash_two")
      <3>1. ASSUME pc'[t] = "rehash_two", loc'[t] = l2 PROVE HoldFits(t)'
        BY <1>1, <1>2, <2>4, <3>1 DEF HoldFits
      <3>. QED BY <1>1, <1>2, <2>3, <2>4, <2>6, <3>1, WholeStays DEF WholeWriting
    <2>. QED BY <1>6, <2>5, <2>6
  <1>. QED BY <1>5, <1>6 DEF rehash_two

LEMMA ResizeCountGood ==
  ASSUME NEW t \in Thread, IInv, MapInv, resize_count(t)
  PROVE  Good(t)
  <1>1. /\ pc[t] = "resize_count" /\ guard[t].phase \in {"none", "held"}
        /\ resize_counter' = resize_counter + 1 /\ Leave(t, "insert_hp")
        /\ UNCHANGED <<buckets, hashpower, elem_counter, settings, threadVars, loc>>
    BY DEF resize_count, At
  <1>2. TableTypes /\ hashpower \in Nat
    BY Knows
  <1>3. \A l \in Lock : Writing(t, l)
    BY <1>1, WholeHeld DEF WholeWriting
  <1>4. Frame(t) /\ TableTypes'
    BY <1>1, <1>2, <1>3, TableWritten DEF TableTypes
  <1>. QED BY <1>1, <1>4, InsertGoesOn DEF threadVars, callVars, OthersKeep

LEMMA ClearGood ==
  ASSUME NEW t \in Thread, IInv, MapInv, clear(t)
  PROVE  Good(t)
  <1>. DEFINE n   == loc[t].cur + 1
              pos == Positions(hashpower)[n]
              was == IF loc[t].cur = 0 THEN buckets ELSE loc[t].old
              l1  == [loc[t] EXCEPT !.cur = 0, !.old = None]
              l2  == [loc[t] EXCEPT !.cur = n, !.old = was]
  <1>1. /\ pc[t] = "clear" /\ guard[t].phase \in {"none", "held"}
        /\ buckets' = erase_kv(buckets, pos[1], pos[2])
        /\ UNCHANGED <<hashpower, resize_counter, elem_counter, settings, threadVars>>
        /\ \/ Local(t, l1) /\ Jump(t, "clear_count")
           \/ n # Len(Positions(hashpower)) /\ Local(t, l2) /\ Jump(t, "clear")
    BY DEF clear, At
  <1>2. /\ ThreadFits(t) /\ TableTypes /\ LocalsFit(loc[t]) /\ hashpower \in Nat
        /\ loc[t].walk.carry = None
    BY <1>1, WholeKnows
  <1>3. loc[t].cur \in Nat /\ loc[t].cur < hashsize(hashpower) * SLOT_PER_BUCKET
    BY <1>1, <1>2 DEF ThreadFits, HoldFits, LocalsFit
  <1>4. pos[1] \in Index(hashpower) /\ pos[2] \in Slot
    BY <1>2, <1>3, PositionType
  <1>5. Frame(t) /\ TableTypes'
    <2>1. \A l \in Lock : Writing(t, l)
      BY <1>1, WholeHeld DEF WholeWriting
    <2>2. buckets \in TabType(hashpower) /\ resize_counter \in Nat
      BY <1>2 DEF TableTypes
    <2>. HIDE DEF pos
    <2>3. erase_kv(buckets, pos[1], pos[2]) \in TabType(hashpower)
      BY <2>2, WriteType
    <2>. QED BY <1>1, <1>2, <2>1, <2>2, <2>3, TableWritten
  <1>6. /\ LocalsFit(l1) /\ l1.walk = loc[t].walk /\ l1.cur = 0
    BY <1>2 DEF LocalsFit, NoLocals
  <1>7. LocalsFit(l2) /\ l2.walk = loc[t].walk /\ l2.cur = n
    <2>1. n \in Nat
      BY <1>3
    <2>. HIDE DEF n, was
    <2>. QED BY <1>2, <2>1 DEF LocalsFit, NoLocals
  <1>8. guard'[t] = guard[t] /\ guard[t].phase = "held"
    BY <1>1, GuardHeld DEF Jump, lockVars
  <1>. HIDE DEF l1, l2
  <1>9. CASE Local(t, l1) /\ Jump(t, "clear_count")
    <2>1. 0 \in Lock
      BY NumLocksAssumption DEF Lock
    <2>2. ASSUME pc'[t] = "clear_count", loc'[t] = l1 PROVE HoldFits(t)'
      BY <1>6, <2>1, <2>2 DEF HoldFits
    <2>. QED BY <1>1, <1>2, <1>5, <1>6, <1>9, <2>2, WholeStays DEF WholeWriting
  <1>10. CASE n # Len(Positions(hashpower)) /\ Local(t, l2) /\ Jump(t, "clear")
    <2>1. n < hashsize(hashpower) * SLOT_PER_BUCKET
      BY <1>2, <1>3, <1>10, PositionsLen
    <2>2. ASSUME pc'[t] = "clear", loc'[t] = l2 PROVE HoldFits(t)'
      BY <1>1, <1>7, <1>8, <2>1, <2>2 DEF HoldFits
    <2>. QED BY <1>1, <1>2, <1>5, <1>7, <1>10, <2>2, WholeStays DEF WholeWriting
  <1>. QED BY <1>1, <1>9, <1>10

LEMMA ClearCountGood ==
  ASSUME NEW t \in Thread, IInv, MapInv, clear_count(t)
  PROVE  Good(t)
  <1>. DEFINE n == loc[t].cur
              l == [loc[t] EXCEPT !.cur = n + 1]
  <1>1. /\ pc[t] = "clear_count" /\ guard[t].phase \in {"none", "held"}
        /\ elem_counter' = [elem_counter EXCEPT ![n] = 0] /\ Local(t, l)
        /\ UNCHANGED <<buckets, hashpower, resize_counter, settings, threadVars>>
        /\ \/ Leave(t, "return")
           \/ n + 1 # NumLocks /\ Jump(t, "clear_count")
    BY DEF clear_count, At
  <1>2. /\ ThreadFits(t) /\ LocalsFit(loc[t]) /\ loc[t].walk.carry = None /\ Domains
        /\ call[t] \in BodyCall \cup IterCall
    BY <1>1, WholeKnows
  <1>3. n \in Lock /\ n \in Nat
    BY <1>1, <1>2 DEF ThreadFits, HoldFits, LocalsFit
  <1>4. Frame(t) /\ TableTypes'
    <2>1. Writing(t, n)
      BY <1>1, <1>3, WholeHeld DEF WholeWriting
    <2>. DEFINE zero == 0
    <2>2. zero \in Int /\ elem_counter' = [elem_counter EXCEPT ![n] = zero]
      BY <1>1
    <2>. HIDE DEF n, l, zero
    <2>. QED BY <1>1, <1>3, <2>1, <2>2, CounterWritten
  <1>5. LocalsFit(l) /\ l.walk = loc[t].walk /\ l.cur = n + 1
    <2>1. n + 1 \in Nat
      BY <1>3
    <2>. QED BY <1>2, <2>1 DEF LocalsFit, NoLocals
  <1>. HIDE DEF l
  <1>6. CASE n + 1 # NumLocks /\ Jump(t, "clear_count")
    <2>1. n + 1 \in Lock
      BY <1>3, <1>6, NumLocksAssumption DEF Lock
    <2>2. ASSUME pc'[t] = "clear_count", loc'[t] = l PROVE HoldFits(t)'
      BY <1>5, <2>1, <2>2 DEF HoldFits
    <2>. QED BY <1>1, <1>2, <1>4, <1>5, <1>6, <2>2, WholeStays DEF WholeWriting
  <1>7. CASE Leave(t, "return")
    <2>1. /\ pc'[t] = "return" /\ loc'[t] = l /\ UNCHANGED callVars /\ OthersKeep(ret, ret', t)
      BY <1>1, <1>2, <1>7 DEF Leave, Goto, Local, Domains, threadVars, OthersKeep
    <2>2. IndexFits(t)'
      BY <2>1 DEF IndexFits, Spotted
    <2>3. WalkFits(t)'
      BY <1>2, <1>5, <2>1, WalkIdle
    <2>4. LabelFits("return", call[t].op, l.then)
      BY DEF LabelFits
    <2>. QED BY <1>1, <1>2, <1>4, <1>5, <1>7, <2>1, <2>2, <2>3, <2>4, LeaveGood
  <1>. QED BY <1>1, <1>6, <1>7

-----------------------------------------------------------------------------
(***************************************************************************)
(* The iterators.                                                          *)
(***************************************************************************)
LEMMA PassedNext ==
  ASSUME NEW b \in Nat
  PROVE  Passed(b + 1) = Passed(b) \cup ({buckets[b][s] : s \in Slot} \ {None})
  <1>1. 0 .. b + 1 - 1 = (0 .. b - 1) \cup {b}
    OBVIOUS
  <1>. QED BY <1>1 DEF Passed

\* What an iterator has under its guard.
LEMMA IterKnows ==
  ASSUME NEW t \in Thread, IInv, MapInv, pc[t] = "iter", guard[t].phase \in {"none", "held"}
  PROVE  /\ ThreadFits(t) /\ TableTypes /\ Domains /\ LocalsFit(loc[t])
         /\ hashpower \in Nat /\ hashsize(hashpower) \in Nat
         /\ loc[t].walk.carry = None /\ loc[t].cur \in Nat
         /\ call[t] \in IterCall /\ call[t].op = "iter" /\ call[t].value \subseteq BodyCall
         /\ loc[t].cur <= hashsize(hashpower) /\ ret[t].value = Passed(loc[t].cur)
         /\ ~InBody(t) /\ guard[t].phase = "held" /\ guard[t].kind = "AllLocksGuard"
         /\ guard[t].want = Lock
  <1>1. /\ ThreadFits(t) /\ TableTypes /\ Domains /\ LocalsFit(loc[t]) /\ hashpower \in Nat
        /\ loc[t].walk.carry = None /\ call[t] \in BodyCall \cup IterCall /\ call[t].op = "iter"
    BY WholeKnows
  <1>2. loc[t].cur \in Nat /\ hashsize(hashpower) \in Nat
    BY <1>1, Hashsize DEF LocalsFit
  <1>3. loc[t].cur <= hashsize(hashpower) /\ ret[t].value = Passed(loc[t].cur)
    BY <1>1 DEF ThreadFits, HoldFits
  <1>4. call[t] \in IterCall
    BY <1>1 DEF BodyCall
  <1>5. call[t].value \subseteq BodyCall
    BY <1>4 DEF IterCall
  <1>6. /\ ~InBody(t) /\ guard[t].phase = "held" /\ guard[t].kind = "AllLocksGuard"
        /\ guard[t].want = Lock
    BY GuardHeld DEF KindAt, WantAt
  <1>. QED BY <1>1, <1>2, <1>3, <1>4, <1>5, <1>6

LEMMA IterGood ==
  ASSUME NEW t \in Thread, IInv, MapInv, iter(t) \/ iter_drop(t)
  PROVE  Good(t)
  <1>1. pc[t] = "iter" /\ guard[t].phase \in {"none", "held"} /\ UNCHANGED tableVars
    BY DEF iter, iter_drop, At
  <1>2. /\ ThreadFits(t) /\ TableTypes /\ Domains /\ LocalsFit(loc[t])
        /\ hashpower \in Nat /\ hashsize(hashpower) \in Nat
        /\ loc[t].walk.carry = None /\ loc[t].cur \in Nat
        /\ call[t] \in IterCall /\ call[t].op = "iter"
        /\ loc[t].cur <= hashsize(hashpower) /\ ret[t].value = Passed(loc[t].cur)
        /\ guard[t].phase = "held"
    BY <1>1, IterKnows
  <1>. PICK b \in Nat : b = loc[t].cur
    BY <1>2
  <1>. DEFINE slots == {buckets[b][s] : s \in Slot} \ {None}
              l     == [loc[t] EXCEPT !.cur = b + 1, !.same = TRUE]
  <1>3. CASE Leave(t, "return") /\ UNCHANGED <<callVars, loc>> /\ OthersKeep(ret, ret', t)
    BY <1>1, <1>3, AnswerGood, Untouched
  <1>4. ASSUME b # hashsize(hashpower), Answer(t, Collected(ret[t].value \cup slots)),
               Local(t, l), Jump(t, "iter")
        PROVE  Good(t)
    <2>1. /\ LocalsFit(l) /\ l.walk = loc[t].walk /\ l.cur = b + 1 /\ l.then = loc[t].then
      BY <1>2 DEF LocalsFit, NoLocals
    <2>2. Local(t, l)
      BY <1>4
    <2>. HIDE DEF l
    <2>3. /\ pc'[t] = "iter" /\ loc'[t] = l /\ guard' = guard /\ call' = call
          /\ UNCHANGED callVars /\ OthersKeep(ret, ret', t)
          /\ ret'[t].value = ret[t].value \cup slots
      BY <1>2, <1>4, <2>2
         DEF Jump, Goto, Local, lockVars, Answer, Collected, callVars, Domains, OthersKeep
    <2>4. IndexFits(t)'
      BY <2>3 DEF IndexFits, Spotted
    <2>5. WalkFits(t)'
      BY <1>2, <2>1, <2>3, WalkIdle
    <2>6. KindAt(t)' = KindAt(t) /\ WantAt(t)' = WantAt(t)
      BY <1>1, <2>3 DEF KindAt, WantAt
    <2>7. HoldFits(t)'
      <3>1. Passed(b + 1) = ret[t].value \cup slots
        BY <1>2, PassedNext
      <3>2. Passed(b + 1)' = Passed(b + 1)
        BY <1>1 DEF Passed, tableVars
      <3>3. b + 1 <= hashsize(hashpower) /\ hashpower' = hashpower
        BY <1>1, <1>2, <1>4 DEF tableVars
      <3>4. loc'[t].cur = b + 1
        BY <2>1, <2>3
      <3>5. (ret[t].value = Passed(loc[t].cur))'
        BY <2>3, <3>1, <3>2, <3>4 DEF Passed
      <3>6. loc'[t].cur <= hashsize(hashpower')
        BY <3>3, <3>4
      <3>7. guard'[t].phase = "held"
        BY <1>2, <2>3
      <3>. QED BY <2>3, <3>5, <3>6, <3>7 DEF HoldFits
    <2>8. LabelFits("iter", call[t].op, l.then)
      BY <1>2 DEF LabelFits
    <2>9. Frame(t) /\ TableTypes'
      BY <1>1, Untouched
    <2>. QED BY <1>1, <1>2, <1>4, <2>1, <2>2, <2>3, <2>4, <2>5, <2>6, <2>7, <2>8, <2>9, StayGood
  <1>5. CASE iter_drop(t)
    <2>1. Leave(t, "return") /\ UNCHANGED <<callVars, loc>> /\ OthersKeep(ret, ret', t)
      BY <1>2, <1>5 DEF iter_drop, Answer, Domains, OthersKeep
    <2>. QED BY <1>3, <2>1
  <1>6. CASE iter(t)
    <2>1. CASE b = hashsize(hashpower)
      BY <1>3, <1>6, <2>1 DEF iter, OthersKeep
    <2>2. CASE b # hashsize(hashpower)
      BY <1>4, <1>6, <2>2 DEF iter
    <2>. QED BY <2>1, <2>2
  <1>. QED BY <1>1, <1>5, <1>6

\* Where a call starts.
LEMMA EntryFits ==
  ASSUME NEW c \in BodyCall \cup IterCall, NEW p, p = EntryLabel(c.op), NEW l,
         l = [NoLocals EXCEPT !.then = IF c.op = "get_key_value" THEN "find" ELSE c.op]
  PROVE  /\ p \in Label /\ p \notin Inside
         /\ c \in BodyCall => p \in InBodies
         /\ p \in {"read_hp", "snapshot_hp", "insert_hp", "clear_lock", "iter_lock", "len",
                   "set_maximum", "set_minimum"}
         /\ LabelFits(p, c.op, l.then) /\ l.then # "recheck"
         /\ p = "snapshot_hp" => c.op \in {"get_key_value", "remove"}
  <1>1. /\ c \in BodyCall \cup IterCall
        /\ c.op \in {"get", "contains_key", "get_key_value", "remove", "insert", "clear", "len",
                     "is_empty", "set_maximum_hashpower", "set_minimum_load_factor", "iter"}
        /\ c \in BodyCall => c.op # "iter"
    BY DEF BodyCall, IterCall
  <1>2. l.then = (IF c.op = "get_key_value" THEN "find" ELSE c.op)
    BY DEF NoLocals
  <1>3. \/ c.op \in {"get", "contains_key"} /\ p = "read_hp"
        \/ c.op \in {"get_key_value", "remove"} /\ p = "snapshot_hp"
        \/ c.op = "insert" /\ p = "insert_hp"
        \/ c.op = "clear" /\ p = "clear_lock"
        \/ c.op = "iter" /\ p = "iter_lock"
        \/ c.op \in {"len", "is_empty"} /\ p = "len"
        \/ c.op = "set_maximum_hashpower" /\ p = "set_maximum"
        \/ c.op = "set_minimum_load_factor" /\ p = "set_minimum"
    <2>1. c.op \in {"get", "contains_key"} => EntryLabel(c.op) = "read_hp"
      BY DEF EntryLabel
    <2>2. c.op \in {"get_key_value", "remove"} => EntryLabel(c.op) = "snapshot_hp"
      BY DEF EntryLabel
    <2>3. c.op = "insert" => EntryLabel(c.op) = "insert_hp"
      BY DEF EntryLabel
    <2>4. c.op = "clear" => EntryLabel(c.op) = "clear_lock"
      BY DEF EntryLabel
    <2>5. c.op = "iter" => EntryLabel(c.op) = "iter_lock"
      BY DEF EntryLabel
    <2>6. c.op \in {"len", "is_empty"} => EntryLabel(c.op) = "len"
      BY DEF EntryLabel
    <2>7. c.op = "set_maximum_hashpower" => EntryLabel(c.op) = "set_maximum"
      BY DEF EntryLabel
    <2>8. c.op = "set_minimum_load_factor" => EntryLabel(c.op) = "set_minimum"
      BY DEF EntryLabel
    <2>. QED BY <1>1, <2>1, <2>2, <2>3, <2>4, <2>5, <2>6, <2>7, <2>8
  <1>4. LabelFits(p, c.op, l.then) /\ l.then # "recheck"
    BY <1>1, <1>2, <1>3 DEF LabelFits
  <1>. QED BY <1>1, <1>2, <1>3, <1>4

\* A thread that starts a call, in the body of an iteration or outside.
LEMMA StartGood ==
  ASSUME NEW t \in Thread, IInv, MapInv, NEW c \in BodyCall \cup IterCall, Start(t, c),
         UNCHANGED <<tableVars, ret, scenario>>, OthersKeep(outer, outer', t),
         OthersKeep(calls, calls', t), calls'[t] \in 0 .. Len(Calls(t)),
         InBody(t)' => c \in BodyCall,
         GuardFits(t)', OuterFits(t)'
  PROVE  Good(t)
  <1>. PICK p : p = EntryLabel(c.op)
    OBVIOUS
  <1>. PICK l : l = [NoLocals EXCEPT !.then = IF c.op = "get_key_value" THEN "find" ELSE c.op]
    OBVIOUS
  <1>1. ThreadFits(t) /\ TableTypes /\ Domains
    BY Knows
  <1>2. /\ p \in Label /\ p \notin Inside
        /\ c \in BodyCall => p \in InBodies
        /\ p \in {"read_hp", "snapshot_hp", "insert_hp", "clear_lock", "iter_lock", "len",
                  "set_maximum", "set_minimum"}
        /\ LabelFits(p, c.op, l.then) /\ l.then # "recheck"
        /\ LocalsFit(l) /\ l.cur = 0 /\ l.walk.carry = None
    <2>1. p \in Label /\ p \notin Inside /\ (c \in BodyCall => p \in InBodies)
      BY EntryFits
    <2>2. p \in {"read_hp", "snapshot_hp", "insert_hp", "clear_lock", "iter_lock", "len",
                  "set_maximum", "set_minimum"}
      BY EntryFits, ZenonT(30)
    <2>3. LabelFits(p, c.op, l.then) /\ l.then # "recheck"
      BY EntryFits, ZenonT(30)
    <2>4. LocalsFit(l) /\ l.cur = 0 /\ l.walk.carry = None
      BY NewLocals DEF LocalsFit, NoLocals
    <2>. QED BY <2>1, <2>2, <2>3, <2>4
  <1>3. call' = [call EXCEPT ![t] = c] /\ Local(t, l) /\ Jump(t, p)
    BY DEF Start
  <1>4. pc'[t] = p /\ loc'[t] = l /\ call'[t] = c /\ guard' = guard
    BY <1>1, <1>3 DEF Jump, Goto, Local, lockVars, Domains
  <1>5. Only(t)
    BY <1>1, <1>3 DEF Only, OthersKeep, Jump, Goto, Local, lockVars, Domains
  <1>6. Frame(t) /\ TableTypes'
    BY Untouched
  <1>7. TypeFits(t)'
    BY <1>2, <1>4 DEF TypeFits, Calls
  <1>8. CallFits(t)'
    BY <1>2, <1>4 DEF CallFits
  <1>9. IndexFits(t)'
    BY <1>2, <1>4 DEF IndexFits, Spotted
  <1>10. WalkFits(t)'
    BY <1>2, <1>4, WalkIdle
  <1>11. HoldFits(t)'
    <2>1. 0 \in Lock
      BY NumLocksAssumption DEF Lock
    <2>. QED BY <1>2, <1>4, <2>1 DEF HoldFits
  <1>. QED BY <1>5, <1>6, <1>7, <1>8, <1>9, <1>10, <1>11 DEF Good, ThreadFits

LEMMA IterBodyGood ==
  ASSUME NEW t \in Thread, IInv, MapInv, iter_body(t)
  PROVE  Good(t)
  <1>. PICK o : o = [call |-> call[t], ret |-> ret[t], loc |-> [loc[t] EXCEPT !.same = FALSE]]
    OBVIOUS
  <1>1. /\ pc[t] = "iter" /\ guard[t].phase \in {"none", "held"}
        /\ UNCHANGED <<tableVars, ret, calls, scenario>> /\ outer' = [outer EXCEPT ![t] = <<o>>]
    BY DEF iter_body, At
  <1>2. PICK c \in call[t].value : Start(t, c)
    BY DEF iter_body
  <1>3. /\ ThreadFits(t) /\ TableTypes /\ Domains /\ LocalsFit(loc[t])
        /\ loc[t].walk.carry = None
        /\ call[t] \in IterCall /\ call[t].value \subseteq BodyCall
        /\ loc[t].cur <= hashsize(hashpower) /\ ret[t].value = Passed(loc[t].cur)
        /\ ~InBody(t) /\ guard[t].phase = "held" /\ guard[t].kind = "AllLocksGuard"
        /\ guard[t].want = Lock
    BY <1>1, IterKnows
  <1>4. c \in BodyCall
    BY <1>3
  <1>5. OthersKeep(outer, outer', t) /\ outer'[t] = <<o>>
    BY <1>1, <1>3 DEF OthersKeep, Domains
  <1>6. o.call = call[t] /\ o.ret = ret[t] /\ LocalsFit(o.loc) /\ o.loc.cur = loc[t].cur
        /\ o.loc.walk = loc[t].walk
    BY <1>3 DEF LocalsFit, NoLocals
  <1>7. guard' = guard /\ call'[t] = c /\ pc'[t] = EntryLabel(c.op)
    BY <1>2, <1>3 DEF Start, Jump, Goto, lockVars, Domains
  <1>8. InBody(t)' /\ Head(outer'[t]) = o
    BY <1>5 DEF InBody
  <1>9. EntryLabel(c.op) \in InBodies
    BY <1>4, EntryFits
  <1>10. GuardFits(t)'
    BY <1>3, <1>7, <1>8, <1>9 DEF GuardFits
  <1>11. OuterFits(t)'
    <2>1. Passed(o.loc.cur)' = Passed(o.loc.cur)
      BY <1>1, <1>6 DEF Passed, tableVars
    <2>. QED BY <1>1, <1>3, <1>4, <1>6, <1>7, <1>8, <2>1 DEF OuterFits, tableVars
  <1>12. OthersKeep(calls, calls', t) /\ calls'[t] \in 0 .. Len(Calls(t))
    BY <1>1, <1>3 DEF OthersKeep, ThreadFits, TypeFits
  <1>. QED BY <1>1, <1>2, <1>4, <1>5, <1>10, <1>11, <1>12, StartGood

LEMMA InvokeGood ==
  ASSUME NEW t \in Thread, IInv, MapInv, Invoke(t)
  PROVE  Good(t)
  <1>1. /\ pc[t] = "idle" /\ calls[t] < Len(Calls(t)) /\ calls' = [calls EXCEPT ![t] = calls[t] + 1]
        /\ UNCHANGED <<tableVars, ret, outer, scenario>>
    BY DEF Invoke, At
  <1>2. PICK c \in Calls(t)[calls[t] + 1] : Start(t, c)
    BY DEF Invoke
  <1>3. ThreadFits(t) /\ Domains /\ calls[t] \in Nat
    BY Knows DEF ThreadFits, TypeFits
  <1>4. Calls(t) \in Seq(SUBSET (BodyCall \cup IterCall))
    BY <1>3, ScriptAssumption DEF Calls, Domains
  <1>5. Len(Calls(t)) \in Nat /\ calls[t] + 1 \in 1 .. Len(Calls(t))
    BY <1>1, <1>3, <1>4
  <1>6. c \in BodyCall \cup IterCall
    BY <1>2, <1>4, <1>5
  <1>7. ~InBody(t) /\ guard[t].phase \in {"none", "unbump", "unlock"}
    BY <1>1, <1>3 DEF ThreadFits, GuardFits
  <1>8. guard' = guard /\ pc'[t] = EntryLabel(c.op)
    BY <1>2, <1>3 DEF Start, Jump, Goto, lockVars, Domains
  <1>9. EntryLabel(c.op) \notin Inside
    BY <1>6, EntryFits, ZenonT(30)
  <1>10. ~InBody(t)'
    BY <1>1, <1>7 DEF InBody
  <1>11. GuardFits(t)' /\ OuterFits(t)'
    BY <1>7, <1>8, <1>9, <1>10 DEF GuardFits, OuterFits
  <1>12. OthersKeep(outer, outer', t) /\ OthersKeep(calls, calls', t)
    BY <1>1, <1>3 DEF OthersKeep, Domains
  <1>13. calls'[t] \in 0 .. Len(Calls(t))
    BY <1>1, <1>3, <1>5 DEF Domains
  <1>. QED BY <1>1, <1>2, <1>6, <1>10, <1>11, <1>12, <1>13, StartGood

LEMMA BodyReturnGood ==
  ASSUME NEW t \in Thread, IInv, MapInv, body_return(t)
  PROVE  Good(t)
  <1>. PICK o : o = Head(outer[t])
    OBVIOUS
  <1>1. /\ pc[t] = "return" /\ InBody(t)
        /\ call' = [call EXCEPT ![t] = o.call] /\ ret' = [ret EXCEPT ![t] = o.ret]
        /\ Local(t, o.loc) /\ outer' = [outer EXCEPT ![t] = <<>>] /\ Jump(t, "iter")
        /\ UNCHANGED <<tableVars, calls, scenario>>
    BY DEF body_return, At
  <1>2. ThreadFits(t) /\ TableTypes /\ Domains
    BY Knows
  <1>3. /\ o.call \in IterCall /\ LocalsFit(o.loc) /\ o.loc.cur <= hashsize(hashpower)
        /\ o.loc.walk.carry = None /\ o.ret.value = Passed(o.loc.cur)
    BY <1>1, <1>2 DEF ThreadFits, OuterFits
  <1>4. o.call.op = "iter"
    BY <1>3 DEF IterCall
  <1>5. guard[t].phase = "held" /\ guard[t].kind = "AllLocksGuard" /\ guard[t].want = Lock
    BY <1>1, <1>2 DEF ThreadFits, GuardFits
  <1>6. /\ pc'[t] = "iter" /\ loc'[t] = o.loc /\ call'[t] = o.call /\ ret'[t] = o.ret
        /\ outer'[t] = <<>> /\ guard' = guard
    BY <1>1, <1>2 DEF Jump, Goto, Local, lockVars, Domains
  <1>7. ~InBody(t)'
    BY <1>6 DEF InBody
  <1>8. Only(t)
    BY <1>1, <1>2 DEF Only, OthersKeep, Jump, Goto, Local, lockVars, Domains
  <1>9. Frame(t) /\ TableTypes'
    BY <1>1, Untouched
  <1>10. TypeFits(t)'
    BY <1>1, <1>2, <1>3, <1>6 DEF ThreadFits, TypeFits, Calls
  <1>11. CallFits(t)'
    BY <1>3, <1>4, <1>6 DEF CallFits, LabelFits
  <1>12. GuardFits(t)'
    BY <1>5, <1>6, <1>7 DEF GuardFits, KindAt, WantAt
  <1>13. IndexFits(t)'
    BY <1>6 DEF IndexFits, Spotted
  <1>14. WalkFits(t)'
    BY <1>3, <1>6, WalkIdle
  <1>15. HoldFits(t)'
    <2>1. buckets' = buckets /\ hashpower' = hashpower
      BY <1>1 DEF tableVars
    <2>2. (ret[t].value = Passed(loc[t].cur))'
      BY <1>3, <1>6, <2>1 DEF Passed
    <2>. QED BY <1>3, <1>5, <1>6, <2>1, <2>2 DEF HoldFits
  <1>16. OuterFits(t)'
    BY <1>7 DEF OuterFits
  <1>. QED BY <1>8, <1>9, <1>10, <1>11, <1>12, <1>13, <1>14, <1>15, <1>16 DEF Good, ThreadFits

LEMMA LenGood ==
  ASSUME NEW t \in Thread, IInv, MapInv, len(t)
  PROVE  Good(t)
  <1>. PICK n : n = loc[t].cur
    OBVIOUS
  <1>. DEFINE l == [loc[t] EXCEPT !.cur = n + 1, !.v1 = loc[t].v1 + elem_counter[n]]
  <1>1. /\ pc[t] = "len" /\ UNCHANGED tableVars
        /\ \/ n + 1 < NumLocks /\ Local(t, l) /\ Jump(t, "len") /\ UNCHANGED threadVars
           \/ /\ \E r : Answer(t, r)
              /\ Jump(t, "return") /\ UNCHANGED loc
    BY DEF len, At
  <1>2. ThreadFits(t) /\ TableTypes /\ Domains /\ LocalsFit(loc[t])
    BY Knows
  <1>3. /\ n \in Lock /\ call[t] \in BodyCall \cup IterCall /\ loc[t].walk.carry = None
        /\ call[t].op \in {"len", "is_empty"}
    BY <1>1, <1>2 DEF ThreadFits, HoldFits, CallFits, WalkFits, LabelFits
  <1>4. /\ LocalsFit(l) /\ l.walk = loc[t].walk /\ l.cur = n + 1 /\ l.then = loc[t].then
    BY <1>2, <1>3 DEF LocalsFit, NoLocals, Lock
  <1>5. CASE n + 1 < NumLocks /\ Local(t, l) /\ Jump(t, "len") /\ UNCHANGED threadVars
    <2>1. Local(t, l)
      BY <1>5
    <2>. HIDE DEF l
    <2>2. pc'[t] = "len" /\ loc'[t] = l /\ l.cur \in Lock
      BY <1>2, <1>3, <1>4, <1>5, <2>1, NumLocksAssumption DEF Jump, Goto, Local, Domains, Lock
    <2>3. IndexFits(t)' /\ HoldFits(t)'
      BY <2>2 DEF IndexFits, Spotted, HoldFits
    <2>4. WalkFits(t)'
      BY <1>3, <1>4, <2>2, WalkIdle
    <2>5. LabelFits("len", call[t].op, l.then)
      BY <1>3 DEF LabelFits
    <2>6. Frame(t) /\ TableTypes'
      BY <1>1, Untouched
    <2>7. OthersKeep(ret, ret', t) /\ UNCHANGED <<callVars, buckets, hashpower>>
      BY <1>1, <1>5 DEF OthersKeep, threadVars, tableVars
    <2>. QED BY <1>1, <1>3, <1>4, <1>5, <2>1, <2>3, <2>4, <2>5, <2>6, <2>7, OutsideGood
  <1>6. CASE (\E r : Answer(t, r)) /\ Jump(t, "return") /\ UNCHANGED loc
    <2>1. OthersKeep(ret, ret', t) /\ UNCHANGED <<callVars, tableVars>>
      BY <1>1, <1>2, <1>6 DEF OthersKeep, Answer, Domains
    <2>2. pc'[t] = "return" /\ loc' = loc
      BY <1>2, <1>6 DEF Jump, Goto, Domains
    <2>3. IndexFits(t)'
      BY <2>2 DEF IndexFits, Spotted
    <2>4. WalkFits(t)'
      BY <1>3, <2>2, WalkIdle
    <2>5. LabelFits("return", call[t].op, loc[t].then)
      BY DEF LabelFits
    <2>. QED BY <1>1, <1>2, <1>3, <1>6, <2>1, <2>2, <2>3, <2>4, <2>5, QuietGood
  <1>. QED BY <1>1, <1>5, <1>6

LEMMA SetGood ==
  ASSUME NEW t \in Thread, IInv, MapInv, set_maximum(t) \/ set_minimum(t)
  PROVE  Good(t)
  <1>1. /\ pc[t] \in {"set_maximum", "set_minimum"}
        /\ UNCHANGED <<buckets, hashpower, resize_counter, elem_counter, loc>>
    BY DEF set_maximum, set_minimum, At
  <1>2. ThreadFits(t) /\ TableTypes /\ Domains /\ LocalsFit(loc[t])
    BY Knows
  <1>3. /\ call[t] \in BodyCall \cup IterCall /\ loc[t].walk.carry = None
        /\ pc[t] = "set_maximum" => call[t].op = "set_maximum_hashpower"
    BY <1>1, <1>2 DEF ThreadFits, CallFits, WalkFits, LabelFits
  <1>4. maximum_hashpower' \in Nat
    <2>1. CASE pc[t] = "set_maximum"
      <3>1. call[t].value \in Nat
        BY <1>3, <2>1 DEF BodyCall, IterCall
      <3>. QED BY <2>1, <3>1 DEF set_maximum, set_minimum, At
    <2>2. CASE pc[t] = "set_minimum"
      BY <1>2, <2>2 DEF set_maximum, set_minimum, At, TableTypes
    <2>. QED BY <1>1, <2>1, <2>2
  <1>5. minimum_load_factor' \in 0 .. 100
    BY <1>2 DEF set_maximum, set_minimum, At, TableTypes
  <1>6. Frame(t) /\ TableTypes'
    BY <1>1, <1>4, <1>5, TableUntouched
  <1>7. ASSUME pc'[t] \in {"return", "panicked"}
        PROVE  IndexFits(t)' /\ HoldFits(t)' /\ WalkFits(t)'
    <2>1. IndexFits(t)' /\ HoldFits(t)'
      BY <1>7 DEF IndexFits, Spotted, HoldFits
    <2>2. WalkFits(t)'
      BY <1>1, <1>3, <1>7, WalkIdle
    <2>. QED BY <2>1, <2>2
  <1>8. ASSUME NEW p \in {"return", "panicked"}, Jump(t, p), UNCHANGED threadVars
        PROVE  Good(t)
    <2>1. pc'[t] = p
      BY <1>2, <1>8 DEF Jump, Goto, Domains
    <2>2. LabelFits(p, call[t].op, loc[t].then)
      BY DEF LabelFits
    <2>3. OthersKeep(ret, ret', t) /\ UNCHANGED <<callVars, buckets, hashpower>>
      BY <1>1, <1>8 DEF OthersKeep, threadVars
    <2>. QED BY <1>1, <1>2, <1>3, <1>6, <1>7, <1>8, <2>1, <2>2, <2>3, OutsideGood
  <1>9. ASSUME InBody(t), Unwind(t) PROVE Good(t)
    <2>. PICK o : o = Head(outer[t])
      OBVIOUS
    <2>1. /\ call' = [call EXCEPT ![t] = o.call] /\ ret' = [ret EXCEPT ![t] = Ok(None)]
          /\ outer' = [outer EXCEPT ![t] = <<>>]
          /\ Leave(t, "panicked") /\ UNCHANGED <<calls, scenario>>
      BY <1>9 DEF Unwind
    <2>2. o.call \in IterCall
      BY <1>2, <1>9 DEF ThreadFits, OuterFits
    <2>3. /\ pc'[t] = "panicked" /\ loc' = loc /\ call'[t] = o.call /\ outer'[t] = <<>>
      BY <1>1, <1>2, <2>1 DEF Leave, Goto, Domains
    <2>4. /\ guard'[t].phase \in {"unbump", "unlock"}
          /\ OthersKeep(guard, guard', t)
      BY <2>1 DEF Leave, drop, OthersKeep, IInv, LocksTypeOK
    <2>5. ~InBody(t)'
      BY <2>3 DEF InBody
    <2>6. Only(t)
      BY <1>1, <1>2, <2>1, <2>4 DEF Only, OthersKeep, Leave, Goto, Domains
    <2>7. TypeFits(t)' /\ CallFits(t)'
      BY <1>2, <2>1, <2>2, <2>3 DEF ThreadFits, TypeFits, CallFits, LabelFits, Calls
    <2>8. GuardFits(t)'
      BY <2>3, <2>4, <2>5 DEF GuardFits
    <2>9. OuterFits(t)'
      BY <2>5 DEF OuterFits
    <2>. QED BY <1>6, <1>7, <2>3, <2>6, <2>7, <2>8, <2>9 DEF Good, ThreadFits
  <1>. QED BY <1>8, <1>9 DEF set_maximum, set_minimum, Unwind

LEMMA ReturnGood ==
  ASSUME NEW t \in Thread, IInv, MapInv, Return(t)
  PROVE  Good(t)
  <1>1. /\ pc[t] = "return" /\ ~InBody(t) /\ guard[t].phase \in {"none", "held"}
        /\ call' = [call EXCEPT ![t] = NoCall] /\ ret' = [ret EXCEPT ![t] = Ok(None)]
        /\ Local(t, NoLocals) /\ Jump(t, "idle")
        /\ UNCHANGED <<tableVars, outer, calls, scenario>>
    BY DEF Return, At
  <1>2. ThreadFits(t) /\ TableTypes /\ Domains
    BY Knows
  <1>3. /\ pc'[t] = "idle" /\ loc'[t] = NoLocals /\ call'[t] = NoCall
        /\ outer' = outer /\ guard' = guard
    BY <1>1, <1>2 DEF Jump, Goto, Local, lockVars, Domains
  <1>4. ~InBody(t)'
    BY <1>1, <1>3 DEF InBody
  <1>5. Only(t)
    BY <1>1, <1>2 DEF Only, OthersKeep, Jump, Goto, Local, lockVars, Domains
  <1>6. Frame(t) /\ TableTypes'
    BY <1>1, Untouched
  <1>7. TypeFits(t)' /\ CallFits(t)'
    BY <1>1, <1>2, <1>3, NewLocals DEF ThreadFits, TypeFits, CallFits, LabelFits, Calls
  <1>8. GuardFits(t)'
    BY <1>1, <1>2, <1>3, <1>4 DEF ThreadFits, GuardFits
  <1>9. IndexFits(t)' /\ HoldFits(t)'
    BY <1>3 DEF IndexFits, Spotted, HoldFits
  <1>10. WalkFits(t)'
    BY <1>3, NewLocals, WalkIdle
  <1>11. OuterFits(t)'
    BY <1>4 DEF OuterFits
  <1>. QED BY <1>5, <1>6, <1>7, <1>8, <1>9, <1>10, <1>11 DEF Good, ThreadFits

\* A step of the guard of t.  The label waits: only its guard moves.
LEMMA GuardStepGood ==
  ASSUME NEW t \in Thread, IInv, MapInv, GuardStep(t),
         UNCHANGED <<tableVars, threadVars, pc, loc>>
  PROVE  Good(t)
  <1>1. ThreadFits(t) /\ TableTypes /\ Domains
    BY Knows
  <1>2. guard \in [Thread -> GuardRecord]
    BY DEF IInv, LocksTypeOK
  <1>3. /\ OthersKeep(guard, guard', t) /\ guard[t].phase # "held"
        /\ \/ /\ guard[t].phase \in {"lock", "bump"} /\ guard'[t].phase \in {"lock", "bump", "held"}
              /\ guard'[t].kind = guard[t].kind /\ guard'[t].want = guard[t].want
           \/ /\ guard[t].phase \in {"unbump", "unlock"}
              /\ guard'[t].phase \in {"none", "unbump", "unlock"}
    <2>1. CASE AcquireNext(t)
      BY <1>2, <2>1 DEF AcquireNext, AfterLocking, GuardRecord, OthersKeep
    <2>2. CASE BumpNext(t)
      BY <1>2, <2>2 DEF BumpNext, GuardRecord, OthersKeep
    <2>3. CASE UnbumpNext(t)
      BY <1>2, <2>3 DEF UnbumpNext, GuardRecord, OthersKeep
    <2>4. CASE ReleaseNext(t)
      BY <1>2, <2>4 DEF ReleaseNext, NoGuard, GuardRecord, OthersKeep
    <2>. QED BY <2>1, <2>2, <2>3, <2>4 DEF GuardStep
  <1>4. Only(t) /\ Frame(t) /\ TableTypes'
    BY <1>1, <1>3, Untouched DEF Only, OthersKeep, threadVars, callVars
  <1>5. TypeFits(t)' /\ CallFits(t)' /\ IndexFits(t)'
    BY <1>1 DEF ThreadFits, TypeFits, CallFits, IndexFits, Spotted, Calls, threadVars, callVars,
                tableVars
  <1>6. GuardFits(t)'
    BY <1>1, <1>3 DEF ThreadFits, GuardFits, KindAt, WantAt, InBody, threadVars, callVars
  <1>7. WalkFits(t)'
    BY <1>1 DEF ThreadFits, WalkFits, PathFits, Linked, threadVars, callVars, tableVars
  <1>8. HoldFits(t)'
    BY <1>1, <1>3 DEF ThreadFits, HoldFits, Passed, threadVars, callVars, tableVars
  <1>9. OuterFits(t)'
    BY <1>1, OuterSame DEF ThreadFits, threadVars, callVars, tableVars
  <1>. QED BY <1>4, <1>5, <1>6, <1>7, <1>8, <1>9 DEF Good, ThreadFits

-----------------------------------------------------------------------------
(***************************************************************************)
(* The invariant: every step keeps it, and it holds at the start.          *)
(***************************************************************************)
LEMMA ThreadGood ==
  ASSUME NEW t \in Thread, IInv, MapInv, Invoke(t) \/ Continue(t)
  PROVE  Good(t)
  <1>1. CASE Invoke(t)
    BY <1>1, InvokeGood
  <1>2. CASE Lookup(t)
    BY <1>2, ReadHashpowerGood, ReadCounterGood, ValidateGood, AfterCounterGood, FindGood DEF Lookup
  <1>3. CASE Snapshot(t)
    BY <1>3, ReadHashpowerGood, SnapshotCounterGood, FindGood DEF Snapshot
  <1>4. CASE Update(t)
    BY <1>4, InsertQuietGood, InsertGood, CountGood, RemoveGood, RecheckGood DEF Update
  <1>5. CASE RunCuckoo(t)
    BY <1>5, RunHpGood, RunCounterGood, SearchCounterGood, SearchSlotGood, SearchPartialGood,
       PathQuietGood, PathVersionGood, PathOccupiedGood, PathKeyGood, LockPathGood, ClaimGood,
       MoveGood, MoveSetGood DEF RunCuckoo
  <1>6. CASE Resize(t)
    BY <1>6, WholeLockGood, ResizeGood, ResizeLoadGood, RehashOneGood, RehashTwoGood,
       ResizeCountGood DEF Resize
  <1>7. CASE WholeTable(t)
    BY <1>7, WholeLockGood, ClearGood, ClearCountGood, IterGood, IterBodyGood, BodyReturnGood,
       LenGood, SetGood DEF WholeTable
  <1>8. CASE Return(t)
    BY <1>8, ReturnGood
  <1>9. CASE GuardStep(t) /\ UNCHANGED <<tableVars, threadVars, pc, loc>>
    BY <1>9, GuardStepGood
  <1>. QED BY <1>1, <1>2, <1>3, <1>4, <1>5, <1>6, <1>7, <1>8, <1>9 DEF Continue

LEMMA StutterMapInv ==
  ASSUME MapInv, UNCHANGED vars
  PROVE  MapInv'
  <1>1. /\ UNCHANGED <<guard, buckets, hashpower, resize_counter, elem_counter>>
        /\ UNCHANGED <<maximum_hashpower, minimum_load_factor>>
        /\ UNCHANGED <<pc, call, ret, loc, outer, calls, scenario>>
    BY DEF vars, lockVars, tableVars, settings, threadVars, callVars
  <1>2. TableTypes' /\ Domains'
    BY <1>1 DEF MapInv, TableTypes, Domains
  <1>3. ASSUME NEW t \in Thread PROVE ThreadFits(t)'
    <2>1. ThreadFits(t)
      BY DEF MapInv
    <2>2. TypeFits(t)' /\ CallFits(t)' /\ IndexFits(t)'
      BY <1>1, <2>1 DEF ThreadFits, TypeFits, CallFits, IndexFits, Spotted, Calls
    <2>3. GuardFits(t)'
      BY <1>1, <2>1 DEF ThreadFits, GuardFits, KindAt, WantAt, InBody
    <2>4. WalkFits(t)'
      BY <1>1, <2>1 DEF ThreadFits, WalkFits, PathFits, Linked
    <2>5. HoldFits(t)'
      BY <1>1, <2>1 DEF ThreadFits, HoldFits, Passed
    <2>6. OuterFits(t)'
      BY <1>1, <2>1, OuterSame DEF ThreadFits
    <2>. QED BY <2>2, <2>3, <2>4, <2>5, <2>6 DEF ThreadFits
  <1>. QED BY <1>2, <1>3 DEF MapInv

LEMMA StepMapInv == IInv /\ MapInv /\ [Next]_vars => MapInv'
  <1> SUFFICES ASSUME IInv, MapInv, [Next]_vars PROVE MapInv'
    OBVIOUS
  <1>1. CASE \E t \in Thread : Invoke(t) \/ Continue(t)
    BY <1>1, ThreadGood, GoodStep
  <1>2. CASE UNCHANGED vars
    BY <1>2, StutterMapInv
  <1>. QED BY <1>1, <1>2 DEF Next, AllStopped

\* The table that the preloading yields.
LEMMA PreloadedType ==
  ASSUME NEW items \in Seq(Item)
  PROVE  Preloaded(items) \in TabType(InitHashpower)
  <1>. DEFINE h == InitHashpower
              S == TabType(h)
              N == Len(items)
              start == BucketContainer(h)
              Add(tab, item) ==
                LET c == CHOOSE c \in free_cell(tab, Bucket1(InitHashpower, item.key),
                                                     Bucket2(InitHashpower, item.key)) : TRUE
                IN  set_kv(tab, c[1], c[2], item)
              g == [n \in 1 .. N |-> [z \in S |-> Add(z, items[n])]]
              after[n \in 0 .. N] == IF n = 0 THEN start ELSE Add(after[n - 1], items[n])
  <1>1. N \in Nat /\ \A n \in 1 .. N : items[n] \in Item
    OBVIOUS
  <1>2. start \in S
    BY EmptyTab
  <1>3. \A z \in S, item \in Item : Add(z, item) \in S
    BY WriteType DEF Cell
  <1>4. Preloaded(items) = after[N]
    BY DEF Preloaded
  <1>. HIDE DEF S, N, start, Add
  <1>5. g \in [1 .. N -> [S -> S]] /\ \A n \in 1 .. N, z \in S : g[n][z] = Add(z, items[n])
    BY <1>1, <1>3
  <1>. HIDE DEF g
  <1>6. PICK f : Recurs(f, S, N, start, g)
    BY <1>1, <1>2, <1>5, BoundedRecursion, Zenon
  <1>7. f = [n \in 0 .. N |-> IF n = 0 THEN start ELSE Add(f[n - 1], items[n])]
    <2>1. f \in [0 .. N -> S]
      BY <1>6 DEF Recurs
    <2>2. f = [n \in 0 .. N |-> IF n = 0 THEN start ELSE g[n][f[n - 1]]]
      BY <1>6 DEF Recurs
    <2>3. \A n \in 0 .. N : n # 0 => g[n][f[n - 1]] = Add(f[n - 1], items[n])
      BY <1>1, <1>5, <2>1
    <2>. QED BY <2>2, <2>3
  <1>8. after = [n \in 0 .. N |-> IF n = 0 THEN start ELSE Add(after[n - 1], items[n])]
    BY <1>7, Zenon
  <1>. HIDE DEF after
  <1>9. \A n \in 0 .. N : after[n] = IF n = 0 THEN start ELSE Add(after[n - 1], items[n])
    BY <1>8, Zenon
  <1>10. \A n \in Nat : n <= N => after[n] \in S
    <2>. DEFINE T == {n \in Nat : n <= N => after[n] \in S}
    <2>1. 0 \in T
      BY <1>1, <1>2, <1>9
    <2>2. ASSUME NEW n \in Nat, n \in T PROVE n + 1 \in T
      <3> SUFFICES ASSUME n + 1 <= N PROVE after[n + 1] \in S
        OBVIOUS
      <3>1. PICK m \in 1 .. N : m = n + 1
        BY <1>1
      <3>2. m \in 0 .. N /\ m # 0 /\ m - 1 = n
        BY <1>1, <3>1
      <3>3. after[m] = Add(after[m - 1], items[m])
        BY <1>9, <3>2, Zenon
      <3>4. after[m - 1] \in S
        BY <1>1, <2>2, <3>1, <3>2
      <3>. QED BY <1>1, <1>3, <3>1, <3>3, <3>4
    <2>. HIDE DEF T
    <2>3. \A n \in Nat : n \in T
      BY <2>1, <2>2, SetInduction
    <2>. QED BY <2>3 DEF T
  <1>11. after[N] \in S
    BY <1>1, <1>10
  <1>. QED BY <1>4, <1>11 DEF S

LEMMA InitMapInv ==
  ASSUME Init
  PROVE  MapInv
  <1>. DEFINE tab == Preloaded(Preload[scenario])
              lim == hashsize(InitHashpower)
  <1>1. scenario \in DOMAIN Script /\ InitHashpower \in Nat
    BY StripesAssumption DEF Init, TableInit
  <1>2. tab \in TabType(InitHashpower)
    BY <1>1, ScriptAssumption, PreloadedType
  <1>3. /\ buckets = tab /\ hashpower = InitHashpower /\ resize_counter = 0
        /\ elem_counter = [l \in Lock |-> Cardinality(ItemsUnder(tab, l))]
        /\ maximum_hashpower = InitMaximum /\ minimum_load_factor = MinimumLoad
    BY DEF Init, TableInit
  <1>4. \A l \in Lock : Cardinality(ItemsUnder(tab, l)) \in Nat
    <2>1. lim \in Nat /\ Index(InitHashpower) = 0 .. lim - 1
      BY <1>1, Hashsize DEF Index
    <2>. HIDE DEF lim
    <2>2. IsFiniteSet(0 .. lim - 1) /\ IsFiniteSet(Slot)
      BY <2>1, TableAssumption, FS_Interval DEF Slot
    <2>3. IsFiniteSet((0 .. lim - 1) \X Slot)
      BY <2>2, FS_Product
    <2>4. DOMAIN tab = 0 .. lim - 1
      BY <1>2, <2>1 DEF TabType
    <2>. HIDE DEF tab
    <2>5. ASSUME NEW l \in Lock PROVE Cardinality(ItemsUnder(tab, l)) \in Nat
      <3>1. ItemsUnder(tab, l) \subseteq (0 .. lim - 1) \X Slot
        BY <2>4 DEF ItemsUnder
      <3>. QED BY <2>3, <3>1, FS_Subset, FS_CardinalityType
    <2>. QED BY <2>5
  <1>5. TableTypes
    BY <1>1, <1>2, <1>3, <1>4, SettingsAssumption DEF TableTypes
  <1>6. Domains
    BY <1>1 DEF Init, Domains
  <1>7. ASSUME NEW t \in Thread PROVE ThreadFits(t)
    <2>1. /\ pc[t] = "idle" /\ call[t] = NoCall /\ loc[t] = NoLocals /\ outer[t] = <<>>
          /\ calls[t] = 0 /\ guard[t].phase = "none"
      BY DEF Init, LocksInit, NoGuard
    <2>2. Len(Calls(t)) \in Nat
      BY <1>1, ScriptAssumption DEF Calls
    <2>3. TypeFits(t) /\ CallFits(t)
      BY <2>1, <2>2, NewLocals DEF TypeFits, CallFits, LabelFits
    <2>4. GuardFits(t) /\ OuterFits(t)
      BY <2>1 DEF GuardFits, OuterFits, InBody
    <2>5. IndexFits(t) /\ HoldFits(t)
      BY <2>1 DEF IndexFits, Spotted, HoldFits
    <2>6. WalkFits(t)
      BY <2>1, NewLocals DEF WalkFits
    <2>. QED BY <2>3, <2>4, <2>5, <2>6 DEF ThreadFits
  <1>. QED BY <1>5, <1>6, <1>7 DEF MapInv

LEMMA MapInvHolds == Spec => [](IInv /\ MapInv)
  <1>1. Init => IInv /\ MapInv
    BY InitIInv, InitMapInv DEF Init
  <1>2. IInv /\ MapInv /\ [Next]_vars => (IInv /\ MapInv)'
    BY MapStepIInv, StepMapInv
  <1>. QED BY <1>1, <1>2, PTL DEF Spec

-----------------------------------------------------------------------------
(***************************************************************************)
(* What follows from it.                                                   *)
(***************************************************************************)

\* Each thread has, at each label, the guard, indices, path and copies of
\* shared values that its next step relies on, whatever the other threads have
\* done to the table since it took them.
THEOREM ThreadsFit == Spec => []MapInv
  BY MapInvHolds, PTL

\* The table is always a container of 2^hashpower buckets of slots that hold
\* items, also in the middle of a rehash, a clear or a hop.
THEOREM TypesHold == Spec => []TypeOK
  <1>1. IInv /\ MapInv => TypeOK
    BY DEF IInv, MapInv, TableTypes, ThreadFits, TypeFits, TypeOK
  <1>. QED BY <1>1, MapInvHolds, PTL

\* A slot, a counter and the container only change under the stripes that
\* protect them, with odd versions, although the writer's indices and its path
\* may be older than the table: what an optimistic lookup that sees an even
\* version unchanged relies on.
THEOREM WritesAreLocked == Spec => WritesUnderLock
  <1>. DEFINE W == \E t \in Thread :
                     /\ (hashpower' # hashpower \/ resize_counter' # resize_counter)
                          => \A l \in Lock : Writing(t, l)
                     /\ hashpower' = hashpower
                          => \A b \in DOMAIN buckets : Changed(b) => Writing(t, lock_ind(b))
                     /\ \A l \in Lock : elem_counter'[l] # elem_counter[l] => Writing(t, l)
  <1>1. ASSUME IInv /\ MapInv, [Next]_vars PROVE [W]_vars
    <2>1. CASE \E t \in Thread : Invoke(t) \/ Continue(t)
      <3>1. PICK t \in Thread : Good(t)
        BY <1>1, <2>1, ThreadGood
      <3>2. DOMAIN buckets = Index(hashpower) /\ DOMAIN buckets' = Index(hashpower')
        BY <1>1, <3>1 DEF MapInv, TableTypes, TabType, Good
      <3>. QED BY <3>1, <3>2 DEF Good, Frame, Changed
    <2>. QED BY <1>1, <2>1 DEF Next, AllStopped
  <1>. QED BY <1>1, MapInvHolds, PTL DEF Spec, WritesUnderLock

\* While an iterator has all the stripes, no other thread changes what it has
\* passed, and nor do the calls that its own loop body makes: what it has
\* collected is at every moment what those buckets hold.
THEOREM IteratorsSeeTheTable == Spec => []IterSeesTable
  <1>1. MapInv => IterSeesTable
    BY DEF MapInv, ThreadFits, HoldFits, IterSeesTable, At, Passed
  <1>. QED BY <1>1, MapInvHolds, PTL

\* The path of a hop was read with no lock, and other threads have moved items
\* since; yet the two stripes it takes and the partial it compares are enough
\* for the item it carries to be set in the other of its key's two buckets.
THEOREM HopsKeepItemsHome == Spec => []HopsStayHome
  <1>1. ASSUME MapInv PROVE HopsStayHome
    <2> SUFFICES ASSUME NEW t \in Thread, loc[t].walk.carry # None,
                        loc[t].walk.path[loc[t].walk.at - 1].bucket \in Homes(loc[t].walk.carry.key)
                 PROVE  loc[t].walk.path[loc[t].walk.at].bucket \in Homes(loc[t].walk.carry.key)
      BY DEF HopsStayHome
    <2>. PICK w : w = loc[t].walk
      BY Zenon
    <2>1. /\ pc[t] = "move_set" /\ PathFits(t) /\ w.at \in Nat /\ w.at # 0 /\ hashpower = w.hp
          /\ w.carry \in Item /\ w.path[w.at - 1].hv # None
          /\ w.path[w.at - 1].hv.partial = hash_key[w.carry.key].partial
          /\ hashpower \in Nat
      BY <1>1, Zenon DEF MapInv, TableTypes, ThreadFits, TypeFits, LocalsFit, WalkFits, HoldFits
    <2>2. PICK d \in 0 .. MAX_BFS_PATH_LEN - 1 : DOMAIN w.path = 0 .. d /\ w.at <= d
      BY <2>1 DEF PathFits
    <2>3. PICK i \in DOMAIN w.path : i = w.at - 1 /\ i < w.at /\ i + 1 = w.at
      <3>1. w.at - 1 \in 0 .. d /\ w.at - 1 < w.at /\ w.at - 1 + 1 = w.at
        BY <2>1, <2>2
      <3>. QED BY <2>2, <3>1
    <2>4. w.path[i + 1].bucket = alt_index(w.hp, w.path[i].hv.partial, w.path[i].bucket)
      BY <2>1, <2>3, Zenon DEF PathFits, Linked
    <2>5. w.carry.key \in Key
      BY <2>1 DEF Item
    <2>. QED BY <2>1, <2>3, <2>4, <2>5, BucketsAlternate DEF Homes
  <1>. QED BY <1>1, MapInvHolds, PTL
=============================================================================

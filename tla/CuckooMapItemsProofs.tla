------------------------ MODULE CuckooMapItemsProofs ------------------------
(***************************************************************************)
(* As long as no item is lost and no insert uses indices of an earlier     *)
(* size, the stripe counters agree with the items of the map, whatever the *)
(* threads, keys, hashes, table sizes and scripts.                         *)
(*                                                                         *)
(* The items are those of the table, those that the stepping thread has    *)
(* away from it, and those that the others have away (Elsewhere). A step   *)
(* does not touch the last ones, and its stripes keep them apart from the  *)
(* key it works on. So it adds at most one item or removes at most one,    *)
(* and the sum of the counters and of what is owed moves by as much.       *)
(***************************************************************************)
EXTENDS CuckooMapHomeProofs, CuckooMapItems

-----------------------------------------------------------------------------
(***************************************************************************)
(* Sums over the elements of a finite set, in the order in which           *)
(* MapThenFoldSet chooses them.                                            *)
(***************************************************************************)
Chosen(s) == CHOOSE x \in s : TRUE

\* A set of subsets that is closed under adding back the chosen element has all.
LEMMA SubsetInduction ==
  ASSUME NEW S, IsFiniteSet(S), NEW T, {} \in T,
         \A s \in SUBSET S : s # {} /\ s \ {Chosen(s)} \in T => s \in T
  PROVE  \A s \in SUBSET S : s \in T
  <1>. DEFINE U == {n \in Nat : \A s \in SUBSET S : Cardinality(s) <= n => s \in T}
  <1>1. \A s \in SUBSET S : IsFiniteSet(s) /\ Cardinality(s) \in Nat
    BY FS_Subset, FS_CardinalityType
  <1>2. 0 \in U
    <2>1. ASSUME NEW s \in SUBSET S, Cardinality(s) <= 0 PROVE s = {}
      BY <1>1, <2>1, FS_EmptySet
    <2>. QED BY <2>1
  <1>3. ASSUME NEW n \in Nat, n \in U PROVE n + 1 \in U
    <2>1. ASSUME NEW s \in SUBSET S, Cardinality(s) <= n + 1, s # {} PROVE s \in T
      <3>1. PICK x : x = Chosen(s) /\ x \in s
        BY <2>1 DEF Chosen
      <3>2. Cardinality(s \ {x}) = Cardinality(s) - 1
        BY <1>1, <3>1, FS_RemoveElement
      <3>3. s \ {x} \in SUBSET S /\ Cardinality(s \ {x}) <= n
        BY <1>1, <2>1, <3>2
      <3>4. s \ {x} \in T
        BY <1>3, <3>3
      <3>. QED BY <2>1, <3>1, <3>4
    <2>. QED BY <2>1
  <1>. HIDE DEF U
  <1>4. \A n \in Nat : n \in U
    BY <1>2, <1>3, SetInduction
  <1>. QED BY <1>1, <1>4 DEF U

SumStep(f, it, s) == f[Chosen(s)] + it[s \ {Chosen(s)}]

SumsOf(f, S, it) == it = [s \in SUBSET S |-> IF s = {} THEN 0 ELSE SumStep(f, it, s)]

LEMMA SumIs ==
  ASSUME NEW f, NEW S, S = DOMAIN f
  PROVE  SumFunction(f) = (CHOOSE it : SumsOf(f, S, it))[S]
  BY DEF SumFunction, SumFunctionOnSet, FoldFunctionOnSet, MapThenFoldSet, SumsOf, SumStep, Chosen

LEMMA SumExists ==
  ASSUME NEW S, IsFiniteSet(S), NEW f \in [S -> Int]
  PROVE  \E it \in [SUBSET S -> Int] : SumsOf(f, S, it)
  <1>. DEFINE G == [SUBSET S -> Int]
              Step(g) == [s \in SUBSET S |-> IF s = {} THEN 0 ELSE SumStep(f, g, s)]
              step == [n \in Nat |-> [g \in G |-> Step(g)]]
              zero == [s \in SUBSET S |-> 0]
  <1>1. ASSUME NEW g \in G PROVE Step(g) \in G
    <2>1. ASSUME NEW s \in SUBSET S, s # {} PROVE SumStep(f, g, s) \in Int
      <3>1. Chosen(s) \in s
        BY <2>1 DEF Chosen
      <3>. QED BY <3>1 DEF SumStep
    <2>. QED BY <2>1
  <1>2. zero \in G /\ zero[{}] = 0
    OBVIOUS
  <1>3. \A g : Step(g)[{}] = 0 /\ \A s \in SUBSET S : s # {} => Step(g)[s] = SumStep(f, g, s)
    OBVIOUS
  <1>. HIDE DEF zero, Step
  <1>4. step \in [Nat -> [G -> G]] /\ \A n \in Nat, g \in G : step[n][g] = Step(g)
    BY <1>1
  <1>. HIDE DEF step, G
  <1>5. PICK F : Iterates(F, G, zero, step)
    BY <1>2, <1>4, Iteration, Zenon
  <1>6. F[0] = zero /\ \A n \in Nat : F[n] \in G /\ F[n + 1] = Step(F[n])
    BY <1>4, <1>5 DEF Iterates
  <1>. DEFINE U == {n \in Nat : \A s \in SUBSET S : Cardinality(s) <= n => F[n][s] = F[n + 1][s]}
  <1>7. \A s \in SUBSET S : IsFiniteSet(s) /\ Cardinality(s) \in Nat
    BY FS_Subset, FS_CardinalityType
  <1>8. 0 \in U
    <2>1. ASSUME NEW s \in SUBSET S, Cardinality(s) <= 0 PROVE s = {}
      BY <1>7, <2>1, FS_EmptySet
    <2>2. F[0][{}] = F[0 + 1][{}]
      BY <1>2, <1>3, <1>6
    <2>. QED BY <2>1, <2>2
  <1>9. ASSUME NEW n \in Nat, n \in U PROVE n + 1 \in U
    <2>1. ASSUME NEW s \in SUBSET S, Cardinality(s) <= n + 1 PROVE F[n + 1][s] = F[(n + 1) + 1][s]
      <3>1. PICK m \in Nat : m = n + 1
        OBVIOUS
      <3>2. F[m] = Step(F[n]) /\ F[m + 1] = Step(F[m])
        BY <1>6, <3>1
      <3>3. CASE s = {}
        BY <1>3, <3>1, <3>2, <3>3
      <3>4. CASE s # {}
        <4>1. PICK x : x = Chosen(s) /\ x \in s
          BY <3>4 DEF Chosen
        <4>2. Cardinality(s \ {x}) = Cardinality(s) - 1
          BY <1>7, <4>1, FS_RemoveElement
        <4>3. s \ {x} \in SUBSET S /\ Cardinality(s \ {x}) <= n
          BY <1>7, <2>1, <4>2
        <4>4. F[n][s \ {x}] = F[m][s \ {x}]
          BY <1>9, <3>1, <4>3
        <4>5. SumStep(f, F[n], s) = SumStep(f, F[m], s)
          BY <4>1, <4>4 DEF SumStep
        <4>6. F[m][s] = F[m + 1][s]
          BY <1>3, <3>2, <3>4, <4>5
        <4>. QED BY <3>1, <4>6
      <3>. QED BY <3>3, <3>4
    <2>. QED BY <2>1
  <1>. HIDE DEF U
  <1>10. \A n \in Nat : n \in U
    BY <1>8, <1>9, SetInduction
  <1>11. PICK n \in Nat : n = Cardinality(S)
    BY FS_CardinalityType
  <1>12. \A s \in SUBSET S : Cardinality(s) <= n
    BY <1>11, FS_Subset
  <1>13. \A s \in SUBSET S : F[n][s] = F[n + 1][s]
    BY <1>10, <1>12 DEF U
  <1>14. F[n] \in G /\ F[n + 1] \in G /\ F[n + 1] = Step(F[n])
    BY <1>1, <1>6
  <1>15. F[n] = F[n + 1]
    BY <1>13, <1>14 DEF G
  <1>16. F[n] = Step(F[n])
    BY <1>14, <1>15
  <1>17. SumsOf(f, S, F[n])
    BY <1>16 DEF SumsOf, Step
  <1>. QED BY <1>14, <1>17 DEF G

\* A sum adds up the chosen elements one after the other.
AddsUp(f, S, it) ==
  /\ it \in [SUBSET S -> Int] /\ it[{}] = 0 /\ SumFunction(f) = it[S]
  /\ \A s \in SUBSET S : s # {} => it[s] = f[Chosen(s)] + it[s \ {Chosen(s)}]

LEMMA SumByStep ==
  ASSUME NEW S, IsFiniteSet(S), NEW f \in [S -> Int]
  PROVE  \E it : AddsUp(f, S, it)
  <1>1. PICK it \in [SUBSET S -> Int] : SumsOf(f, S, it)
    BY SumExists
  <1>2. PICK other : other = (CHOOSE a : SumsOf(f, S, a)) /\ SumsOf(f, S, other)
    BY <1>1
  <1>3. SumFunction(f) = other[S]
    BY <1>2, SumIs
  <1>. DEFINE T == {s \in SUBSET S : it[s] = other[s]}
  <1>4. \A a : SumsOf(f, S, a) =>
          a[{}] = 0 /\ \A s \in SUBSET S : s # {} => a[s] = SumStep(f, a, s)
    BY DEF SumsOf
  <1>5. {} \in T
    BY <1>1, <1>2, <1>4
  <1>6. ASSUME NEW s \in SUBSET S, s # {}, s \ {Chosen(s)} \in T PROVE s \in T
    BY <1>1, <1>2, <1>4, <1>6 DEF SumStep
  <1>. HIDE DEF T
  <1>7. \A s \in SUBSET S : s \in T
    BY <1>5, <1>6, SubsetInduction
  <1>8. other[S] = it[S]
    BY <1>7 DEF T
  <1>9. AddsUp(f, S, it)
    BY <1>1, <1>3, <1>4, <1>8 DEF AddsUp, SumStep
  <1>. QED BY <1>9

LEMMA SumOfZeros ==
  ASSUME NEW S, IsFiniteSet(S), NEW f \in [S -> Int], \A x \in S : f[x] = 0
  PROVE  SumFunction(f) = 0
  <1>1. PICK it : AddsUp(f, S, it)
    BY SumByStep
  <1>. DEFINE T == {s \in SUBSET S : it[s] = 0}
  <1>2. {} \in T
    BY <1>1 DEF AddsUp
  <1>3. ASSUME NEW s \in SUBSET S, s # {}, s \ {Chosen(s)} \in T PROVE s \in T
    <2>1. Chosen(s) \in S
      BY <1>3 DEF Chosen
    <2>. QED BY <1>1, <1>3, <2>1 DEF AddsUp
  <1>. HIDE DEF T
  <1>4. \A s \in SUBSET S : s \in T
    BY <1>2, <1>3, SubsetInduction
  <1>. QED BY <1>1, <1>4 DEF AddsUp, T

LEMMA SumChanges ==
  ASSUME NEW S, IsFiniteSet(S), NEW f \in [S -> Int], NEW g \in [S -> Int], NEW x \in S,
         \A y \in S : y # x => g[y] = f[y]
  PROVE  /\ SumFunction(f) \in Int /\ SumFunction(g) \in Int
         /\ SumFunction(g) = SumFunction(f) + (g[x] - f[x])
  <1>1. PICK a : AddsUp(f, S, a)
    BY SumByStep
  <1>2. PICK b : AddsUp(g, S, b)
    BY SumByStep
  <1>. DEFINE T == {s \in SUBSET S : b[s] = a[s] + IF x \in s THEN g[x] - f[x] ELSE 0}
  <1>3. {} \in T
    BY <1>1, <1>2 DEF AddsUp
  <1>4. ASSUME NEW s \in SUBSET S, s # {}, s \ {Chosen(s)} \in T PROVE s \in T
    <2>1. PICK c \in S : c = Chosen(s) /\ c \in s
      BY <1>4 DEF Chosen
    <2>2. /\ a[s] = f[c] + a[s \ {c}] /\ b[s] = g[c] + b[s \ {c}]
          /\ a[s \ {c}] \in Int /\ b[s \ {c}] \in Int
      BY <1>1, <1>2, <1>4, <2>1 DEF AddsUp
    <2>3. b[s \ {c}] = a[s \ {c}] + IF x \in s \ {c} THEN g[x] - f[x] ELSE 0
      BY <1>4, <2>1
    <2>4. CASE c = x
      BY <2>1, <2>2, <2>3, <2>4
    <2>5. CASE c # x
      <3>1. g[c] = f[c] /\ (x \in s \ {c} <=> x \in s)
        BY <2>5
      <3>. QED BY <2>2, <2>3, <3>1
    <2>. QED BY <2>4, <2>5
  <1>. HIDE DEF T
  <1>5. \A s \in SUBSET S : s \in T
    BY <1>3, <1>4, SubsetInduction
  <1>. QED BY <1>1, <1>2, <1>5 DEF AddsUp, T

-----------------------------------------------------------------------------
(***************************************************************************)
(* Items at rest, and items away from the table.                           *)
(***************************************************************************)
Away(t) ==
  ({loc[t].walk.carry} \ {None}) \cup (IF t \in Replacing THEN ItemsOf(loc[t].old) ELSE {})

Elsewhere(t) == UNION {Away(u) : u \in Thread \ {t}}

LEMMA ItemsApart ==
  ASSUME NEW t \in Thread
  PROVE  Items = ItemsOf(buckets) \cup Away(t) \cup Elsewhere(t)
  BY DEF Items, Carried, OldItems, Replacing, Away, Elsewhere

LEMMA ItemsApartNext ==
  ASSUME NEW t \in Thread
  PROVE  Items' = ItemsOf(buckets)' \cup Away(t)' \cup Elsewhere(t)'
  BY DEF Items, Carried, OldItems, Replacing, Away, Elsewhere

LEMMA ElsewhereStays ==
  ASSUME NEW t \in Thread, Only(t)
  PROVE  Elsewhere(t)' = Elsewhere(t)
  BY DEF Only, OthersKeep, Elsewhere, Away, Replacing

LEMMA AwayIs ==
  ASSUME MapInv, NEW t \in Thread
  PROVE  /\ pc[t] # "move_set" /\ t \notin Replacing => Away(t) = {}
         /\ pc[t] # "move_set" /\ t \in Replacing => Away(t) = ItemsOf(loc[t].old)
         /\ pc[t] = "move_set" => Away(t) = {loc[t].walk.carry}
  <1>1. /\ pc[t] # "move_set" => loc[t].walk.carry = None
        /\ pc[t] = "move_set" => loc[t].walk.carry \in Item /\ t \notin Replacing
    BY Knows DEF ThreadFits, WalkFits, Replacing
  <1>2. None \notin Item
    BY TableAssumption DEF Item
  <1>. QED BY <1>1, <1>2 DEF Away

LEMMA AwayIsNext ==
  ASSUME MapInv', NEW t \in Thread
  PROVE  /\ pc'[t] # "move_set" /\ t \notin Replacing' => Away(t)' = {}
         /\ pc'[t] # "move_set" /\ t \in Replacing' => Away(t)' = ItemsOf(loc'[t].old)
         /\ pc'[t] = "move_set" => Away(t)' = {loc'[t].walk.carry}
  <1>1. /\ pc'[t] # "move_set" => loc'[t].walk.carry = None
        /\ pc'[t] = "move_set" => loc'[t].walk.carry \in Item /\ t \notin Replacing'
    BY DEF MapInv, ThreadFits, WalkFits, Replacing
  <1>2. None \notin Item
    BY TableAssumption DEF Item
  <1>. QED BY <1>1, <1>2 DEF Away

\* What the others have away has none of the keys whose buckets t has locked
\* for writing.
LEMMA ElsewhereLacks ==
  ASSUME NEW t \in Thread, IInv, MapInv, HomeInv, NEW k \in Key,
         \A b \in Homes(k) : Writing(t, lock_ind(b))
  PROVE  \A i \in Elsewhere(t) : i.key # k
  <1>1. ASSUME NEW i \in Elsewhere(t), i.key = k PROVE FALSE
    <2>1. PICK u \in Thread \ {t} : i \in Away(u)
      BY DEF Elsewhere
    <2>2. PICK b : b \in Homes(k)
      BY DEF Homes
    <2>3. lock_ind(b) \notin guard[u].got
      BY <2>1, <2>2, WritersApart
    <2>4. CASE u \in Replacing
      <3>1. Writing(u, lock_ind(b))
        <4>1. lock_ind(b) \in Lock
          BY <2>2, HeldGuard DEF Writing
        <4>. QED BY <2>4, <4>1, ReplacerHolds
      <3>. QED BY <2>1, <2>2, <3>1, WritersApart, HeldGuard DEF Writing
    <2>5. CASE pc[u] = "move_set"
      <3>1. i = loc[u].walk.carry
        BY <2>1, <2>5, AwayIs
      <3>2. ThreadHome(u)
        BY <2>1 DEF HomeInv
      <3>3. PICK w : w = loc[u].walk
        OBVIOUS
      <3>4. Homes(w.carry.key) = Homes(k)
        BY <1>1, <3>1, <3>3
      <3>5. Writing(u, lock_ind(b))
        BY <2>1, <2>2, <2>5, <3>2, <3>3, <3>4, CarryHolds
      <3>. QED BY <2>1, <2>2, <3>5, WritersApart, HeldGuard DEF Writing
    <2>. QED BY <2>1, <2>4, <2>5, AwayIs
  <1>. QED BY <1>1

-----------------------------------------------------------------------------
(***************************************************************************)
(* What a step adds to the sums and to the items.                          *)
(***************************************************************************)
Counts == {"insert_count", "remove_count"}

LEMMA OwedIs ==
  /\ Owed \in [Thread -> Int]
  /\ \A t \in Thread : /\ pc[t] \notin Counts => Owed[t] = 0
                       /\ pc[t] = "insert_count" => Owed[t] = 1
                       /\ pc[t] = "remove_count" => Owed[t] = -1
  BY DEF Owed, Counts

LEMMA OwedIsNext ==
  /\ Owed' \in [Thread -> Int]
  /\ \A t \in Thread : /\ pc'[t] \notin Counts => Owed'[t] = 0
                       /\ pc'[t] = "insert_count" => Owed'[t] = 1
                       /\ pc'[t] = "remove_count" => Owed'[t] = -1
  BY DEF Owed, Counts

LEMMA OwedChanges ==
  ASSUME NEW t \in Thread, Only(t)
  PROVE  /\ SumFunction(Owed) \in Int /\ SumFunction(Owed') \in Int
         /\ SumFunction(Owed') = SumFunction(Owed) + (Owed'[t] - Owed[t])
  <1>1. \A u \in Thread : u # t => Owed'[u] = Owed[u]
    BY DEF Only, OthersKeep, Owed
  <1>. QED BY <1>1, OwedIs, OwedIsNext, ThreadsAssumption, SumChanges

LEMMA LocksFinite == IsFiniteSet(Lock)
  BY NumLocksAssumption, FS_Interval DEF Lock

LEMMA SomeLock == \E l : l \in Lock
  BY NumLocksAssumption DEF Lock

LEMMA ClearingStays ==
  ASSUME NEW t \in Thread, Only(t), pc[t] # "clear_count", Clearing
  PROVE  Clearing'
  BY DEF Only, OthersKeep, Clearing

\* A step that changes one counter by e, what its thread owes by d - e, and the
\* number of items by d.
LEMMA Counted ==
  ASSUME NEW t \in Thread, MapInv, MapInv', Only(t), CountersAgree, pc[t] # "clear_count",
         NEW l \in Lock, NEW e \in Int, NEW d \in Int, elem_counter'[l] = elem_counter[l] + e,
         \A m \in Lock : m # l => elem_counter'[m] = elem_counter[m],
         e + (Owed'[t] - Owed[t]) = d, Cardinality(Items) \in Int,
         Cardinality(Items') = Cardinality(Items) + d
  PROVE  CountersAgree'
  <1> SUFFICES ASSUME ~Clearing' PROVE (SumFunction(elem_counter) + SumFunction(Owed) = Cardinality(Items))'
    BY DEF CountersAgree
  <1>1. SumFunction(elem_counter) + SumFunction(Owed) = Cardinality(Items)
    BY ClearingStays DEF CountersAgree
  <1>2. elem_counter \in [Lock -> Int] /\ elem_counter' \in [Lock -> Int]
    BY DEF MapInv, TableTypes
  <1>3. /\ SumFunction(elem_counter) \in Int /\ SumFunction(elem_counter') \in Int
        /\ SumFunction(elem_counter') = SumFunction(elem_counter) + (elem_counter'[l] - elem_counter[l])
    BY <1>2, LocksFinite, SumChanges
  <1>4. elem_counter'[l] - elem_counter[l] = e
    BY <1>2
  <1>5. Owed'[t] \in Int /\ Owed[t] \in Int
    BY OwedIs, OwedIsNext
  <1>6. SumFunction(elem_counter') + SumFunction(Owed') = Cardinality(Items')
    BY <1>1, <1>3, <1>4, <1>5, OwedChanges
  <1>. QED BY <1>6

ItemStep(t) == IsFiniteSet(Items') /\ CountersAgree' /\ ThreadItems(t)'

LEMMA OthersItems ==
  ASSUME NEW t \in Thread, NEW u \in Thread, u # t, IInv, MapInv, ThreadItems(u),
         Only(t), Frame(t), TableTypes'
  PROVE  ThreadItems(u)'
  <1>1. UNCHANGED <<pc[u], loc[u]>> /\ TableTypes /\ ThreadFits(u)
    BY Knows DEF Only, OthersKeep
  <1>2. CASE u \in Replacing
    <2>1. UNCHANGED <<buckets, hashpower>>
      BY <1>1, <1>2, ReplacerHolds, SameTableFor
    <2>2. pc[u] # "clear_count"
      BY <1>2 DEF Replacing
    <2>. QED BY <1>1, <2>1, <2>2 DEF ThreadItems, Moving, ToCome
  <1>3. CASE pc[u] = "clear_count"
    <2>1. guard[u].phase = "held" /\ guard[u].want = Lock
      BY <1>1, <1>3 DEF ThreadFits, GuardFits, WantAt, Inside, InWhole, InPair, InHop,
                        SnapshotLabels, RehashLabels, Late, InBodies, Optimistic, Snapshots,
                        Validating, Zenon
    <2>2. UNCHANGED buckets
      BY <1>1, <2>1, SameTableFor
    <2>3. \A l \in Lock : elem_counter'[l] = elem_counter[l]
      BY <2>1, HeldGuard, WritersApart DEF Frame
    <2>. QED BY <1>1, <1>3, <2>2, <2>3 DEF ThreadItems, RehashLabels
  <1>. QED BY <1>1, <1>2, <1>3 DEF ThreadItems, RehashLabels, Replacing

LEMMA StepItemsInv ==
  ASSUME NEW t \in Thread, IInv, MapInv, ItemsInv, Good(t), ItemStep(t)
  PROVE  ItemsInv'
  BY OthersItems DEF ItemsInv, ItemStep, Good

\* A step that leaves the items as they are.
LEMMA KeepItems ==
  ASSUME NEW t \in Thread, MapInv, MapInv', ItemsInv, Only(t), elem_counter' = elem_counter,
         ItemsOf(buckets)' \cup Away(t)' = ItemsOf(buckets) \cup Away(t),
         pc[t] \notin Counts \cup {"clear_count"}, pc'[t] \notin Counts, ThreadItems(t)'
  PROVE  ItemStep(t)
  <1>1. Items' = Items
    BY ItemsApart, ItemsApartNext, ElsewhereStays
  <1>2. PICK l : l \in Lock
    BY SomeLock
  <1>3. PICK e \in Int : e = 0
    OBVIOUS
  <1>4. Owed[t] = 0 /\ Owed'[t] = 0
    BY OwedIs, OwedIsNext
  <1>5. IsFiniteSet(Items) /\ Cardinality(Items) \in Int
    BY FS_CardinalityType DEF ItemsInv
  <1>6. CountersAgree'
    <2>1. elem_counter'[l] = elem_counter[l] + e
      BY <1>2, <1>3 DEF MapInv, TableTypes
    <2>2. e + (Owed'[t] - Owed[t]) = e /\ Cardinality(Items') = Cardinality(Items) + e
      BY <1>1, <1>3, <1>4, <1>5
    <2>3. pc[t] # "clear_count" /\ CountersAgree
      BY DEF ItemsInv
    <2>. QED BY <1>2, <1>5, <2>1, <2>2, <2>3, Counted
  <1>. QED BY <1>1, <1>5, <1>6 DEF ItemStep

Loud == {"move_set", "clear_count"} \cup Counts \cup RehashLabels

LEMMA QuietItems ==
  ASSUME NEW t \in Thread, MapInv, MapInv', ItemsInv, Only(t), UNCHANGED <<buckets, elem_counter>>,
         pc[t] \notin Loud \cup {"clear"}, pc'[t] \notin Loud, pc'[t] = "clear" => loc'[t].cur = 0
  PROVE  ItemStep(t)
  <1>1. t \notin Replacing /\ t \notin Replacing'
    <2>1. loc'[t].cur = 0 => ~(loc'[t].cur > 0)
      OBVIOUS
    <2>. QED BY <2>1 DEF Replacing, Loud, RehashLabels
  <1>2. Away(t) = {} /\ Away(t)' = {}
    BY <1>1, AwayIs, AwayIsNext DEF Loud
  <1>3. ThreadItems(t)'
    BY <1>1 DEF ThreadItems, Loud, Replacing
  <1>. QED BY <1>2, <1>3, KeepItems DEF Loud

LEMMA StutterItems ==
  ASSUME ItemsInv, UNCHANGED <<tableVars, threadVars, pc, loc>>
  PROVE  ItemsInv'
  BY DEF ItemsInv, CountersAgree, Clearing, Items, Carried, OldItems, Replacing, Owed, ThreadItems,
         Moving, ToCome, tableVars, settings

-----------------------------------------------------------------------------
(***************************************************************************)
(* Steps that write neither slots nor counters.                            *)
(***************************************************************************)
Calm(t) ==
  /\ UNCHANGED <<buckets, elem_counter>>
  /\ pc[t] \notin Loud \cup {"clear"}
  /\ \E p : Goto(t, p) /\ p \notin Loud \cup {"clear"}

LEMMA CalmItems ==
  ASSUME NEW t \in Thread, MapInv, MapInv', ItemsInv, Only(t), Calm(t)
  PROVE  ItemStep(t)
  <1>1. pc'[t] \notin Loud \cup {"clear"}
    BY Knows DEF Calm, Goto, Domains
  <1>. QED BY <1>1, QuietItems DEF Calm

LEMMA StartCalm ==
  ASSUME NEW t \in Thread, UNCHANGED <<buckets, elem_counter>>, pc[t] \in {"idle", "iter"},
         NEW c \in BodyCall \cup IterCall, Start(t, c)
  PROVE  Calm(t)
  <1>1. EntryLabel(c.op) \in {"read_hp", "snapshot_hp", "insert_hp", "clear_lock", "iter_lock", "len",
                              "set_maximum", "set_minimum"}
    BY EntryFits
  <1>2. Goto(t, EntryLabel(c.op))
    BY DEF Start, Jump
  <1>. QED BY <1>1, <1>2 DEF Calm, Loud, Counts, RehashLabels

LEMMA LookupCalm ==
  ASSUME NEW t \in Thread, Lookup(t) \/ Snapshot(t)
  PROVE  Calm(t) \/ (snapshot_counter(t) /\ pc[t] = "snapshot_counter" /\ UNCHANGED <<buckets, elem_counter>>)
  <1>1. CASE read_hp(t) \/ snapshot_hp(t) \/ read_counter(t)
    BY <1>1 DEF read_hp, snapshot_hp, ReadHashpower, read_counter, At, Jump, tableVars,
                Calm, Loud, Counts, RehashLabels
  <1>2. CASE read_v1(t) \/ read_v2(t)
    <2>1. \E p \in {"read_v2", "read_cells", "read_hp", "snapshot_hp"} : Goto(t, p)
      BY <1>2 DEF read_v1, read_v2, StartReading, Retry, Jump
    <2>2. pc[t] \in {"read_v1", "read_v2"} /\ UNCHANGED <<buckets, elem_counter>>
      BY <1>2 DEF read_v1, read_v2, At, tableVars
    <2>. QED BY <2>1, <2>2 DEF Calm, Loud, Counts, RehashLabels
  <1>3. CASE read_cells(t) \/ after_v1(t) \/ after_v2(t)
    BY <1>3 DEF read_cells, after_v1, after_v2, At, Jump, tableVars, Calm, Loud, Counts, RehashLabels
  <1>4. CASE after_counter(t) \/ find(t) \/ snapshot_retry(t)
    <2>1. \E p \in {"return", "read_hp", "snapshot_hp"} : Goto(t, p)
      BY <1>4 DEF after_counter, find, snapshot_retry, Retry, Jump, Leave
    <2>2. /\ pc[t] \in {"after_counter", "find"} \cup SnapshotLabels
          /\ UNCHANGED <<buckets, elem_counter>>
      BY <1>4 DEF after_counter, find, snapshot_retry, Locked, At, tableVars
    <2>. QED BY <2>1, <2>2 DEF Calm, Loud, Counts, RehashLabels, SnapshotLabels
  <1>5. CASE snapshot_counter(t)
    BY <1>5 DEF snapshot_counter, At, tableVars
  <1>. QED BY <1>1, <1>2, <1>3, <1>4, <1>5 DEF Lookup, Snapshot

LEMMA SnapshotItems ==
  ASSUME NEW t \in Thread, MapInv, MapInv', ItemsInv, Only(t), snapshot_counter(t),
         pc[t] = "snapshot_counter", UNCHANGED <<buckets, elem_counter>>
  PROVE  ItemStep(t)
  <1>1. loc[t].then \in SnapshotLabels
    <2>1. ThreadFits(t)
      BY Knows
    <2>. QED BY <2>1 DEF ThreadFits, CallFits, LabelFits, Snapshots, SnapshotLabels
  <1>2. LocalsFit(loc[t]) /\ Domains
    BY Knows
  <1>3. Goto(t, loc[t].then)
    BY <1>2 DEF snapshot_counter, WithIndices, Enter, LocalsFit, NoLocals
  <1>4. Calm(t)
    BY <1>1, <1>3 DEF Calm, Loud, Counts, RehashLabels, SnapshotLabels
  <1>. QED BY <1>4, CalmItems

LEMMA UpdateCalm ==
  ASSUME NEW t \in Thread, insert_hp(t) \/ cuckoo_hp(t) \/ recheck_hp(t)
  PROVE  Calm(t)
  <1>1. \E p \in {"snapshot_hp", "run_hp", "insert_hp"} : Goto(t, p)
    BY DEF insert_hp, cuckoo_hp, recheck_hp, Jump
  <1>2. pc[t] \in {"insert_hp", "cuckoo_hp", "recheck_hp"} /\ UNCHANGED <<buckets, elem_counter>>
    BY DEF insert_hp, cuckoo_hp, recheck_hp, At, tableVars
  <1>. QED BY <1>1, <1>2 DEF Calm, Loud, Counts, RehashLabels

LEMMA RunCuckooCalm ==
  ASSUME NEW t \in Thread, RunCuckoo(t), ~move(t), ~move_set(t)
  PROVE  Calm(t)
  <1>1. CASE run_hp(t) \/ run_counter(t) \/ search_counter(t) \/ search_slot(t) \/ search_partial(t)
    <2>1. /\ UNCHANGED <<buckets, elem_counter>>
          /\ pc[t] \in {"run_hp", "run_counter", "slot_search", "search_partial"}
      BY <1>1, Zenon DEF run_hp, run_counter, search_counter, search_slot, search_partial, At, tableVars
    <2>2. \/ \E p \in {"run_counter", "slot_search", "search_partial", "path_counter"} : Goto(t, p)
          \/ GiveUp(t)
      BY <1>1, Zenon DEF run_hp, run_counter, search_counter, search_slot, search_partial, ScanOn, Jump
    <2>. QED BY <2>1, <2>2 DEF GiveUp, Jump, Calm, Loud, Counts, RehashLabels
  <1>2. CASE path_counter(t) \/ path_version(t) \/ path_occupied(t) \/ path_key(t)
    <2>1. /\ UNCHANGED <<buckets, elem_counter>>
          /\ pc[t] \in {"path_counter", "path_version", "path_occupied", "path_key"}
      BY <1>2, Zenon DEF path_counter, path_version, path_occupied, path_key, At, tableVars
    <2>2. \E p \in {"path_counter", "path_version", "path_occupied", "path_key", "claim_version",
                    "from_version", "double", "panicked"} : Goto(t, p)
      BY <1>2 DEF path_counter, path_version, path_occupied, path_key, GiveUp, Jump, StartMove
    <2>. QED BY <2>1, <2>2 DEF Calm, Loud, Counts, RehashLabels
  <1>3. CASE claim_version(t) \/ from_version(t) \/ to_version(t)
    <2>1. /\ UNCHANGED <<buckets, elem_counter>>
          /\ pc[t] \in {"claim_version", "from_version", "to_version"}
          /\ \E p \in {"run_hp", "claim", "to_version", "move"} : Goto(t, p)
      BY <1>3 DEF claim_version, from_version, to_version, At, Jump, Enter, tableVars
    <2>. QED BY <2>1 DEF Calm, Loud, Counts, RehashLabels
  <1>4. CASE claim(t)
    <2>1. /\ UNCHANGED <<buckets, elem_counter>> /\ pc[t] = "claim"
          /\ \E p \in {"recheck_hp", "run_hp"} : Goto(t, p)
      BY <1>4 DEF claim, At, Leave, tableVars
    <2>. QED BY <2>1 DEF Calm, Loud, Counts, RehashLabels
  <1>. QED BY <1>1, <1>2, <1>3, <1>4 DEF RunCuckoo

LEMMA ResizeCalm ==
  ASSUME NEW t \in Thread, double(t) \/ resize(t) \/ resize_count(t)
  PROVE  Calm(t)
  <1>1. \E p \in {"resize", "insert_hp", "return", "resize_load"} : Goto(t, p)
    BY DEF double, resize, resize_count, Enter, Leave, Jump, Refuse
  <1>2. pc[t] \in {"double", "resize", "resize_count"} /\ UNCHANGED <<buckets, elem_counter>>
    BY DEF double, resize, resize_count, At, Refuse, tableVars
  <1>. QED BY <1>1, <1>2 DEF Calm, Loud, Counts, RehashLabels

LEMMA WholeCalm ==
  ASSUME NEW t \in Thread, IInv, MapInv, WholeTable(t), ~clear_lock(t), ~clear(t), ~clear_count(t)
  PROVE  Calm(t)
  <1>1. CASE iter_body(t)
    <2>1. pc[t] = "iter" /\ guard[t].phase \in {"none", "held"} /\ UNCHANGED <<buckets, elem_counter>>
      BY <1>1 DEF iter_body, At, tableVars
    <2>2. PICK c \in call[t].value : Start(t, c)
      BY <1>1 DEF iter_body
    <2>3. call[t].value \subseteq BodyCall
      BY <2>1, IterKnows
    <2>. QED BY <2>1, <2>2, <2>3, StartCalm
  <1>2. CASE iter_lock(t) \/ iter(t) \/ iter_drop(t)
    <2>1. pc[t] \in {"iter_lock", "iter"} /\ UNCHANGED <<buckets, elem_counter>>
      BY <1>2, Zenon DEF iter_lock, iter, iter_drop, At, tableVars
    <2>2. \E p \in {"iter", "return"} : Goto(t, p)
      BY <1>2 DEF iter_lock, iter, iter_drop, Enter, Leave, Jump
    <2>. QED BY <2>1, <2>2 DEF Calm, Loud, Counts, RehashLabels
  <1>3. CASE body_return(t) \/ len(t)
    <2>1. pc[t] \in {"return", "len"} /\ UNCHANGED <<buckets, elem_counter>>
      BY <1>3, Zenon DEF body_return, len, At, tableVars
    <2>2. \E p \in {"iter", "len", "return"} : Goto(t, p)
      BY <1>3 DEF body_return, len, Jump
    <2>. QED BY <2>1, <2>2 DEF Calm, Loud, Counts, RehashLabels
  <1>4. CASE set_maximum(t) \/ set_minimum(t)
    <2>1. pc[t] \in {"set_maximum", "set_minimum"} /\ UNCHANGED <<buckets, elem_counter>>
      BY <1>4, Zenon DEF set_maximum, set_minimum, At
    <2>2. \E p \in {"return", "panicked"} : Goto(t, p)
      BY <1>4 DEF set_maximum, set_minimum, Unwind, Leave, Jump
    <2>. QED BY <2>1, <2>2 DEF Calm, Loud, Counts, RehashLabels
  <1>. QED BY <1>1, <1>2, <1>3, <1>4 DEF WholeTable

LEMMA ClearLockItems ==
  ASSUME NEW t \in Thread, MapInv, MapInv', ItemsInv, Only(t), clear_lock(t)
  PROVE  ItemStep(t)
  <1>1. /\ UNCHANGED <<buckets, elem_counter, loc>> /\ pc[t] = "clear_lock"
        /\ Goto(t, "clear")
    BY DEF clear_lock, At, Enter, tableVars
  <1>2. pc'[t] = "clear"
    BY <1>1, Knows DEF Goto, Domains
  <1>3. loc'[t].cur = 0
    BY <1>1, Knows DEF ThreadFits, HoldFits
  <1>. QED BY <1>1, <1>2, <1>3, QuietItems DEF Loud, Counts, RehashLabels

-----------------------------------------------------------------------------
(***************************************************************************)
(* insert and remove: one item is added, replaced or taken away, and one   *)
(* is owed or paid back.                                                   *)
(***************************************************************************)
LEMMA ItemsInTable ==
  ASSUME NEW t \in Thread, MapInv, MapInv', Only(t),
         pc[t] \notin {"move_set", "clear"} \cup RehashLabels,
         pc'[t] \notin {"move_set", "clear"} \cup RehashLabels
  PROVE  /\ Items = ItemsOf(buckets) \cup Elsewhere(t)
         /\ Items' = ItemsOf(buckets') \cup Elsewhere(t)
  <1>1. Away(t) = {} /\ Away(t)' = {}
    BY AwayIs, AwayIsNext DEF Replacing, RehashLabels
  <1>. QED BY <1>1, ItemsApart, ItemsApartNext, ElsewhereStays

\* A step of an operation that writes a slot: what the thread owes afterwards
\* is the change in the number of items.
LEMMA OwedItems ==
  ASSUME NEW t \in Thread, MapInv, MapInv', ItemsInv, Only(t), elem_counter' = elem_counter,
         pc[t] \notin Counts \cup {"clear_count"},
         pc'[t] \notin {"clear", "clear_count"} \cup RehashLabels,
         IsFiniteSet(Items'), Cardinality(Items') = Cardinality(Items) + Owed'[t]
  PROVE  ItemStep(t)
  <1>1. PICK l : l \in Lock
    BY SomeLock
  <1>2. PICK e \in Int : e = 0
    OBVIOUS
  <1>3. PICK d \in Int : d = Owed'[t]
    BY OwedIsNext
  <1>4. Cardinality(Items) \in Int
    BY FS_CardinalityType DEF ItemsInv
  <1>5. elem_counter'[l] = elem_counter[l] + e
    BY <1>1, <1>2 DEF MapInv, TableTypes
  <1>6. e + (Owed'[t] - Owed[t]) = d
    <2>1. Owed[t] = 0
      BY OwedIs
    <2>. QED BY <1>2, <1>3, <2>1
  <1>7. CountersAgree'
    <2>1. \A m \in Lock : m # l => elem_counter'[m] = elem_counter[m]
      OBVIOUS
    <2>2. Cardinality(Items') = Cardinality(Items) + d
      BY <1>3
    <2>. QED BY <1>1, <1>2, <1>4, <1>5, <1>6, <2>1, <2>2, Counted DEF ItemsInv
  <1>8. ThreadItems(t)'
    BY DEF ThreadItems
  <1>. QED BY <1>7, <1>8 DEF ItemStep

\* Two items of a legal table with the same key are one.
LEMMA KeyOnce ==
  ASSUME NEW hp, NEW tab \in TabType(hp), Legal(hp, tab), NEW i \in ItemsOf(tab), NEW j \in ItemsOf(tab),
         i.key = j.key
  PROVE  i = j
  <1>1. PICK b \in Index(hp), r \in Slot : i = tab[b][r] /\ i # None
    BY ItemsOfCells
  <1>2. PICK c \in Index(hp), s \in Slot : j = tab[c][s] /\ j # None
    BY ItemsOfCells
  <1>3. b = c /\ r = s
    BY <1>1, <1>2, LegalCells
  <1>. QED BY <1>1, <1>2, <1>3

LEMMA OverwriteItems ==
  ASSUME NEW hp, NEW tab \in TabType(hp), Legal(hp, tab), NEW item \in Item, NEW b \in Index(hp),
         NEW s \in Slot, NEW old, old = tab[b][s], old # None, old.key = item.key
  PROVE  ItemsOf(set_kv(tab, b, s, item)) = (ItemsOf(tab) \ {old}) \cup {item}
  <1>. PICK tab2 : tab2 = set_kv(tab, b, s, item)
    OBVIOUS
  <1>1. tab2 \in TabType(hp) /\ item # None
    BY WriteType, TableAssumption DEF Cell, Item
  <1>2. \A x \in Index(hp), y \in Slot : tab2[x][y] = IF x = b /\ y = s THEN item ELSE tab[x][y]
    BY AfterWrite
  <1>3. \A x \in Index(hp), y \in Slot : tab[x][y] = old => x = b /\ y = s
    BY LegalCells
  <1>4. ASSUME NEW i PROVE i \in ItemsOf(tab2) <=> i \in (ItemsOf(tab) \ {old}) \cup {item}
    <2>1. i \in ItemsOf(tab2) <=> i # None /\ \E x \in Index(hp), y \in Slot : i = tab2[x][y]
      BY <1>1, ItemsOfCells
    <2>2. i \in ItemsOf(tab) <=> i # None /\ \E x \in Index(hp), y \in Slot : i = tab[x][y]
      BY ItemsOfCells
    <2>3. CASE i = item
      BY <1>1, <1>2, <2>1, <2>3
    <2>4. CASE i # item
      <3>1. ASSUME NEW x \in Index(hp), NEW y \in Slot, i = tab2[x][y]
            PROVE  i = tab[x][y] /\ i # old
        BY <1>2, <1>3, <2>4, <3>1
      <3>2. ASSUME NEW x \in Index(hp), NEW y \in Slot, i = tab[x][y], i # old
            PROVE  i = tab2[x][y]
        BY <1>2, <3>2
      <3>. QED BY <2>1, <2>2, <2>4, <3>1, <3>2
    <2>. QED BY <2>3, <2>4
  <1>. QED BY <1>4

LEMMA PutItems ==
  ASSUME NEW t \in Thread, IInv, MapInv, MapInv', HomeInv, ItemsInv, Only(t), FreshIndices(t),
         pc[t] \in {"insert", "recheck"}, Locked(t, pc[t]), NEW c,
         c[1] \in Index(hashpower), c[1] \in Homes(call[t].key), c[2] \in Slot,
         buckets[c[1]][c[2]] = None, Found(t) = {}, Put(t, c), elem_counter' = elem_counter
  PROVE  ItemStep(t)
  <1>. PICK k : k = call[t].key
    OBVIOUS
  <1>. PICK x : x = MyItem(t)
    OBVIOUS
  <1>1. /\ k \in Key /\ x \in Item /\ x.key = k
        /\ hashpower \in Nat /\ buckets \in TabType(hashpower) /\ Legal(hashpower, buckets)
        /\ loc[t].i1 = Bucket1(hashpower, k) /\ loc[t].i2 = Bucket2(hashpower, k)
        /\ \A b \in Homes(k) : Writing(t, lock_ind(b))
    BY FreshKnows
  <1>2. ~HasKey(buckets, k)
    BY <1>1, FindsKey DEF Found
  <1>3. c[1] \in HomesOf(hashpower, k)
    BY DEF Homes, HomesOf
  <1>4. ItemsOf(set_kv(buckets, c[1], c[2], x)) = ItemsOf(buckets) \cup {x}
    BY <1>1, <1>2, <1>3, SetLegal
  <1>5. buckets' = set_kv(buckets, c[1], c[2], x) /\ Goto(t, "insert_count")
    BY DEF Put, Jump
  <1>6. pc'[t] = "insert_count"
    BY <1>5, Knows DEF Goto, Domains
  <1>7. x \notin Items /\ Items' = Items \cup {x}
    <2>1. /\ Items = ItemsOf(buckets) \cup Elsewhere(t)
          /\ Items' = ItemsOf(buckets') \cup Elsewhere(t)
      BY <1>6, ItemsInTable DEF RehashLabels
    <2>2. x \notin Elsewhere(t)
      BY <1>1, ElsewhereLacks
    <2>3. x \notin ItemsOf(buckets)
      BY <1>1, <1>2, KeysOfItems
    <2>. QED BY <1>4, <1>5, <2>1, <2>2, <2>3
  <1>8. IsFiniteSet(Items') /\ Cardinality(Items') = Cardinality(Items) + 1
    BY <1>7, FS_AddElement DEF ItemsInv
  <1>9. Owed'[t] = 1
    BY <1>6, OwedIsNext
  <1>. QED BY <1>6, <1>8, <1>9, OwedItems DEF Counts, RehashLabels

\* One element of a finite set for another.
LEMMA Swapped ==
  ASSUME NEW S, IsFiniteSet(S), NEW x \in S, NEW y, y \notin S \ {x}
  PROVE  /\ IsFiniteSet((S \ {x}) \cup {y}) /\ Cardinality((S \ {x}) \cup {y}) = Cardinality(S)
         /\ Cardinality(S) \in Nat
  <1>1. PICK n \in Nat : n = Cardinality(S)
    BY FS_CardinalityType
  <1>2. PICK U : U = S \ {x}
    OBVIOUS
  <1>3. IsFiniteSet(U) /\ Cardinality(U) = n - 1
    BY <1>1, <1>2, FS_RemoveElement
  <1>4. IsFiniteSet(U \cup {y}) /\ Cardinality(U \cup {y}) = Cardinality(U) + 1
    BY <1>2, <1>3, FS_AddElement
  <1>. QED BY <1>1, <1>2, <1>3, <1>4

LEMMA InsertItems ==
  ASSUME NEW t \in Thread, IInv, MapInv, MapInv', HomeInv, ItemsInv, Only(t), FreshIndices(t), insert(t)
  PROVE  ItemStep(t)
  <1>. PICK k : k = call[t].key
    OBVIOUS
  <1>1. pc[t] = "insert" /\ Locked(t, pc[t]) /\ elem_counter' = elem_counter
    BY DEF insert, Locked, At
  <1>2. /\ k \in Key /\ MyItem(t) \in Item /\ MyItem(t).key = k
        /\ hashpower \in Nat /\ buckets \in TabType(hashpower) /\ Legal(hashpower, buckets)
        /\ loc[t].i1 = Bucket1(hashpower, k) /\ loc[t].i2 = Bucket2(hashpower, k)
        /\ loc[t].i1 \in Index(hashpower) /\ loc[t].i2 \in Index(hashpower)
        /\ \A b \in Homes(k) : Writing(t, lock_ind(b))
    BY <1>1, FreshKnows
  <1>3. ASSUME NEW c \in Found(t), buckets' = set_kv(buckets, c[1], c[2], MyItem(t)), Leave(t, "return")
        PROVE  ItemStep(t)
    <2>1. /\ c[1] \in Index(hashpower) /\ c[2] \in Slot
          /\ buckets[c[1]][c[2]] # None /\ buckets[c[1]][c[2]].key = k
      BY <1>2, FindCell DEF Found
    <2>. PICK x, o : x = MyItem(t) /\ o = buckets[c[1]][c[2]]
      OBVIOUS
    <2>2. ItemsOf(set_kv(buckets, c[1], c[2], x)) = (ItemsOf(buckets) \ {o}) \cup {x}
      BY <1>2, <2>1, OverwriteItems
    <2>3. pc'[t] = "return"
      BY <1>3, Knows DEF Leave, Goto, Domains
    <2>4. /\ Items = ItemsOf(buckets) \cup Elsewhere(t)
          /\ Items' = ItemsOf(buckets') \cup Elsewhere(t)
      BY <1>1, <2>3, ItemsInTable DEF RehashLabels
    <2>5. \A i \in Elsewhere(t) : i.key # k
      BY <1>2, ElsewhereLacks
    <2>6. o \in ItemsOf(buckets) /\ \A i \in ItemsOf(buckets) : i.key = k => i = o
      <3>1. o \in ItemsOf(buckets) /\ o.key = k
        BY <1>2, <2>1, ItemsOfCells
      <3>2. ASSUME NEW i \in ItemsOf(buckets), i.key = k PROVE i = o
        BY <1>2, <3>1, <3>2, KeyOnce
      <3>. QED BY <3>1, <3>2
    <2>7. o \in Items /\ x \notin Items \ {o} /\ Items' = (Items \ {o}) \cup {x}
      BY <1>2, <1>3, <2>1, <2>2, <2>4, <2>5, <2>6
    <2>8. IsFiniteSet(Items') /\ Cardinality(Items') = Cardinality(Items) /\ Cardinality(Items) \in Nat
      BY <2>7, Swapped DEF ItemsInv
    <2>9. Owed'[t] = 0
      <3>1. pc'[t] \notin Counts
        BY <2>3 DEF Counts
      <3>. QED BY <3>1, OwedIsNext
    <2>10. Cardinality(Items') = Cardinality(Items) + Owed'[t]
      BY <2>8, <2>9
    <2>. QED BY <1>1, <2>3, <2>8, <2>10, OwedItems DEF Counts, RehashLabels
  <1>4. ASSUME NEW c \in free_cell(buckets, loc[t].i1, loc[t].i2), Put(t, c), Found(t) = {}
        PROVE  ItemStep(t)
    <2>1. c[1] \in {loc[t].i1, loc[t].i2} /\ c[2] \in Slot /\ buckets[c[1]][c[2]] = None
      BY FreeCell
    <2>2. c[1] \in Index(hashpower) /\ c[1] \in Homes(k)
      BY <1>2, <2>1 DEF Homes
    <2>. QED BY <1>1, <1>4, <2>1, <2>2, PutItems
  <1>5. ASSUME Leave(t, "cuckoo_hp"), UNCHANGED buckets
        PROVE  ItemStep(t)
    <2>1. Calm(t)
      BY <1>1, <1>5 DEF Leave, Calm, Loud, Counts, RehashLabels
    <2>. QED BY <2>1, CalmItems
  <1>. QED BY <1>3, <1>4, <1>5 DEF insert

LEMMA RecheckItems ==
  ASSUME NEW t \in Thread, IInv, MapInv, MapInv', HomeInv, ItemsInv, Only(t), FreshIndices(t), recheck(t)
  PROVE  ItemStep(t)
  <1>1. pc[t] = "recheck" /\ Locked(t, pc[t]) /\ elem_counter' = elem_counter
    BY DEF recheck, Locked, At
  <1>2. ASSUME NEW p \in {"insert_hp", "double"}, Leave(t, p), UNCHANGED buckets
        PROVE  ItemStep(t)
    <2>1. Calm(t)
      BY <1>1, <1>2 DEF Leave, Calm, Loud, Counts, RehashLabels
    <2>. QED BY <2>1, CalmItems
  <1>3. ASSUME hashpower = loc[t].cuckoo_hp, Found(t) = {}, Put(t, loc[t].spot),
               ~occupied(buckets, loc[t].spot[1], loc[t].spot[2])
        PROVE  ItemStep(t)
    <2>. PICK c : c = loc[t].spot
      OBVIOUS
    <2>1. ThreadFits(t) /\ ThreadHome(t) /\ hashpower \in Nat
      BY Knows DEF HomeInv
    <2>2. c[2] \in Slot /\ buckets[c[1]][c[2]] = None
      BY <1>1, <1>3, <2>1 DEF ThreadFits, IndexFits, Spotted, occupied
    <2>3. c[1] \in HomesOf(hashpower, call[t].key)
      BY <1>1, <1>3, <2>1 DEF ThreadHome, SpotFresh
    <2>4. call[t].key \in Key
      BY <1>1, FreshKnows
    <2>5. c[1] \in Index(hashpower) /\ c[1] \in Homes(call[t].key)
      BY <2>1, <2>3, <2>4, BucketType DEF HomesOf, Homes
    <2>. QED BY <1>1, <1>3, <2>2, <2>5, PutItems
  <1>. QED BY <1>2, <1>3 DEF recheck

LEMMA RemoveItems ==
  ASSUME NEW t \in Thread, IInv, MapInv, MapInv', HomeInv, ItemsInv, Only(t), FreshIndices(t), remove(t)
  PROVE  ItemStep(t)
  <1>. PICK k : k = call[t].key
    OBVIOUS
  <1>1. pc[t] = "remove" /\ Locked(t, pc[t]) /\ elem_counter' = elem_counter
    BY DEF remove, Locked, At
  <1>2. /\ k \in Key /\ hashpower \in Nat /\ buckets \in TabType(hashpower) /\ Legal(hashpower, buckets)
        /\ loc[t].i1 \in Index(hashpower) /\ loc[t].i2 \in Index(hashpower)
        /\ \A b \in Homes(k) : Writing(t, lock_ind(b))
    BY <1>1, FreshKnows
  <1>3. CASE Leave(t, "return") /\ UNCHANGED <<buckets, loc>>
    <2>1. Calm(t)
      BY <1>1, <1>3 DEF Leave, Calm, Loud, Counts, RehashLabels
    <2>. QED BY <2>1, CalmItems
  <1>4. ASSUME NEW c \in Found(t), buckets' = erase_kv(buckets, c[1], c[2]), Jump(t, "remove_count")
        PROVE  ItemStep(t)
    <2>1. /\ c[1] \in Index(hashpower) /\ c[2] \in Slot
          /\ buckets[c[1]][c[2]] # None /\ buckets[c[1]][c[2]].key = k
      BY <1>2, FindCell DEF Found
    <2>. PICK o : o = buckets[c[1]][c[2]]
      OBVIOUS
    <2>2. ItemsOf(erase_kv(buckets, c[1], c[2])) = ItemsOf(buckets) \ {o}
      BY <1>2, <2>1, EraseLegal
    <2>3. pc'[t] = "remove_count"
      BY <1>4, Knows DEF Jump, Goto, Domains
    <2>4. /\ Items = ItemsOf(buckets) \cup Elsewhere(t)
          /\ Items' = ItemsOf(buckets') \cup Elsewhere(t)
      BY <1>1, <2>3, ItemsInTable DEF RehashLabels
    <2>5. o \notin Elsewhere(t)
      BY <1>2, <2>1, ElsewhereLacks
    <2>6. o \in ItemsOf(buckets)
      BY <1>2, <2>1, ItemsOfCells
    <2>7. o \in Items /\ Items' = Items \ {o}
      BY <1>4, <2>2, <2>4, <2>5, <2>6
    <2>8. /\ IsFiniteSet(Items') /\ Cardinality(Items') = Cardinality(Items) - 1
          /\ Cardinality(Items) \in Nat
      BY <2>7, FS_RemoveElement, FS_CardinalityType DEF ItemsInv
    <2>9. Owed'[t] = -1
      BY <2>3, OwedIsNext
    <2>10. Cardinality(Items') = Cardinality(Items) + Owed'[t]
      <3>1. PICK n \in Nat : n = Cardinality(Items)
        BY <2>8
      <3>. QED BY <2>8, <2>9, <3>1
    <2>. QED BY <1>1, <2>3, <2>8, <2>10, OwedItems DEF Counts, RehashLabels
  <1>. QED BY <1>3, <1>4 DEF remove

\* The counter catches up with the slot.
LEMMA CountItems ==
  ASSUME NEW t \in Thread, IInv, MapInv, MapInv', ItemsInv, Only(t),
         insert_count(t) \/ remove_count(t)
  PROVE  ItemStep(t)
  <1>. PICK b : b = loc[t].spot[1]
    OBVIOUS
  <1>. PICK l : l = lock_ind(b)
    OBVIOUS
  <1>1. pc[t] \in Counts /\ Leave(t, "return") /\ UNCHANGED buckets /\ guard[t].phase \in {"none", "held"}
    BY DEF insert_count, remove_count, At, Counts
  <1>2. pc'[t] = "return"
    BY <1>1, Knows DEF Leave, Goto, Domains
  <1>3. Items' = Items
    <2>1. /\ pc[t] \notin {"move_set", "clear"} \cup RehashLabels
          /\ pc'[t] \notin {"move_set", "clear"} \cup RehashLabels
      BY <1>1, <1>2 DEF Counts, RehashLabels
    <2>. QED BY <1>1, <2>1, ItemsInTable
  <1>4. IsFiniteSet(Items) /\ Cardinality(Items) \in Int
    BY FS_CardinalityType DEF ItemsInv
  <1>5. l \in Lock
    <2>1. AtHome(call[t].key, b, hashpower)
      <3>1. ThreadFits(t)
        BY Knows
      <3>. QED BY <1>1, <3>1 DEF ThreadFits, IndexFits, Spotted, Counts
    <2>2. Writing(t, l)
      BY <1>1, <2>1, GuardCovers DEF Counts
    <2>. QED BY <2>2, HeldGuard DEF Writing
  <1>6. PICK e \in Int : e = Owed[t]
    BY OwedIs
  <1>7. elem_counter \in [Lock -> Int]
    BY DEF MapInv, TableTypes
  <1>8. /\ elem_counter'[l] = elem_counter[l] + e
        /\ \A m \in Lock : m # l => elem_counter'[m] = elem_counter[m]
    <2>1. CASE insert_count(t)
      <3>1. pc[t] = "insert_count" /\ elem_counter' = [elem_counter EXCEPT ![l] = elem_counter[l] + 1]
        BY <2>1 DEF insert_count, Count, At
      <3>2. e = 1
        BY <1>6, <3>1, OwedIs
      <3>. QED BY <1>5, <1>7, <3>1, <3>2
    <2>2. CASE remove_count(t)
      <3>1. pc[t] = "remove_count" /\ elem_counter' = [elem_counter EXCEPT ![l] = elem_counter[l] + (-1)]
        BY <2>2 DEF remove_count, Count, At
      <3>2. e = -1
        BY <1>6, <3>1, OwedIs
      <3>. QED BY <1>5, <1>7, <3>1, <3>2
    <2>. QED BY <2>1, <2>2
  <1>9. CountersAgree'
    <2>1. Owed'[t] = 0
      <3>1. pc'[t] \notin Counts
        BY <1>2 DEF Counts
      <3>. QED BY <3>1, OwedIsNext
    <2>. PICK d \in Int : d = 0
      OBVIOUS
    <2>2. e + (Owed'[t] - Owed[t]) = d /\ Cardinality(Items') = Cardinality(Items) + d
      BY <1>3, <1>4, <1>6, <2>1, OwedIs
    <2>3. pc[t] # "clear_count" /\ CountersAgree
      BY <1>1 DEF Counts, ItemsInv
    <2>. QED BY <1>4, <1>5, <1>8, <2>2, <2>3, Counted, ZenonT(30)
  <1>10. ThreadItems(t)'
    BY <1>2, Zenon DEF ThreadItems, RehashLabels
  <1>. QED BY <1>3, <1>4, <1>9, <1>10 DEF ItemStep

-----------------------------------------------------------------------------
(***************************************************************************)
(* The hops: an item is away from the table between its two slots.         *)
(***************************************************************************)
LEMMA MoveItems ==
  ASSUME NEW t \in Thread, IInv, MapInv, MapInv', HomeInv, ItemsInv, Only(t), move(t)
  PROVE  ItemStep(t)
  <1>. DEFINE w    == loc[t].walk
              from == w.path[w.at - 1]
              cell == buckets[from.bucket][from.slot]
              w2   == [w EXCEPT !.carry = cell]
  <1>1. pc[t] = "move" /\ guard[t].phase \in {"none", "held"} /\ elem_counter' = elem_counter
    BY Zenon DEF move, At
  <1>2. CASE Goto(t, "run_hp") /\ UNCHANGED <<buckets, loc>>
    <2>1. Calm(t)
      BY <1>1, <1>2 DEF Calm, Loud, Counts, RehashLabels
    <2>. QED BY <2>1, CalmItems
  <1>3. ASSUME cell # None, Walk(t, w2), buckets' = erase_kv(buckets, from.bucket, from.slot),
               Goto(t, "move_set")
        PROVE  ItemStep(t)
    <2>1. /\ Domains /\ LocalsFit(loc[t]) /\ hashpower \in Nat /\ buckets \in TabType(hashpower)
          /\ Legal(hashpower, buckets)
      BY Knows DEF TableTypes, HomeInv
    <2>2. from.bucket \in Index(hashpower) /\ from.slot \in Slot
      <3>1. w.at - 1 \in DOMAIN w.path
        BY <1>1, HopKnows
      <3>. QED BY <1>1, <3>1, PathKnows DEF OnPath, Hopping
    <2>3. loc'[t].walk.carry = cell /\ pc'[t] = "move_set"
      BY <1>3, <2>1, Zenon DEF Walk, Local, Goto, Domains, LocalsFit, NoLocals, NoWalk
    <2>. HIDE DEF w, from, w2
    <2>4. ItemsOf(erase_kv(buckets, from.bucket, from.slot)) = ItemsOf(buckets) \ {cell}
      BY <1>3, <2>1, <2>2, EraseLegal
    <2>5. cell \in ItemsOf(buckets)
      BY <1>3, <2>1, <2>2, ItemsOfCells
    <2>6. Away(t) = {}
      BY <1>1, AwayIs DEF Replacing, RehashLabels
    <2>7. Away(t)' = {cell}
      BY <2>3, AwayIsNext
    <2>8. ItemsOf(buckets)' \cup Away(t)' = ItemsOf(buckets) \cup Away(t)
      BY <1>3, <2>4, <2>5, <2>6, <2>7
    <2>9. ThreadItems(t)'
      BY <2>3 DEF ThreadItems, RehashLabels
    <2>10. pc[t] \notin Counts \cup {"clear_count"} /\ pc'[t] \notin Counts
      BY <1>1, <2>3 DEF Counts
    <2>. QED BY <1>1, <2>8, <2>9, <2>10, KeepItems
  <1>. QED BY <1>2, <1>3, ZenonT(30) DEF move, AsExpected, Jump, Leave

LEMMA MoveSetItems ==
  ASSUME NEW t \in Thread, IInv, MapInv, MapInv', HomeInv, ItemsInv, HopsIntoRoom, Only(t), move_set(t)
  PROVE  ItemStep(t)
  <1>. DEFINE w  == loc[t].walk
              to == w.path[w.at]
  <1>1. /\ pc[t] = "move_set" /\ elem_counter' = elem_counter
        /\ buckets' = set_kv(buckets, to.bucket, to.slot, w.carry)
        /\ \E p \in {"recheck_hp", "from_version"} : Goto(t, p)
    BY DEF move_set, At, Leave
  <1>2. /\ Domains /\ hashpower \in Nat /\ buckets \in TabType(hashpower)
        /\ Legal(hashpower, buckets) /\ ThreadHome(t)
    BY Knows DEF TableTypes, HomeInv
  <1>3. w.carry \in Item /\ to.bucket \in Homes(w.carry.key)
    BY <1>1, <1>2, CarryHolds
  <1>4. ~HasKey(buckets, w.carry.key)
    BY <1>1, <1>2 DEF ThreadHome, CarryApart
  <1>5. to.bucket \in Index(hashpower) /\ to.slot \in Slot
    BY <1>1, PathKnows, Zenon DEF OnPath, Hopping
  <1>6. buckets[to.bucket][to.slot] = None
    BY <1>1, Zenon DEF HopsIntoRoom, occupied
  <1>7. Away(t) = {w.carry}
    BY <1>1, AwayIs
  <1>. HIDE DEF w, to
  <1>8. ItemsOf(buckets') = ItemsOf(buckets) \cup {w.carry}
    <2>1. to.bucket \in HomesOf(hashpower, w.carry.key)
      BY <1>3 DEF Homes, HomesOf
    <2>. QED BY <1>1, <1>2, <1>3, <1>4, <1>5, <1>6, <2>1, SetLegal
  <1>9. pc'[t] \in {"recheck_hp", "from_version"}
    BY <1>1, <1>2 DEF Goto, Domains
  <1>10. Away(t)' = {}
    BY <1>9, AwayIsNext DEF Replacing, RehashLabels
  <1>11. ItemsOf(buckets)' \cup Away(t)' = ItemsOf(buckets) \cup Away(t)
    BY <1>7, <1>8, <1>10
  <1>12. ThreadItems(t)'
    BY <1>9 DEF ThreadItems, RehashLabels
  <1>13. pc[t] \notin Counts \cup {"clear_count"} /\ pc'[t] \notin Counts
    BY <1>1, <1>9 DEF Counts
  <1>. QED BY <1>1, <1>11, <1>12, <1>13, KeepItems, Zenon

-----------------------------------------------------------------------------
(***************************************************************************)
(* Doubling: all items are away in the old container, and those of the new *)
(* one are among them.                                                     *)
(***************************************************************************)
Cells(hp, old, cur) == {CellAt(hp, old, n) : n \in Behind(hp, old, cur)}

LEMMA AllToCome ==
  ASSUME NEW hp \in Nat, NEW old \in TabType(hp)
  PROVE  Cells(hp, old, 0) = ItemsOf(old)
  <1>1. ASSUME NEW n \in DOMAIN Positions(hp)
        PROVE  n > 0 /\ Positions(hp)[n][1] \in Index(hp) /\ Positions(hp)[n][2] \in Slot
    <2>. DEFINE N == hashsize(hp) * SLOT_PER_BUCKET
    <2>1. N \in Nat
      BY Hashsize, TableAssumption
    <2>2. n \in 1 .. N
      BY <1>1 DEF Positions
    <2>. HIDE DEF N
    <2>3. n - 1 \in Nat /\ n - 1 < N /\ n = (n - 1) + 1 /\ n > 0
      BY <2>1, <2>2
    <2>4. PICK i \in Nat : i < N /\ n = i + 1
      BY <2>3
    <2>. QED BY <2>3, <2>4, PositionType DEF N
  <1>2. ASSUME NEW b \in Index(hp), NEW s \in Slot
        PROVE  \E n \in DOMAIN Positions(hp) : CellAt(hp, old, n) = old[b][s]
    BY PositionsCover DEF CellAt
  <1>3. \A i : i \in Cells(hp, old, 0) <=> i # None /\ \E b \in Index(hp), s \in Slot : i = old[b][s]
    BY <1>1, <1>2 DEF Cells, Behind, CellAt
  <1>. QED BY <1>3, ItemsOfCells

LEMMA OneCome ==
  ASSUME NEW hp, NEW old, NEW cur \in Nat, NEW n, n = cur + 1, n \in DOMAIN Positions(hp),
         DOMAIN Positions(hp) \subseteq Nat
  PROVE  Cells(hp, old, cur) = Cells(hp, old, n) \cup ({CellAt(hp, old, n)} \ {None})
  <1>1. ASSUME NEW m \in DOMAIN Positions(hp)
        PROVE  m > cur <=> m > n \/ m = n
    BY <1>1
  <1>. QED BY <1>1 DEF Cells, Behind

LEMMA LastCome ==
  ASSUME NEW hp \in Nat, NEW old, NEW n, ~(n < Len(Positions(hp))), n \in Nat
  PROVE  Cells(hp, old, n) = {}
  <1>1. PICK N \in Nat : N = hashsize(hp) * SLOT_PER_BUCKET
    BY PositionsLen
  <1>2. Len(Positions(hp)) = N
    BY <1>1, PositionsLen
  <1>3. DOMAIN Positions(hp) = 1 .. N
    BY <1>1 DEF Positions
  <1>4. \A m \in 1 .. N : ~(m > n)
    BY <1>1, <1>2
  <1>. QED BY <1>3, <1>4 DEF Cells, Behind

LEMMA ToComeIs ==
  ASSUME NEW t \in Thread
  PROVE  /\ pc[t] = "rehash_one" => ToCome(t) = Cells(loc[t].hp0, loc[t].old, loc[t].cur)
         /\ pc'[t] = "rehash_one" => ToCome(t)' = Cells(loc'[t].hp0, loc'[t].old, loc'[t].cur)
         /\ pc[t] # "rehash_one" => ToCome(t) = {}
         /\ pc'[t] # "rehash_one" => ToCome(t)' = {}
  BY DEF ToCome, Cells

LEMMA RangeOf ==
  ASSUME NEW s \in Seq(Item)
  PROVE  /\ Range(<<>>) = {}
         /\ \A i \in Item : Range(Append(s, i)) = Range(s) \cup {i}
         /\ s # <<>> => Range(s) = {Head(s)} \cup Range(Tail(s))
  <1>1. Range(<<>>) = {}
    BY DEF Range
  <1>2. ASSUME NEW i \in Item PROVE Range(Append(s, i)) = Range(s) \cup {i}
    <2>1. /\ DOMAIN Append(s, i) = DOMAIN s \cup {Len(s) + 1}
          /\ \A j \in DOMAIN s : Append(s, i)[j] = s[j] /\ j # Len(s) + 1
          /\ Append(s, i)[Len(s) + 1] = i
      OBVIOUS
    <2>. QED BY <2>1 DEF Range
  <1>3. ASSUME s # <<>> PROVE Range(s) = {Head(s)} \cup Range(Tail(s))
    <2>1. /\ 1 \in DOMAIN s /\ Head(s) = s[1]
          /\ \A j \in DOMAIN Tail(s) : j + 1 \in DOMAIN s /\ Tail(s)[j] = s[j + 1]
      BY <1>3
    <2>2. ASSUME NEW j \in DOMAIN s, j # 1 PROVE \E m \in DOMAIN Tail(s) : Tail(s)[m] = s[j]
      <3>1. PICK m \in Nat : m + 1 = j /\ m \in 1 .. Len(s) - 1
        <4>1. j \in 1 .. Len(s)
          BY <2>2
        <4>2. j - 1 \in Nat /\ (j - 1) + 1 = j /\ j - 1 \in 1 .. Len(s) - 1
          BY <2>2, <4>1
        <4>. QED BY <4>2
      <3>2. m \in DOMAIN Tail(s)
        BY <1>3, <3>1
      <3>. QED BY <2>1, <3>1, <3>2
    <2>. QED BY <2>1, <2>2 DEF Range
  <1>. QED BY <1>1, <1>2, <1>3

LEMMA ResizeLoadItems ==
  ASSUME NEW t \in Thread, IInv, MapInv, MapInv', HomeInv, ItemsInv, Only(t), resize_load(t)
  PROVE  ItemStep(t)
  <1>1. pc[t] = "resize_load" /\ guard[t].phase \in {"none", "held"}
    BY DEF resize_load, At
  <1>2. CASE Refuse(t, "LoadFactorTooLow")
    <2>1. UNCHANGED <<buckets, elem_counter>> /\ Goto(t, "return")
      BY <1>2 DEF Refuse, Leave, tableVars
    <2>2. Calm(t)
      BY <1>1, <2>1 DEF Calm, Loud, Counts, RehashLabels
    <2>. QED BY <2>2, CalmItems
  <1>3. ASSUME Local(t, [loc[t] EXCEPT !.old = buckets, !.cur = 0, !.aside = <<>>]),
               buckets' = BucketContainer(loc[t].hp0 + 1), elem_counter' = elem_counter,
               Jump(t, "rehash_one")
        PROVE  ItemStep(t)
    <2>1. ThreadFits(t) /\ Domains /\ TableTypes /\ LocalsFit(loc[t]) /\ hashpower \in Nat
      BY Knows
    <2>2. hashpower = loc[t].hp0 /\ buckets \in TabType(hashpower)
      BY <1>1, <2>1 DEF ThreadFits, HoldFits, TableTypes
    <2>3. /\ pc'[t] = "rehash_one" /\ loc'[t].old = buckets /\ loc'[t].cur = 0
          /\ loc'[t].aside = <<>> /\ loc'[t].hp0 = hashpower
      BY <1>3, <2>1, <2>2 DEF Jump, Goto, Local, Domains, LocalsFit, NoLocals
    <2>4. ItemsOf(buckets') = {}
      BY <1>3 DEF BucketContainer, ItemsOf
    <2>5. ToCome(t)' = ItemsOf(buckets)
      BY <2>1, <2>2, <2>3, ToComeIs, AllToCome
    <2>6. Range(<<>>) = {}
      BY DEF Range
    <2>7. Moving(t)' = ItemsOf(buckets)
      BY <2>3, <2>4, <2>5, <2>6 DEF Moving
    <2>8. Away(t) = {}
      BY <1>1, AwayIs DEF Replacing, RehashLabels
    <2>9. Away(t)' = ItemsOf(buckets)
      BY <2>3, AwayIsNext DEF Replacing
    <2>10. ItemsOf(buckets)' \cup Away(t)' = ItemsOf(buckets) \cup Away(t)
      BY <2>4, <2>8, <2>9
    <2>11. ThreadItems(t)'
      BY <2>3, <2>7 DEF ThreadItems
    <2>12. pc[t] \notin Counts \cup {"clear_count"} /\ pc'[t] \notin Counts
      BY <1>1, <2>3 DEF Counts
    <2>. QED BY <1>3, <2>10, <2>11, <2>12, KeepItems
  <1>. QED BY <1>2, <1>3 DEF resize_load

\* A step of a rehash from and to which the items of the old container are
\* those that are moving.
LEMMA RehashItems ==
  ASSUME NEW t \in Thread, MapInv, MapInv', ItemsInv, Only(t), elem_counter' = elem_counter,
         pc[t] \in RehashLabels, pc'[t] \in RehashLabels,
         loc'[t].old = loc[t].old, Moving(t)' = Moving(t)
  PROVE  ItemStep(t)
  <1>1. ItemsOf(loc[t].old) = Moving(t)
    BY DEF ItemsInv, ThreadItems
  <1>2. Away(t) = Moving(t)
    BY <1>1, AwayIs DEF Replacing, RehashLabels
  <1>3. Away(t)' = Moving(t)
    BY <1>1, AwayIsNext DEF Replacing, RehashLabels
  <1>4. ItemsOf(buckets) \subseteq Moving(t)
    BY DEF Moving
  <1>5. ItemsOf(buckets)' \subseteq Moving(t)'
    BY DEF Moving
  <1>6. ItemsOf(buckets)' \cup Away(t)' = ItemsOf(buckets) \cup Away(t)
    BY <1>2, <1>3, <1>4, <1>5
  <1>7. ThreadItems(t)'
    BY <1>1 DEF ThreadItems, RehashLabels
  <1>8. pc[t] \notin Counts \cup {"clear_count"} /\ pc'[t] \notin Counts
    BY DEF Counts, RehashLabels
  <1>. QED BY <1>6, <1>7, <1>8, KeepItems

LEMMA RehashOneItems ==
  ASSUME NEW t \in Thread, IInv, MapInv, MapInv', HomeInv, ItemsInv, RehashFindsRoom, Only(t),
         rehash_one(t)
  PROVE  ItemStep(t)
  <1>a. PICK hp, old, cur, aside :
         hp = loc[t].hp0 /\ old = loc[t].old /\ cur = loc[t].cur /\ aside = loc[t].aside
    OBVIOUS
  <1>b. PICK n : n = cur + 1
    OBVIOUS
  <1>c. PICK pos : pos = Positions(hp)[n]
    OBVIOUS
  <1>d. PICK item : item = CellAt(hp, old, n)
    OBVIOUS
  <1>e. PICK acc : acc = Rehashing(t)
    OBVIOUS
  <1>f. PICK st : st = rehash_move(hp, old, acc, pos)
    OBVIOUS
  <1>1. pc[t] = "rehash_one" /\ guard[t].phase \in {"none", "held"} /\ elem_counter' = elem_counter
    BY DEF rehash_one, At
  <1>2. ~st.panic
    BY <1>1, <1>a, <1>b, <1>c, <1>e, <1>f DEF RehashFindsRoom
  <1>3. /\ buckets' = st.tab /\ Local(t, [loc[t] EXCEPT !.cur = n, !.aside = st.alternate_items])
        /\ \/ Jump(t, "rehash_one")
           \/ ~(n < Len(Positions(hp))) /\ Jump(t, "rehash_two")
    BY <1>2, <1>a, <1>b, <1>c, <1>e, <1>f DEF rehash_one
  <1>4. /\ LocalsFit(loc[t]) /\ hp \in Nat /\ cur \in Nat /\ aside \in Seq(Item)
        /\ hashpower = hp + 1 /\ acc \in AccType(hp + 1)
    BY <1>1, <1>a, <1>e, RehashKnows DEF RehashLabels
  <1>5. old \in TabType(hp) /\ cur < hashsize(hp) * SLOT_PER_BUCKET /\ Domains
    BY <1>1, <1>a, Knows DEF ThreadFits, HoldFits
  <1>6. n \in DOMAIN Positions(hp) /\ pos[1] \in Index(hp) /\ pos[2] \in Slot
    BY <1>4, <1>5, <1>b, <1>c, PositionType
  <1>7. /\ Legal(hp + 1, acc.tab) /\ acc.tab = buckets /\ acc.alternate_items = aside
        /\ acc.tab \in TabType(hp + 1) /\ item = old[pos[1]][pos[2]]
    BY <1>4, <1>a, <1>c, <1>d, <1>e DEF HomeInv, Rehashing, CellAt, AccType
  <1>8. BehindApart(hp, old, cur, buckets, aside)
    BY <1>1, <1>a DEF HomeInv, ThreadHome, RehashApart, RehashLabels
  <1>9. item # None => ~HasKey(acc.tab, item.key)
    BY <1>4, <1>6, <1>7, <1>8, <1>b, <1>d, SMTT(30) DEF BehindApart, Behind
  <1>10. \/ item = None /\ st = acc
         \/ /\ item \in Item /\ st.tab = acc.tab
            /\ st.alternate_items = Append(acc.alternate_items, item)
         \/ /\ item \in Item /\ st.alternate_items = acc.alternate_items
            /\ ItemsOf(st.tab) = ItemsOf(acc.tab) \cup {item}
    <2>1. MoveReady(hp, old, acc, pos, item, st)
      BY <1>4, <1>5, <1>6, <1>7, <1>9, <1>f DEF MoveReady
    <2>2. MoveDone(hp, acc, item, st)
      BY <1>4, <2>1, MoveLegal, Zenon
    <2>. QED BY <1>2, <2>2, Zenon DEF MoveDone
  <1>11. ItemsOf(st.tab) \cup Range(st.alternate_items)
           = ItemsOf(buckets) \cup Range(aside) \cup ({item} \ {None})
    <2>1. item \in Item => item # None /\ Range(Append(aside, item)) = Range(aside) \cup {item}
      BY <1>4, RangeOf, TableAssumption DEF Item
    <2>. QED BY <1>7, <1>10, <2>1
  <1>12. Cells(hp, old, cur) = Cells(hp, old, n) \cup ({item} \ {None})
    <2>1. DOMAIN Positions(hp) \subseteq Nat
      BY Hashsize, TableAssumption, <1>4 DEF Positions
    <2>. QED BY <1>4, <1>6, <1>b, <1>d, <2>1, OneCome
  <1>13. /\ pc'[t] \in RehashLabels /\ loc'[t].cur = n /\ loc'[t].aside = st.alternate_items
         /\ loc'[t].hp0 = hp /\ loc'[t].old = old
         /\ pc'[t] # "rehash_one" => ~(n < Len(Positions(hp)))
    BY <1>3, <1>4, <1>5, <1>a DEF Jump, Goto, Local, Domains, LocalsFit, NoLocals, RehashLabels
  <1>14. ToCome(t) = Cells(hp, old, cur) /\ ToCome(t)' = Cells(hp, old, n)
    <2>1. ToCome(t) = Cells(hp, old, cur)
      BY <1>1, <1>a, ToComeIs
    <2>2. CASE pc'[t] = "rehash_one"
      <3>1. ToCome(t)' = Cells(loc'[t].hp0, loc'[t].old, loc'[t].cur)
        BY <2>2, ToComeIs, Zenon
      <3>2. loc'[t].cur = n /\ loc'[t].hp0 = hp /\ loc'[t].old = old
        BY <1>13, Zenon
      <3>3. ToCome(t)' = Cells(hp, old, n)
        BY <3>1, <3>2, Zenon
      <3>. QED BY <2>1, <3>3
    <2>3. CASE pc'[t] # "rehash_one"
      <3>1. n \in Nat
        BY <1>4, <1>b
      <3>. QED BY <1>4, <1>13, <2>1, <2>3, <3>1, ToComeIs, LastCome
    <2>. QED BY <2>1, <2>2, <2>3
  <1>15. Moving(t) = ItemsOf(buckets) \cup Range(aside) \cup Cells(hp, old, cur)
    BY <1>14, <1>a DEF Moving
  <1>16. Moving(t)' = ItemsOf(st.tab) \cup Range(st.alternate_items) \cup Cells(hp, old, n)
    BY <1>3, <1>13, <1>14 DEF Moving
  <1>17. Moving(t)' = Moving(t)
    BY <1>11, <1>12, <1>15, <1>16
  <1>. QED BY <1>1, <1>13, <1>17, <1>a, RehashItems DEF RehashLabels

LEMMA RehashTwoItems ==
  ASSUME NEW t \in Thread, IInv, MapInv, MapInv', HomeInv, ItemsInv, RehashFindsRoom, Only(t),
         rehash_two(t)
  PROVE  ItemStep(t)
  <1>. PICK hp, aside : hp = loc[t].hp0 /\ aside = loc[t].aside
    OBVIOUS
  <1>. PICK acc : acc = Rehashing(t)
    OBVIOUS
  <1>. PICK st : st = rehash_place_item(hp + 1, acc, Head(aside))
    OBVIOUS
  <1>1. pc[t] = "rehash_two" /\ guard[t].phase \in {"none", "held"} /\ elem_counter' = elem_counter
    BY DEF rehash_two, At
  <1>2. /\ LocalsFit(loc[t]) /\ hp \in Nat /\ aside \in Seq(Item)
        /\ hashpower = hp + 1 /\ acc \in AccType(hp + 1)
    BY <1>1, RehashKnows DEF RehashLabels
  <1>3. ToCome(t) = {} /\ Moving(t) = ItemsOf(buckets) \cup Range(aside)
    BY <1>1, ToComeIs DEF Moving
  <1>4. CASE aside = <<>> /\ Jump(t, "resize_count") /\ UNCHANGED buckets
    <2>1. pc'[t] = "resize_count"
      BY <1>4, Knows DEF Jump, Goto, Domains
    <2>2. Moving(t) = ItemsOf(buckets)
      BY <1>2, <1>3, <1>4, RangeOf
    <2>3. ItemsOf(loc[t].old) = Moving(t)
      BY <1>1 DEF ItemsInv, ThreadItems, RehashLabels
    <2>4. Away(t) = ItemsOf(buckets)
      BY <1>1, <2>2, <2>3, AwayIs DEF Replacing
    <2>5. Away(t)' = {}
      BY <2>1, AwayIsNext DEF Replacing
    <2>6. ItemsOf(buckets)' \cup Away(t)' = ItemsOf(buckets) \cup Away(t)
      BY <1>4, <2>4, <2>5
    <2>7. ThreadItems(t)'
      BY <2>1 DEF ThreadItems, RehashLabels
    <2>8. pc[t] \notin Counts \cup {"clear_count"} /\ pc'[t] \notin Counts
      BY <1>1, <2>1 DEF Counts
    <2>. QED BY <1>1, <2>6, <2>7, <2>8, KeepItems
  <1>5. ASSUME aside # <<>>, buckets' = st.tab,
               Local(t, [loc[t] EXCEPT !.aside = Tail(aside)]), Jump(t, "rehash_two"), ~st.panic
        PROVE  ItemStep(t)
    <2>. PICK item : item = Head(aside)
      OBVIOUS
    <2>1. /\ item \in Item /\ Legal(hp + 1, acc.tab) /\ acc.tab = buckets
          /\ acc.tab \in TabType(hp + 1)
      BY <1>2, <1>5 DEF HomeInv, Rehashing, AccType
    <2>2. AsideApart(buckets, aside)
      BY <1>1 DEF HomeInv, ThreadHome, RehashApart, RehashLabels
    <2>3. ~HasKey(acc.tab, item.key)
      BY <1>2, <1>5, <2>1, <2>2, AsideGoesOn
    <2>4. ItemsOf(st.tab) = ItemsOf(buckets) \cup {item}
      <3>1. hp + 1 \in Nat
        BY <1>2
      <3>2. PlaceReady(hp + 1, acc, item, st)
        BY <1>2, <2>1, <2>3, <3>1, Zenon DEF PlaceReady
      <3>3. PlaceDone(hp + 1, acc, item, st)
        BY <3>1, <3>2, PlaceStep, Zenon
      <3>. QED BY <1>5, <2>1, <3>3, Zenon DEF PlaceDone
    <2>5. Range(aside) = {item} \cup Range(Tail(aside))
      BY <1>2, <1>5, RangeOf
    <2>6. pc'[t] = "rehash_two" /\ loc'[t].aside = Tail(aside) /\ loc'[t].old = loc[t].old
      BY <1>2, <1>5, Knows DEF Jump, Goto, Local, Domains, LocalsFit, NoLocals
    <2>7. ToCome(t)' = {}
      BY <2>6, ToComeIs
    <2>8. Moving(t)' = ItemsOf(st.tab) \cup Range(Tail(aside))
      BY <1>5, <2>6, <2>7 DEF Moving
    <2>9. Moving(t)' = Moving(t)
      BY <1>3, <2>4, <2>5, <2>8
    <2>. QED BY <1>1, <2>6, <2>9, RehashItems DEF RehashLabels
  <1>6. aside # <<>> => ~st.panic
    BY <1>1 DEF RehashFindsRoom
  <1>. QED BY <1>4, <1>5, <1>6 DEF rehash_two


-----------------------------------------------------------------------------
(***************************************************************************)
(* clear.  The items of the table leave with the last slot.                *)
(***************************************************************************)
\* Empties the slot after the first i, which are empty already.
LEMMA ClearedCells ==
  ASSUME NEW hp \in Nat, NEW tab \in TabType(hp), NEW i \in Nat,
         i < hashsize(hp) * SLOT_PER_BUCKET, \A m \in 1 .. i : CellAt(hp, tab, m) = None,
         NEW pos, pos = Positions(hp)[i + 1], NEW tab2, tab2 = erase_kv(tab, pos[1], pos[2])
  PROVE  /\ ItemsOf(tab2) \subseteq ItemsOf(tab)
         /\ \A m \in 1 .. i + 1 : CellAt(hp, tab2, m) = None
         /\ i + 1 = Len(Positions(hp)) => ItemsOf(tab2) = {}
  <1>1. pos[1] \in Index(hp) /\ pos[2] \in Slot
    BY PositionType
  <1>2. tab2 \in TabType(hp)
    BY WriteType
  <1>3. \A x \in Index(hp), y \in Slot : tab2[x][y] = IF x = pos[1] /\ y = pos[2] THEN None ELSE tab[x][y]
    BY <1>1, AfterWrite
  <1>4. ItemsOf(tab2) \subseteq ItemsOf(tab)
    <2>1. ASSUME NEW item \in ItemsOf(tab2) PROVE item \in ItemsOf(tab)
      <3>1. item # None
        BY DEF ItemsOf
      <3>2. PICK b \in Index(hp), s \in Slot : item = tab2[b][s]
        BY <1>2, ItemsOfCells
      <3>3. item = tab[b][s]
        BY <1>3, <3>1, <3>2
      <3>. QED BY <3>1, <3>3, ItemsOfCells
    <2>. QED BY <2>1
  <1>5. ASSUME NEW m \in 1 .. i + 1 PROVE CellAt(hp, tab2, m) = None
    <2>1. CASE m = i + 1
      BY <1>1, <1>3, <2>1 DEF CellAt
    <2>2. CASE m # i + 1
      <3>1. PICK j \in Nat : m = j + 1 /\ j < hashsize(hp) * SLOT_PER_BUCKET
        <4>1. hashsize(hp) * SLOT_PER_BUCKET \in Nat
          BY PositionsLen
        <4>2. m - 1 \in Nat /\ m = (m - 1) + 1 /\ m - 1 < i
          BY <2>2
        <4>. QED BY <4>1, <4>2
      <3>2. Positions(hp)[m][1] \in Index(hp) /\ Positions(hp)[m][2] \in Slot
        BY <3>1, PositionType
      <3>3. m \in 1 .. i
        BY <2>2
      <3>. QED BY <1>3, <3>2, <3>3 DEF CellAt
    <2>. QED BY <2>1, <2>2
  <1>6. ASSUME i + 1 = Len(Positions(hp)) PROVE ItemsOf(tab2) = {}
    <2>1. ASSUME NEW item \in ItemsOf(tab2) PROVE FALSE
      <3>1. item # None
        BY DEF ItemsOf
      <3>2. PICK b \in Index(hp), s \in Slot : item = tab2[b][s]
        BY <1>2, ItemsOfCells
      <3>3. PICK m \in DOMAIN Positions(hp) : Positions(hp)[m] = <<b, s>>
        BY PositionsCover
      <3>4. DOMAIN Positions(hp) = 1 .. i + 1
        BY <1>6, PositionsLen DEF Positions
      <3>5. CellAt(hp, tab2, m) = None
        BY <1>5, <3>3, <3>4
      <3>. QED BY <3>1, <3>2, <3>3, <3>5 DEF CellAt
    <2>. QED BY <2>1
  <1>. QED BY <1>4, <1>5, <1>6

LEMMA ClearItems ==
  ASSUME NEW t \in Thread, IInv, MapInv, MapInv', ItemsInv, Only(t), clear(t)
  PROVE  ItemStep(t)
  <1>a. PICK i : i = loc[t].cur
    OBVIOUS
  <1>b. PICK pos : pos = Positions(hashpower)[i + 1]
    OBVIOUS
  <1>c. PICK was : was = IF i = 0 THEN buckets ELSE loc[t].old
    OBVIOUS
  <1>1. /\ pc[t] = "clear" /\ guard[t].phase \in {"none", "held"}
        /\ buckets' = erase_kv(buckets, pos[1], pos[2])
        /\ UNCHANGED <<hashpower, elem_counter>>
        /\ \/ /\ i + 1 = Len(Positions(hashpower))
              /\ Local(t, [loc[t] EXCEPT !.cur = 0, !.old = None]) /\ Jump(t, "clear_count")
           \/ Local(t, [loc[t] EXCEPT !.cur = i + 1, !.old = was]) /\ Jump(t, "clear")
    BY <1>a, <1>b, <1>c DEF clear, At
  <1>2. /\ ThreadFits(t) /\ TableTypes /\ Domains /\ LocalsFit(loc[t]) /\ hashpower \in Nat
    BY Knows
  <1>3. i \in Nat /\ i < hashsize(hashpower) * SLOT_PER_BUCKET
    BY <1>1, <1>2, <1>a DEF ThreadFits, HoldFits, LocalsFit
  <1>4. ThreadItems(t)
    BY DEF ItemsInv
  <1>5. \A m \in 1 .. i : CellAt(hashpower, buckets, m) = None
    BY <1>1, <1>3, <1>4, <1>a DEF ThreadItems
  <1>6. /\ ItemsOf(buckets') \subseteq ItemsOf(buckets)
        /\ \A m \in 1 .. i + 1 : CellAt(hashpower, buckets', m) = None
        /\ i + 1 = Len(Positions(hashpower)) => ItemsOf(buckets') = {}
    <2>1. buckets \in TabType(hashpower)
      BY <1>2 DEF TableTypes
    <2>. QED BY <1>1, <1>2, <1>3, <1>5, <1>b, <2>1, ClearedCells
  <1>7. ItemsOf(buckets) \subseteq ItemsOf(was) /\ ItemsOf(buckets) \cup Away(t) = ItemsOf(was)
    <2>1. CASE i = 0
      <3>1. t \notin Replacing
        <4>1. ~(i > 0)
          BY <2>1
        <4>. QED BY <1>1, <1>a, <4>1 DEF Replacing
      <3>2. Away(t) = {}
        BY <1>1, <3>1, AwayIs
      <3>. QED BY <1>c, <2>1, <3>2
    <2>2. CASE i # 0
      <3>1. i > 0
        BY <1>3, <2>2
      <3>2. Away(t) = ItemsOf(loc[t].old)
        BY <1>1, <1>a, <3>1, AwayIs DEF Replacing
      <3>3. ItemsOf(buckets) \subseteq ItemsOf(loc[t].old)
        BY <1>1, <1>4, <1>a, <3>1 DEF ThreadItems
      <3>. QED BY <1>c, <2>2, <3>2, <3>3
    <2>. QED BY <2>1, <2>2
  <1>8. CASE /\ i + 1 = Len(Positions(hashpower))
             /\ Local(t, [loc[t] EXCEPT !.cur = 0, !.old = None]) /\ Jump(t, "clear_count")
    <2>1. pc'[t] = "clear_count" /\ loc'[t].cur = 0
      BY <1>2, <1>8 DEF Jump, Goto, Local, Domains, LocalsFit, NoLocals
    <2>2. ItemsOf(buckets)' = {}
      BY <1>6, <1>8
    <2>3. CountersAgree'
      BY <2>1 DEF CountersAgree, Clearing
    <2>4. Away(t)' = {}
      BY <2>1, AwayIsNext DEF Replacing
    <2>5. Items' \subseteq Items
      BY <2>2, <2>4, ItemsApart, ItemsApartNext, ElsewhereStays
    <2>6. IsFiniteSet(Items')
      BY <2>5, FS_Subset DEF ItemsInv
    <2>7. \A l \in Lock : ~(l < 0)
      BY DEF Lock
    <2>8. ThreadItems(t)'
      BY <2>1, <2>2, <2>7 DEF ThreadItems, RehashLabels
    <2>. QED BY <2>3, <2>6, <2>8 DEF ItemStep
  <1>9. CASE Local(t, [loc[t] EXCEPT !.cur = i + 1, !.old = was]) /\ Jump(t, "clear")
    <2>1. pc'[t] = "clear" /\ loc'[t].cur = i + 1 /\ loc'[t].old = was
      BY <1>2, <1>9 DEF Jump, Goto, Local, Domains, LocalsFit, NoLocals
    <2>2. i + 1 > 0
      BY <1>3
    <2>3. Away(t)' = ItemsOf(was)
      BY <2>1, <2>2, AwayIsNext DEF Replacing
    <2>4. ItemsOf(buckets)' \subseteq ItemsOf(was)
      BY <1>6, <1>7
    <2>5. ItemsOf(buckets)' \cup Away(t)' = ItemsOf(buckets) \cup Away(t)
      BY <1>7, <2>3, <2>4
    <2>6. \A m \in 1 .. loc'[t].cur : CellAt(hashpower', buckets', m) = None
      BY <1>1, <1>6, <2>1
    <2>7. ThreadItems(t)'
      BY <2>1, <2>4, <2>6 DEF ThreadItems, RehashLabels
    <2>8. pc[t] \notin Counts \cup {"clear_count"} /\ pc'[t] \notin Counts
      BY <1>1, <2>1 DEF Counts
    <2>. QED BY <1>1, <2>5, <2>7, <2>8, KeepItems
  <1>. QED BY <1>1, <1>8, <1>9

\* The other threads have nothing under way while t holds every stripe for
\* writing.
LEMMA WholeAlone ==
  ASSUME NEW t \in Thread, IInv, MapInv, HomeInv, \A l \in Lock : Writing(t, l),
         NEW u \in Thread, u # t
  PROVE  u \notin Replacing /\ pc[u] \notin Counts \cup {"move_set", "clear_count"}
  <1>1. \A l \in Lock : l \notin guard[u].got
    BY WritersApart
  <1>2. \A l : ~Writing(u, l)
    BY <1>1, HeldGuard DEF Writing
  <1>3. ThreadFits(u)
    BY Knows
  <1>4. CASE u \in Replacing
    BY <1>2, <1>4, SomeLock, ReplacerHolds
  <1>5. CASE pc[u] \in Counts
    <2>1. guard[u].phase = "held"
      <3>1. pc[u] \in Late \cap Inside /\ pc[u] \notin InBodies
        BY <1>5 DEF Counts, Late, Inside, InPair, InBodies, Optimistic, Snapshots, Validating
      <3>. QED BY <1>3, <3>1 DEF ThreadFits, GuardFits
    <2>2. AtHome(call[u].key, loc[u].spot[1], hashpower)
      BY <1>3, <1>5 DEF ThreadFits, IndexFits, Spotted, Counts
    <2>3. Writing(u, lock_ind(loc[u].spot[1]))
      BY <1>5, <2>1, <2>2, GuardCovers DEF Counts
    <2>. QED BY <1>2, <2>3
  <1>6. CASE pc[u] = "move_set"
    <2>1. ThreadHome(u)
      BY DEF HomeInv
    <2>2. PICK w : w = loc[u].walk
      OBVIOUS
    <2>3. PICK b : b \in Homes(w.carry.key)
      BY DEF Homes
    <2>4. Writing(u, lock_ind(b))
      BY <1>6, <2>1, <2>2, <2>3, CarryHolds
    <2>. QED BY <1>2, <2>4
  <1>7. CASE pc[u] = "clear_count"
    <2>1. guard[u].phase = "held" /\ guard[u].want = Lock
      BY <1>3, <1>7 DEF ThreadFits, GuardFits, WantAt, Inside, InWhole, InPair, InHop,
                        SnapshotLabels, RehashLabels, Late, InBodies, Optimistic, Snapshots,
                        Validating, Zenon
    <2>. QED BY <1>1, <2>1, SomeLock, HeldGuard
  <1>. QED BY <1>4, <1>5, <1>6, <1>7

LEMMA ClearCountItems ==
  ASSUME NEW t \in Thread, IInv, MapInv, MapInv', HomeInv, ItemsInv, Only(t), clear_count(t)
  PROVE  ItemStep(t)
  <1>a. PICK n : n = loc[t].cur
    OBVIOUS
  <1>1. /\ pc[t] = "clear_count" /\ guard[t].phase \in {"none", "held"} /\ UNCHANGED buckets
        /\ elem_counter' = [elem_counter EXCEPT ![n] = 0]
        /\ Local(t, [loc[t] EXCEPT !.cur = n + 1])
        /\ \/ n + 1 = NumLocks /\ Leave(t, "return")
           \/ Jump(t, "clear_count")
    BY <1>a DEF clear_count, At
  <1>2. ThreadFits(t) /\ LocalsFit(loc[t]) /\ Domains /\ elem_counter \in [Lock -> Int]
    BY Knows DEF TableTypes
  <1>3. n \in Lock /\ n \in Nat
    BY <1>1, <1>2, <1>a DEF ThreadFits, HoldFits, LocalsFit
  <1>4. loc'[t].cur = n + 1
    BY <1>1, <1>2 DEF Local, Domains, LocalsFit, NoLocals
  <1>5. /\ ItemsOf(buckets) = {} /\ \A l \in Lock : l < n => elem_counter[l] = 0
    BY <1>1, <1>a DEF ItemsInv, ThreadItems
  <1>6. \A l \in Lock : l < n + 1 => elem_counter'[l] = 0
    <2>1. \A l \in Lock : l < n + 1 => l < n \/ l = n
      BY <1>3 DEF Lock
    <2>. QED BY <1>1, <1>2, <1>3, <1>5, <2>1
  <1>7. pc'[t] \in {"clear_count", "return"}
    BY <1>1, <1>2 DEF Jump, Leave, Goto, Domains
  <1>8. ThreadItems(t)'
    BY <1>1, <1>4, <1>5, <1>6, <1>7 DEF ThreadItems, RehashLabels
  <1>9. Away(t) = {} /\ Away(t)' = {}
    BY <1>1, <1>7, AwayIs, AwayIsNext DEF Replacing
  <1>10. Items' = Items
    BY <1>1, <1>9, ItemsApart, ItemsApartNext, ElsewhereStays
  <1>11. CASE Jump(t, "clear_count")
    <2>1. pc'[t] = "clear_count"
      BY <1>2, <1>11 DEF Jump, Goto, Domains
    <2>2. CountersAgree'
      BY <2>1 DEF CountersAgree, Clearing
    <2>. QED BY <1>8, <1>10, <2>2 DEF ItemStep, ItemsInv
  <1>12. CASE n + 1 = NumLocks /\ Leave(t, "return")
    <2>1. pc'[t] = "return"
      BY <1>2, <1>12 DEF Leave, Goto, Domains
    <2>2. \A u \in Thread \ {t} : u \notin Replacing /\ pc[u] \notin Counts \cup {"move_set", "clear_count"}
      <3>1. \A l \in Lock : Writing(t, l)
        BY <1>1, WholeHeld DEF WholeWriting, InWhole
      <3>. QED BY <3>1, WholeAlone
    <2>3. Items' = {}
      <3>1. Elsewhere(t) = {}
        BY <2>2, AwayIs DEF Elsewhere
      <3>. QED BY <1>5, <1>9, <1>10, <3>1, ItemsApart
    <2>4. SumFunction(elem_counter') = 0
      <3>1. \A l \in Lock : l < n + 1
        BY <1>12, NumLocksAssumption DEF Lock
      <3>2. elem_counter' \in [Lock -> Int] /\ \A l \in Lock : elem_counter'[l] = 0
        BY <1>6, <3>1 DEF MapInv, TableTypes
      <3>. QED BY <3>2, LocksFinite, SumOfZeros
    <2>5. SumFunction(Owed') = 0
      <3>1. \A u \in Thread : pc'[u] \notin Counts
        BY <2>1, <2>2 DEF Only, OthersKeep, Counts
      <3>2. Owed' \in [Thread -> Int] /\ \A u \in Thread : Owed'[u] = 0
        BY <3>1, OwedIsNext
      <3>. QED BY <3>2, ThreadsAssumption, SumOfZeros
    <2>6. Cardinality(Items') = 0
      BY <2>3, FS_EmptySet
    <2>7. CountersAgree'
      BY <2>4, <2>5, <2>6 DEF CountersAgree
    <2>8. IsFiniteSet(Items')
      BY <1>10 DEF ItemsInv
    <2>. QED BY <1>8, <2>7, <2>8 DEF ItemStep
  <1>. QED BY <1>1, <1>11, <1>12

-----------------------------------------------------------------------------
(***************************************************************************)
(* Every step and the start.                                               *)
(***************************************************************************)
LEMMA ContinueItems ==
  ASSUME NEW t \in Thread, IInv, MapInv, MapInv', HomeInv, ItemsInv, LosesNothing, Only(t),
         \/ Lookup(t) \/ Snapshot(t) \/ Update(t) \/ RunCuckoo(t) \/ Resize(t) \/ WholeTable(t)
  PROVE  ItemStep(t)
  <1>1. FreshIndices(t) /\ HopsIntoRoom /\ RehashFindsRoom
    BY DEF LosesNothing, NoStaleIndices
  <1>2. CASE Lookup(t) \/ Snapshot(t)
    BY <1>2, LookupCalm, CalmItems, SnapshotItems
  <1>3. CASE Update(t)
    <2>1. CASE insert_hp(t) \/ cuckoo_hp(t) \/ recheck_hp(t)
      BY <2>1, UpdateCalm, CalmItems
    <2>2. CASE insert(t) \/ recheck(t) \/ remove(t)
      BY <1>1, <2>2, InsertItems, RecheckItems, RemoveItems
    <2>3. CASE insert_count(t) \/ remove_count(t)
      BY <2>3, CountItems
    <2>. QED BY <1>3, <2>1, <2>2, <2>3, Zenon DEF Update
  <1>4. CASE RunCuckoo(t)
    BY <1>1, <1>4, RunCuckooCalm, CalmItems, MoveItems, MoveSetItems
  <1>5. CASE Resize(t)
    <2>1. CASE double(t) \/ resize(t) \/ resize_count(t)
      BY <2>1, ResizeCalm, CalmItems
    <2>2. CASE resize_load(t) \/ rehash_one(t) \/ rehash_two(t)
      BY <1>1, <2>2, ResizeLoadItems, RehashOneItems, RehashTwoItems
    <2>. QED BY <1>5, <2>1, <2>2, Zenon DEF Resize
  <1>6. CASE WholeTable(t)
    <2>1. CASE clear_lock(t) \/ clear(t) \/ clear_count(t)
      BY <2>1, ClearLockItems, ClearItems, ClearCountItems
    <2>2. CASE ~clear_lock(t) /\ ~clear(t) /\ ~clear_count(t)
      BY <1>6, <2>2, WholeCalm, CalmItems
    <2>. QED BY <2>1, <2>2
  <1>. QED BY <1>2, <1>3, <1>4, <1>5, <1>6

LEMMA StepKeepsItems ==
  ASSUME IInv, MapInv, HomeInv, ItemsInv, LosesNothing, [Next]_vars
  PROVE  ItemsInv'
  <1>1. MapInv'
    BY StepMapInv
  <1>2. ASSUME NEW t \in Thread, Invoke(t) \/ Continue(t)
        PROVE  ItemsInv'
    <2>1. CASE GuardStep(t) /\ UNCHANGED <<tableVars, threadVars, pc, loc>>
      BY <2>1, StutterItems
    <2>2. ASSUME ~(GuardStep(t) /\ UNCHANGED <<tableVars, threadVars, pc, loc>>)
          PROVE  ItemsInv'
      <3>1. Good(t)
        BY <1>2, <2>2, ThreadGood
      <3>2. Only(t)
        BY <3>1 DEF Good
      <3>3. CASE Invoke(t)
        <4>1. UNCHANGED <<buckets, elem_counter>> /\ pc[t] = "idle"
          BY <3>3 DEF Invoke, At, tableVars
        <4>2. Calm(t)
          BY <3>3, <4>1, InvokeKnows, StartCalm
        <4>. QED BY <1>1, <3>1, <3>2, <4>2, CalmItems, StepItemsInv
      <3>4. CASE Return(t)
        <4>1. UNCHANGED <<buckets, elem_counter>> /\ pc[t] = "return" /\ Goto(t, "idle")
          BY <3>4 DEF Return, At, Jump, tableVars
        <4>2. Calm(t)
          BY <4>1 DEF Calm, Loud, Counts, RehashLabels
        <4>. QED BY <1>1, <3>1, <3>2, <4>2, CalmItems, StepItemsInv
      <3>5. CASE Lookup(t) \/ Snapshot(t) \/ Update(t) \/ RunCuckoo(t) \/ Resize(t) \/ WholeTable(t)
        BY <1>1, <3>1, <3>2, <3>5, ContinueItems, StepItemsInv
      <3>. QED BY <1>2, <2>2, <3>3, <3>4, <3>5 DEF Continue
    <2>. QED BY <2>1, <2>2
  <1>3. CASE UNCHANGED vars
    BY <1>3, StutterItems DEF vars, tableVars, threadVars, callVars
  <1>. QED BY <1>2, <1>3 DEF Next, AllStopped

LEMMA SizesAdd ==
  ASSUME NEW A, IsFiniteSet(A), NEW B, IsFiniteSet(B), A \cap B = {}
  PROVE  Cardinality(A \cup B) = Cardinality(A) + Cardinality(B)
  <1>1. Cardinality(A) \in Nat /\ Cardinality(B) \in Nat
    BY FS_CardinalityType
  <1>2. Cardinality(A \cup B) = Cardinality(A) + Cardinality(B) - Cardinality({})
    BY FS_Union
  <1>. QED BY <1>1, <1>2, FS_EmptySet

\* The sum over the parts of a finite set of how many elements each has.
LEMMA SumOfParts ==
  ASSUME NEW S, IsFiniteSet(S), NEW C, IsFiniteSet(C), NEW part \in [C -> S],
         NEW f, f = [x \in S |-> Cardinality({c \in C : part[c] = x})]
  PROVE  SumFunction(f) = Cardinality(C)
  <1>. DEFINE P(s) == {c \in C : part[c] \in s}
              One(x) == {c \in C : part[c] = x}
  <1>1. \A s : IsFiniteSet(P(s)) /\ Cardinality(P(s)) \in Nat
    BY FS_Subset, FS_CardinalityType
  <1>2. \A x : IsFiniteSet(One(x)) /\ Cardinality(One(x)) \in Nat
    BY FS_Subset, FS_CardinalityType
  <1>3. f \in [S -> Int] /\ \A x \in S : f[x] = Cardinality(One(x))
    <2>1. \A x \in S : f[x] = Cardinality(One(x))
      OBVIOUS
    <2>. HIDE DEF One
    <2>2. \A x \in S : f[x] \in Int
      BY <1>2, <2>1
    <2>3. f = [x \in S |-> f[x]]
      OBVIOUS
    <2>. QED BY <2>1, <2>2, <2>3
  <1>4. PICK it : AddsUp(f, S, it)
    BY <1>3, SumByStep
  <1>. DEFINE T == {s \in SUBSET S : it[s] = Cardinality(P(s))}
  <1>5. {} \in T
    <2>1. P({}) = {}
      OBVIOUS
    <2>. QED BY <1>4, <2>1, FS_EmptySet DEF AddsUp
  <1>6. ASSUME NEW s \in SUBSET S, s # {}, s \ {Chosen(s)} \in T PROVE s \in T
    <2>1. PICK x : x = Chosen(s) /\ x \in s
      BY <1>6 DEF Chosen
    <2>2. P(s) = One(x) \cup P(s \ {x}) /\ One(x) \cap P(s \ {x}) = {}
      BY <2>1
    <2>. HIDE DEF P, One
    <2>3. IsFiniteSet(One(x)) /\ IsFiniteSet(P(s \ {x}))
      BY <1>1, <1>2
    <2>4. Cardinality(P(s)) = Cardinality(One(x)) + Cardinality(P(s \ {x}))
      BY <2>2, <2>3, SizesAdd
    <2>5. it[s] = f[x] + it[s \ {x}] /\ it[s \ {x}] = Cardinality(P(s \ {x}))
      BY <1>4, <1>6, <2>1 DEF AddsUp
    <2>6. f[x] = Cardinality(One(x))
      BY <1>3, <2>1
    <2>. QED BY <2>4, <2>5, <2>6
  <1>. HIDE DEF T
  <1>7. \A s \in SUBSET S : s \in T
    BY <1>5, <1>6, SubsetInduction
  <1>8. it[S] = Cardinality(P(S))
    BY <1>7 DEF T
  <1>9. P(S) = C
    OBVIOUS
  <1>. QED BY <1>4, <1>8, <1>9 DEF AddsUp

\* The counters of a table that is filled before the threads start.
LEMMA CountedUnder ==
  ASSUME NEW hp \in Nat, NEW tab \in TabType(hp), Legal(hp, tab)
  PROVE  /\ IsFiniteSet(ItemsOf(tab))
         /\ SumFunction([l \in Lock |-> Cardinality(ItemsUnder(tab, l))]) = Cardinality(ItemsOf(tab))
  <1>. DEFINE C == {c \in Index(hp) \X Slot : tab[c[1]][c[2]] # None}
              part == [c \in C |-> lock_ind(c[1])]
              g == [c \in C |-> tab[c[1]][c[2]]]
  <1>1. Index(hp) \subseteq Nat /\ IsFiniteSet(Index(hp)) /\ IsFiniteSet(Slot)
    <2>1. hashsize(hp) - 1 \in Int /\ SLOT_PER_BUCKET - 1 \in Int
      BY Hashsize, TableAssumption
    <2>. QED BY <2>1, FS_Interval DEF Index, Slot
  <1>2. IsFiniteSet(C)
    BY <1>1, FS_Product, FS_Subset
  <1>3. part \in [C -> Lock]
    BY <1>1, LockIndType
  <1>4. \A l : ItemsUnder(tab, l) = {c \in C : part[c] = l}
    <2>1. DOMAIN tab = Index(hp)
      BY DEF TabType
    <2>. QED BY <2>1 DEF ItemsUnder, occupied
  <1>5. g \in Bijection(C, ItemsOf(tab))
    <2>1. \A c \in C : c = <<c[1], c[2]>> /\ c[1] \in Index(hp) /\ c[2] \in Slot
      OBVIOUS
    <2>2. g \in [C -> ItemsOf(tab)]
      <3>1. \A c \in C : tab[c[1]][c[2]] \in ItemsOf(tab)
        BY ItemsOfCells
      <3>. QED BY <3>1
    <2>3. ASSUME NEW c \in C, NEW d \in C, g[c] = g[d] PROVE c = d
      <3>1. c[1] = d[1] /\ c[2] = d[2]
        BY <2>1, <2>3, LegalCells
      <3>. QED BY <2>1, <3>1
    <2>4. ASSUME NEW i \in ItemsOf(tab) PROVE \E c \in C : g[c] = i
      <3>1. i # None
        BY DEF ItemsOf
      <3>2. PICK b \in Index(hp), s \in Slot : i = tab[b][s]
        BY ItemsOfCells
      <3>3. <<b, s>> \in C /\ g[<<b, s>>] = i
        BY <3>1, <3>2
      <3>. QED BY <3>3
    <2>. HIDE DEF C, g
    <2>5. DOMAIN g = C
      BY <2>2
    <2>6. IsInjective(g)
      BY <2>3, <2>5 DEF IsInjective
    <2>. QED BY <2>2, <2>4, <2>6 DEF Bijection, Injection, Surjection
  <1>. HIDE DEF C, part, g
  <1>6. IsFiniteSet(ItemsOf(tab)) /\ Cardinality(ItemsOf(tab)) = Cardinality(C)
    BY <1>2, <1>5, FS_Bijection DEF ExistsBijection
  <1>7. [l \in Lock |-> Cardinality(ItemsUnder(tab, l))] = [l \in Lock |-> Cardinality({c \in C : part[c] = l})]
    BY <1>4
  <1>8. SumFunction([l \in Lock |-> Cardinality({c \in C : part[c] = l})]) = Cardinality(C)
    BY <1>2, <1>3, LocksFinite, SumOfParts
  <1>. QED BY <1>6, <1>7, <1>8

LEMMA InitItems ==
  ASSUME Init, MapInv
  PROVE  ItemsInv
  <1>1. /\ hashpower = InitHashpower /\ hashpower \in Nat /\ buckets \in TabType(hashpower)
        /\ Legal(hashpower, buckets)
        /\ elem_counter = [l \in Lock |-> Cardinality(ItemsUnder(buckets, l))]
    BY Knows, PreloadAssumption DEF Init, TableInit, TableTypes, MapInv
  <1>2. \A t \in Thread : pc[t] = "idle"
    BY DEF Init
  <1>3. Items = ItemsOf(buckets)
    <2>1. \A t \in Thread : loc[t].walk.carry = None
      BY <1>2, Knows DEF ThreadFits, WalkFits
    <2>2. Carried = {}
      BY <2>1 DEF Carried
    <2>3. OldItems = {}
      BY <1>2 DEF OldItems, Replacing
    <2>. QED BY <2>2, <2>3 DEF Items
  <1>4. IsFiniteSet(Items) /\ SumFunction(elem_counter) = Cardinality(Items)
    BY <1>1, <1>3, CountedUnder
  <1>5. SumFunction(Owed) = 0
    <2>1. \A t \in Thread : pc[t] \notin Counts
      BY <1>2 DEF Counts
    <2>2. Owed \in [Thread -> Int] /\ \A t \in Thread : Owed[t] = 0
      BY <2>1, OwedIs
    <2>. QED BY <2>2, ThreadsAssumption, SumOfZeros
  <1>6. CountersAgree
    <2>1. Cardinality(Items) \in Nat
      BY <1>4, FS_CardinalityType
    <2>. QED BY <1>4, <1>5, <2>1 DEF CountersAgree
  <1>7. \A t \in Thread : ThreadItems(t)
    BY <1>2 DEF ThreadItems, RehashLabels
  <1>. QED BY <1>4, <1>6, <1>7 DEF ItemsInv

-----------------------------------------------------------------------------
\* A step in an execution where no hop overwrites an item, no rehash gives up
\* and no insert uses indices of an earlier size leaves each item counted once:
\* the sum of the stripe counters, corrected by what the calls in progress still
\* owe them, stays the number of items.
THEOREM CountsAreKept == Spec => KeptCounted
  <1>1. ASSUME IInv /\ MapInv, [Next]_vars
        PROVE  [HomeInv /\ ItemsInv /\ LosesNothing => ItemsInv']_vars
    BY <1>1, StepKeepsItems
  <1>. QED BY <1>1, MapInvHolds, PTL DEF Spec, KeptCounted

\* An execution that loses no item counts every item once, whatever the
\* threads, keys, hashes, stripes, table sizes and scripts.
THEOREM LosingNothingSuffices == Spec /\ []LosesNothing => []CountersAgree
  <1>1. Init /\ (IInv /\ MapInv) => HomeInv /\ ItemsInv
    BY InitHome, InitItems
  <1>2. (IInv /\ MapInv) /\ (HomeInv /\ ItemsInv) /\ LosesNothing /\ [Next]_vars
          => (HomeInv /\ ItemsInv)'
    BY StepKeepsHome, StepKeepsItems DEF LosesNothing
  <1>3. ItemsInv => CountersAgree
    BY DEF ItemsInv
  <1>. QED BY <1>1, <1>2, <1>3, MapInvHolds, PTL DEF Spec
=============================================================================

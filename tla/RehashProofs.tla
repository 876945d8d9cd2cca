----------------------------- MODULE RehashProofs -----------------------------
(***************************************************************************)
(* Proofs about the copying of one container into the next: pass 1 always  *)
(* has room, a rehash that does not panic moves every item, and the search *)
(* for room is complete for its depth.                                     *)
(***************************************************************************)
EXTENDS Rehash, CuckooTableProofs, FiniteSetTheorems

-----------------------------------------------------------------------------
(***************************************************************************)
(* The two passes as the sequences of their steps.                         *)
(***************************************************************************)
LastPosition(hp) == hashsize(hp) * SLOT_PER_BUCKET

EmptyAcc(hp) == [tab |-> BucketContainer(hp), alternate_items |-> <<>>, panic |-> FALSE]

Pass1Steps(hp, old, f) ==
  /\ f \in [0 .. LastPosition(hp) -> AccType(hp + 1)]
  /\ f[0] = EmptyAcc(hp + 1)
  /\ \A n \in 1 .. LastPosition(hp) : f[n] = rehash_move(hp, old, f[n - 1], Positions(hp)[n])

LEMMA PositionsUpTo ==
  ASSUME NEW hp \in Nat
  PROVE  /\ LastPosition(hp) \in Nat
         /\ DOMAIN Positions(hp) = 1 .. LastPosition(hp)
         /\ \A n \in 1 .. LastPosition(hp) :
              Positions(hp)[n][1] \in Index(hp) /\ Positions(hp)[n][2] \in Slot
  <1>. DEFINE s == SLOT_PER_BUCKET  h == hashsize(hp)
  <1>1. s \in Nat \ {0} /\ h \in Nat \ {0}
    BY TableAssumption, Hashsize
  <1>2. LastPosition(hp) \in Nat
    <2>. HIDE DEF s, h
    <2>1. h * s \in Nat
      BY <1>1
    <2>. QED BY <2>1 DEF LastPosition, s, h
  <1>3. DOMAIN Positions(hp) = 1 .. LastPosition(hp)
    BY DEF Positions, LastPosition
  <1>4. ASSUME NEW n \in 1 .. LastPosition(hp)
        PROVE  Positions(hp)[n][1] \in Index(hp) /\ Positions(hp)[n][2] \in Slot
    <2>1. PICK i \in Nat : i = n - 1
      BY <1>2
    <2>2. i < hashsize(hp) * SLOT_PER_BUCKET /\ i + 1 = n
      BY <1>2, <2>1 DEF LastPosition
    <2>. QED BY <2>2, PositionType
  <1>. QED BY <1>2, <1>3, <1>4

LEMMA Pass1ByStep ==
  ASSUME NEW hp \in Nat, NEW old \in TabType(hp)
  PROVE  \E f : Pass1Steps(hp, old, f) /\ RehashPass1(hp, old) = f[LastPosition(hp)]
  <1>. DEFINE S == AccType(hp + 1)
              N == hashsize(hp) * SLOT_PER_BUCKET
              start == [tab |-> BucketContainer(hp + 1), alternate_items |-> <<>>, panic |-> FALSE]
              Step(z, n) == rehash_move(hp, old, z, Positions(hp)[n])
              g == [n \in 1 .. N |-> [z \in S |-> Step(z, n)]]
              after[n \in 0 .. N] == IF n = 0 THEN start ELSE Step(after[n - 1], n)
  <1>1. N \in Nat
    BY PositionsUpTo DEF LastPosition
  <1>2. start \in S
    BY EmptyTab DEF AccType
  <1>3. \A z \in S, n \in 1 .. N : Step(z, n) \in S
    BY PositionsUpTo, MoveType DEF LastPosition
  <1>4. RehashPass1(hp, old) = after[N]
    BY DEF RehashPass1
  <1>5. N = LastPosition(hp) /\ start = EmptyAcc(hp + 1)
    BY DEF LastPosition, EmptyAcc
  <1>. HIDE DEF S, N, start, Step
  <1>6. g \in [1 .. N -> [S -> S]] /\ \A n \in 1 .. N, z \in S : g[n][z] = Step(z, n)
    BY <1>1, <1>3
  <1>. HIDE DEF g
  <1>7. PICK f : Recurs(f, S, N, start, g)
    BY <1>1, <1>2, <1>6, BoundedRecursion, Zenon
  <1>8. f = [n \in 0 .. N |-> IF n = 0 THEN start ELSE Step(f[n - 1], n)]
    <2>1. f \in [0 .. N -> S]
      BY <1>7 DEF Recurs
    <2>2. f = [n \in 0 .. N |-> IF n = 0 THEN start ELSE g[n][f[n - 1]]]
      BY <1>7 DEF Recurs
    <2>3. \A n \in 0 .. N : n # 0 => g[n][f[n - 1]] = Step(f[n - 1], n)
      BY <1>1, <1>6, <2>1
    <2>. QED BY <2>2, <2>3
  <1>9. after = [n \in 0 .. N |-> IF n = 0 THEN start ELSE Step(after[n - 1], n)]
    BY <1>8, Zenon
  <1>. HIDE DEF after
  <1>10. \A n \in 0 .. N : after[n] = IF n = 0 THEN start ELSE Step(after[n - 1], n)
    BY <1>9, Zenon
  <1>11. \A n \in Nat : n <= N => after[n] \in S
    <2>. DEFINE T == {n \in Nat : n <= N => after[n] \in S}
    <2>1. 0 \in T
      BY <1>1, <1>2, <1>10
    <2>2. ASSUME NEW n \in Nat, n \in T PROVE n + 1 \in T
      <3> SUFFICES ASSUME n + 1 <= N PROVE after[n + 1] \in S
        OBVIOUS
      <3>1. PICK m \in 1 .. N : m = n + 1
        BY <1>1
      <3>2. m \in 0 .. N /\ m # 0 /\ m - 1 = n
        BY <1>1, <3>1
      <3>3. after[m] = Step(after[m - 1], m)
        BY <1>10, <3>2, Zenon
      <3>4. after[m - 1] \in S
        BY <1>1, <2>2, <3>1, <3>2
      <3>. QED BY <1>1, <1>3, <3>1, <3>3, <3>4
    <2>. HIDE DEF T
    <2>3. \A n \in Nat : n \in T
      BY <2>1, <2>2, SetInduction
    <2>. QED BY <2>3 DEF T
  <1>12. after \in [0 .. N -> S]
    BY <1>1, <1>9, <1>11
  <1>13. after[0] = start /\ \A n \in 1 .. N : after[n] = Step(after[n - 1], n)
    BY <1>1, <1>10
  <1>14. Pass1Steps(hp, old, after)
    BY <1>5, <1>12, <1>13 DEF Pass1Steps, S, Step
  <1>15. PICK h : h = after
    OBVIOUS
  <1>16. Pass1Steps(hp, old, h) /\ RehashPass1(hp, old) = h[LastPosition(hp)]
    BY <1>4, <1>5, <1>14, <1>15
  <1>. QED BY <1>16

\* The second pass, from what the first one left.
Pass2Steps(hp, pass1, f) ==
  /\ f \in [0 .. Len(pass1.alternate_items) -> AccType(hp)]
  /\ f[0] = pass1
  /\ \A n \in 1 .. Len(pass1.alternate_items) :
       f[n] = rehash_place_item(hp, f[n - 1], pass1.alternate_items[n])

LEMMA Pass2ByStep ==
  ASSUME NEW hp \in Nat, NEW old, NEW pass1 \in AccType(hp + 1), pass1 = RehashPass1(hp, old)
  PROVE  \E f : /\ Pass2Steps(hp + 1, pass1, f)
                /\ rehash(hp, old) = f[Len(pass1.alternate_items)]
  <1>. DEFINE S == AccType(hp + 1)
              N == Len(pass1.alternate_items)
              Step(z, n) == rehash_place_item(hp + 1, z, pass1.alternate_items[n])
              g == [n \in 1 .. N |-> [z \in S |-> Step(z, n)]]
              after[n \in 0 .. N] == IF n = 0 THEN pass1 ELSE Step(after[n - 1], n)
  <1>1. N \in Nat /\ \A n \in 1 .. N : pass1.alternate_items[n] \in Item
    BY DEF AccType
  <1>2. \A z \in S, n \in 1 .. N : Step(z, n) \in S
    <2> SUFFICES ASSUME NEW z \in S, NEW n \in 1 .. N PROVE Step(z, n) \in S
      OBVIOUS
    <2>1. PICK new_hp \in Nat : new_hp = hp + 1
      OBVIOUS
    <2>2. pass1.alternate_items[n] \in Item /\ z \in AccType(new_hp)
      BY <1>1, <2>1
    <2>3. rehash_place_item(new_hp, z, pass1.alternate_items[n]) \in AccType(new_hp)
      BY <2>2, PlaceItemType
    <2>. QED BY <2>1, <2>3
  <1>4. rehash(hp, old) = after[N]
    BY DEF rehash
  <1>5. pass1 \in S
    OBVIOUS
  <1>. HIDE DEF S, N, Step
  <1>6. g \in [1 .. N -> [S -> S]] /\ \A n \in 1 .. N, z \in S : g[n][z] = Step(z, n)
    BY <1>1, <1>2
  <1>. HIDE DEF g
  <1>7. PICK f : Recurs(f, S, N, pass1, g)
    BY <1>1, <1>5, <1>6, BoundedRecursion, Zenon
  <1>8. f = [n \in 0 .. N |-> IF n = 0 THEN pass1 ELSE Step(f[n - 1], n)]
    <2>1. f \in [0 .. N -> S]
      BY <1>7 DEF Recurs
    <2>2. f = [n \in 0 .. N |-> IF n = 0 THEN pass1 ELSE g[n][f[n - 1]]]
      BY <1>7 DEF Recurs
    <2>3. \A n \in 0 .. N : n # 0 => g[n][f[n - 1]] = Step(f[n - 1], n)
      BY <1>1, <1>6, <2>1
    <2>. QED BY <2>2, <2>3
  <1>9. after = [n \in 0 .. N |-> IF n = 0 THEN pass1 ELSE Step(after[n - 1], n)]
    BY <1>8, Zenon
  <1>. HIDE DEF after
  <1>10. \A n \in 0 .. N : after[n] = IF n = 0 THEN pass1 ELSE Step(after[n - 1], n)
    BY <1>9, Zenon
  <1>11. \A n \in Nat : n <= N => after[n] \in S
    <2>. DEFINE T == {n \in Nat : n <= N => after[n] \in S}
    <2>1. 0 \in T
      BY <1>1, <1>5, <1>10
    <2>2. ASSUME NEW n \in Nat, n \in T PROVE n + 1 \in T
      <3> SUFFICES ASSUME n + 1 <= N PROVE after[n + 1] \in S
        OBVIOUS
      <3>1. PICK m \in 1 .. N : m = n + 1
        BY <1>1
      <3>2. m \in 0 .. N /\ m # 0 /\ m - 1 = n
        BY <1>1, <3>1
      <3>3. after[m] = Step(after[m - 1], m)
        BY <1>10, <3>2, Zenon
      <3>4. after[m - 1] \in S
        BY <1>1, <2>2, <3>1, <3>2
      <3>. QED BY <1>1, <1>2, <3>1, <3>3, <3>4
    <2>. HIDE DEF T
    <2>3. \A n \in Nat : n \in T
      BY <2>1, <2>2, SetInduction
    <2>. QED BY <2>3 DEF T
  <1>12. after \in [0 .. N -> S]
    BY <1>1, <1>9, <1>11
  <1>13. after[0] = pass1 /\ \A n \in 1 .. N : after[n] = Step(after[n - 1], n)
    BY <1>1, <1>10
  <1>14. Pass2Steps(hp + 1, pass1, after)
    BY <1>12, <1>13 DEF Pass2Steps, S, N, Step
  <1>15. PICK h : h = after
    OBVIOUS
  <1>16. Pass2Steps(hp + 1, pass1, h) /\ rehash(hp, old) = h[Len(pass1.alternate_items)]
    BY <1>4, <1>14, <1>15 DEF N
  <1>. QED BY <1>16

-----------------------------------------------------------------------------
(***************************************************************************)
(* Pass 1 after n slots of the old container: an occupied slot of the new  *)
(* one belongs to an item whose new primary bucket it is in, and the slot  *)
(* of the old container with the same number in the old primary bucket has *)
(* already been passed.                                                    *)
(***************************************************************************)
Primary(hp, n, tab) ==
  \A b \in Index(hp + 1), s \in Slot :
    tab[b][s] # None => /\ b = Bucket1(hp + 1, tab[b][s].key)
                        /\ (b % hashsize(hp)) * SLOT_PER_BUCKET + s < n

Roomy(hp, n, acc) == ~acc.panic /\ Primary(hp, n, acc.tab)

LEMMA RoomyStart ==
  ASSUME NEW hp
  PROVE  Roomy(hp, 0, EmptyAcc(hp + 1))
  BY DEF Roomy, Primary, EmptyAcc, BucketContainer

\* The slots of pass 1 by number.
LEMMA PositionNumber ==
  ASSUME NEW hp \in Nat, NEW n \in 1 .. LastPosition(hp)
  PROVE  Positions(hp)[n][1] * SLOT_PER_BUCKET + Positions(hp)[n][2] = n - 1
  <1>. DEFINE s == SLOT_PER_BUCKET
  <1>1. s \in Nat \ {0} /\ LastPosition(hp) \in Nat
    BY TableAssumption, PositionsUpTo
  <1>2. PICK i \in Nat : i = n - 1
    BY <1>1
  <1>3. Positions(hp)[n] = <<i \div s, i % s>>
    BY <1>2 DEF Positions, LastPosition
  <1>. HIDE DEF s
  <1>4. i = (i \div s) * s + (i % s)
    BY <1>1, DivModExists
  <1>. QED BY <1>2, <1>3, <1>4 DEF s

LEMMA RoomyStep ==
  ASSUME NEW hp \in Nat, NEW old \in TabType(hp), NEW acc \in AccType(hp + 1),
         NEW n \in 1 .. LastPosition(hp), Roomy(hp, n - 1, acc)
  PROVE  Roomy(hp, n, rehash_move(hp, old, acc, Positions(hp)[n]))
  <1>. DEFINE new == rehash_move(hp, old, acc, Positions(hp)[n])
  <1>0. PICK hq \in Nat : hq = hp + 1
    OBVIOUS
  <1>. PICK b0, r, item : b0 = Positions(hp)[n][1] /\ r = Positions(hp)[n][2] /\ item = old[b0][r]
    OBVIOUS
  <1>. DEFINE i1   == Bucket1(hp + 1, item.key)
              i2   == Bucket2(hp + 1, item.key)
              room == free_cell(acc.tab, i1, i2)
              c    == CHOOSE c \in room : TRUE
  <1>1. b0 \in Index(hp) /\ r \in Slot /\ n \in Nat /\ LastPosition(hp) \in Nat
    BY PositionsUpTo
  <1>2. b0 * SLOT_PER_BUCKET + r = n - 1
    BY PositionNumber
  <1>3. acc.tab \in TabType(hq) /\ (item # None => item \in Item)
    BY <1>0, <1>1, CellType DEF AccType, Cell
  <1>4. new = IF item = None \/ acc.panic THEN acc
              ELSE IF Bucket1(hp, item.key) # b0
              THEN [acc EXCEPT !.alternate_items = Append(acc.alternate_items, item)]
              ELSE IF room = {} THEN [acc EXCEPT !.panic = TRUE]
              ELSE [acc EXCEPT !.tab = set_kv(acc.tab, c[1], c[2], item)]
    BY DEF rehash_move
  <1>5. ~acc.panic /\ Primary(hp, n - 1, acc.tab)
    BY DEF Roomy
  <1>6. Index(hq) \subseteq Nat /\ Slot \subseteq Nat /\ SLOT_PER_BUCKET \in Nat
        /\ hashsize(hp) \in Nat \ {0}
    BY IndexType, SlotType, TableAssumption, Hashsize
  <1>7. Primary(hp, n, acc.tab)
    <2> SUFFICES ASSUME NEW b \in Index(hp + 1), NEW s \in Slot, acc.tab[b][s] # None
                 PROVE  /\ b = Bucket1(hp + 1, acc.tab[b][s].key)
                        /\ (b % hashsize(hp)) * SLOT_PER_BUCKET + s < n
      BY DEF Primary
    <2>. DEFINE q == (b % hashsize(hp)) * SLOT_PER_BUCKET
    <2>1. b = Bucket1(hp + 1, acc.tab[b][s].key) /\ q + s < n - 1
      BY <1>5 DEF Primary
    <2>2. b \in Nat /\ b % hashsize(hp) \in Nat
      <3>1. b \in Nat
        BY <1>0, <1>6
      <3>. QED BY <3>1, MaskDivMod
    <2>3. q \in Nat /\ s \in Nat
      BY <1>6, <2>2
    <2>. HIDE DEF q
    <2>4. q + s < n
      BY <1>1, <2>1, <2>3
    <2>. QED BY <2>1, <2>4 DEF q
  <1>8. ASSUME item # None, Bucket1(hp, item.key) = b0
        PROVE  /\ room # {}
               /\ LET tab == set_kv(acc.tab, c[1], c[2], item) IN Primary(hp, n, tab)
    <2>1. item \in Item /\ item.key \in Key
      BY <1>3, <1>8 DEF Item
    <2>2. PICK b \in Index(hq) : b = i1
      BY <1>0, <2>1, BucketType
    <2>3. b % hashsize(hp) = b0
      <3>1. Bucket1(hq, item.key) % hashsize(hp) = Bucket1(hp, item.key)
        BY <1>0, <2>1, BucketsLow
      <3>. QED BY <1>0, <1>8, <2>2, <3>1
    <2>4. r \in FreeSlots(acc.tab, b)
      <3> SUFFICES ASSUME acc.tab[b][r] # None PROVE FALSE
        BY <1>1 DEF FreeSlots, occupied
      <3>1. (b % hashsize(hp)) * SLOT_PER_BUCKET + r < n - 1
        BY <1>0, <1>1, <1>5 DEF Primary
      <3>. DEFINE q == b0 * SLOT_PER_BUCKET
      <3>2. q + r < n - 1 /\ q + r = n - 1
        BY <1>2, <2>3, <3>1
      <3>. QED BY <1>1, <3>2
    <2>. PICK m : m = find_empty_slot(acc.tab, b)
      OBVIOUS
    <2>5. m \in Slot /\ m \in FreeSlots(acc.tab, b) /\ m <= r
      <3>1. FreeSlots(acc.tab, b) \in SUBSET Nat /\ FreeSlots(acc.tab, b) # {}
        BY <1>6, <2>4, FreeSlotsType
      <3>. QED BY <2>4, <3>1, MinIn, FreeSlotsType DEF find_empty_slot
    <2>6. room = {<<b, m>>}
      BY <2>2, <2>4 DEF free_cell
    <2>7. c[1] = b /\ c[2] = m
      <3>. HIDE DEF room
      <3>1. c = <<b, m>>
        BY <2>6
      <3>. HIDE DEF c
      <3>. QED BY <3>1
    <2>. PICK tab : tab = set_kv(acc.tab, b, m, item)
      OBVIOUS
    <2>8. ASSUME NEW x \in Index(hp + 1), NEW s \in Slot, tab[x][s] # None
          PROVE  /\ x = Bucket1(hp + 1, tab[x][s].key)
                 /\ (x % hashsize(hp)) * SLOT_PER_BUCKET + s < n
      <3>1. x \in Index(hq)
        BY <1>0
      <3>2. tab[x][s] = IF x = b /\ s = m THEN item ELSE acc.tab[x][s]
        BY <1>3, <2>5, <3>1, AfterWrite
      <3>3. CASE x = b /\ s = m
        <4>. DEFINE q == b0 * SLOT_PER_BUCKET
        <4>1. q + m < n
          <5>1. q + r = n - 1 /\ m <= r
            BY <1>2, <2>5
          <5>2. q \in Int /\ m \in Int /\ r \in Int /\ n \in Int
            BY <1>1, <1>2, <1>6, <2>5 DEF Index
          <5>. HIDE DEF q
          <5>. QED BY <5>1, <5>2
        <4>. QED BY <2>2, <2>3, <3>2, <3>3, <4>1
      <3>4. CASE ~(x = b /\ s = m)
        BY <1>7, <3>2, <3>4, <2>8 DEF Primary
      <3>. QED BY <3>3, <3>4
    <2>9. Primary(hp, n, tab)
      BY <2>8 DEF Primary
    <2>. QED BY <2>6, <2>7, <2>9
  <1>. HIDE DEF i1, i2, room, c
  <1>. QED BY <1>4, <1>5, <1>7, <1>8 DEF Roomy, AccType

LEMMA Pass1Roomy ==
  ASSUME NEW hp \in Nat, NEW old \in TabType(hp), NEW f, Pass1Steps(hp, old, f)
  PROVE  \A n \in 0 .. LastPosition(hp) : Roomy(hp, n, f[n])
  <1>. DEFINE N == LastPosition(hp)
              T == {n \in Nat : n <= N => Roomy(hp, n, f[n])}
  <1>1. N \in Nat
    BY PositionsUpTo
  <1>2. /\ f \in [0 .. N -> AccType(hp + 1)] /\ f[0] = EmptyAcc(hp + 1)
        /\ \A n \in 1 .. N : f[n] = rehash_move(hp, old, f[n - 1], Positions(hp)[n])
    BY DEF Pass1Steps
  <1>3. 0 \in T
    BY <1>2, RoomyStart
  <1>4. ASSUME NEW n \in Nat, n \in T PROVE n + 1 \in T
    <2> SUFFICES ASSUME n + 1 <= N PROVE Roomy(hp, n + 1, f[n + 1])
      OBVIOUS
    <2>1. PICK m \in 1 .. N : m = n + 1 /\ m - 1 = n
      BY <1>1
    <2>2. f[n] \in AccType(hp + 1) /\ Roomy(hp, m - 1, f[n])
      BY <1>1, <1>2, <1>4, <2>1
    <2>3. f[m] = rehash_move(hp, old, f[n], Positions(hp)[m])
      BY <1>2, <2>1
    <2>4. Roomy(hp, m, f[m])
      BY <2>1, <2>2, <2>3, RoomyStep
    <2>. QED BY <2>1, <2>4
  <1>. HIDE DEF T
  <1>5. \A n \in Nat : n \in T
    BY <1>3, <1>4, SetInduction
  <1>. QED BY <1>1, <1>5 DEF T

LEMMA Pass1HasRoom ==
  ASSUME NEW hp \in Nat, NEW old \in TabType(hp), NEW pass1, pass1 = RehashPass1(hp, old)
  PROVE  /\ pass1 \in AccType(hp + 1) /\ ~pass1.panic
         /\ \A b \in Index(hp + 1), s \in Slot :
              pass1.tab[b][s] # None => b = Bucket1(hp + 1, pass1.tab[b][s].key)
  <1>1. PICK f : Pass1Steps(hp, old, f) /\ pass1 = f[LastPosition(hp)]
    BY Pass1ByStep
  <1>2. LastPosition(hp) \in 0 .. LastPosition(hp)
    BY PositionsUpTo
  <1>3. pass1 \in AccType(hp + 1)
    BY <1>1, <1>2 DEF Pass1Steps
  <1>4. Roomy(hp, LastPosition(hp), pass1)
    BY <1>1, <1>2, Pass1Roomy
  <1>. QED BY <1>3, <1>4 DEF Roomy, Primary

-----------------------------------------------------------------------------
(***************************************************************************)
(* The items of the slots that pass 1 has gone through are in the new      *)
(* container or aside, no key in both and none aside twice.                *)
(***************************************************************************)
At(hp, old, n) == old[Positions(hp)[n][1]][Positions(hp)[n][2]]

Passed(hp, old, n) == {At(hp, old, m) : m \in 1 .. n} \ {None}

ItemsMoved(acc, items) ==
  \A i : (i \in ItemsOf(acc.tab) \/ \E a \in 1 .. Len(acc.alternate_items) : i = acc.alternate_items[a])
           <=> i \in items

AsideOnly(acc) ==
  /\ \A a \in 1 .. Len(acc.alternate_items) : ~HasKey(acc.tab, acc.alternate_items[a].key)
  /\ \A a, b \in 1 .. Len(acc.alternate_items) :
       acc.alternate_items[a].key = acc.alternate_items[b].key => a = b

Kept(hp, old, n, acc) ==
  /\ Legal(hp + 1, acc.tab) /\ ItemsMoved(acc, Passed(hp, old, n)) /\ AsideOnly(acc)

LEMMA EmptyItems ==
  ASSUME NEW hp
  PROVE  /\ Legal(hp, BucketContainer(hp)) /\ ItemsOf(BucketContainer(hp)) = {}
         /\ \A k : ~HasKey(BucketContainer(hp), k)
  <1>1. BucketContainer(hp) \in TabType(hp)
        /\ \A b \in Index(hp), s \in Slot : BucketContainer(hp)[b][s] = None
    BY EmptyTab DEF BucketContainer
  <1>. QED BY <1>1, LegalCells, ItemsOfCells, HasKeyCell

LEMMA KeptStart ==
  ASSUME NEW hp, NEW old
  PROVE  Kept(hp, old, 0, EmptyAcc(hp + 1))
  <1>1. Passed(hp, old, 0) = {}
    BY DEF Passed
  <1>2. /\ EmptyAcc(hp + 1).tab = BucketContainer(hp + 1)
        /\ EmptyAcc(hp + 1).alternate_items = <<>> /\ Len(<<>>) = 0
    BY DEF EmptyAcc
  <1>. QED BY <1>1, <1>2, EmptyItems DEF Kept, ItemsMoved, AsideOnly

\* The item of the next slot is new to the rehash.
LEMMA NextIsNew ==
  ASSUME NEW hp \in Nat, NEW old \in TabType(hp), Legal(hp, old),
         NEW n \in 1 .. LastPosition(hp), At(hp, old, n) # None,
         NEW i \in Passed(hp, old, n - 1)
  PROVE  i.key # At(hp, old, n).key
  <1>1. LastPosition(hp) \in Nat
    BY PositionsUpTo
  <1>2. PICK m \in 1 .. LastPosition(hp) : m < n /\ i = At(hp, old, m) /\ i # None
    BY <1>1 DEF Passed
  <1> SUFFICES ASSUME i.key = At(hp, old, n).key PROVE FALSE
    OBVIOUS
  <1>3. /\ Positions(hp)[m][1] \in Index(hp) /\ Positions(hp)[m][2] \in Slot
        /\ Positions(hp)[n][1] \in Index(hp) /\ Positions(hp)[n][2] \in Slot
    BY PositionsUpTo
  <1>4. Positions(hp)[m][1] = Positions(hp)[n][1] /\ Positions(hp)[m][2] = Positions(hp)[n][2]
    BY <1>2, <1>3, LegalCells DEF At
  <1>5. m \in DOMAIN Positions(hp) /\ n \in DOMAIN Positions(hp)
    BY PositionsUpTo
  <1>6. Positions(hp)[m] = Positions(hp)[n]
    BY <1>4, <1>5 DEF Positions
  <1>7. m = n
    BY <1>5, <1>6, PositionsApart
  <1>. QED BY <1>1, <1>2, <1>7

LEMMA KeptStep ==
  ASSUME NEW hp \in Nat, NEW old \in TabType(hp), Legal(hp, old), NEW acc \in AccType(hp + 1),
         NEW n \in 1 .. LastPosition(hp), Kept(hp, old, n - 1, acc),
         NEW new, new = rehash_move(hp, old, acc, Positions(hp)[n]), new \in AccType(hp + 1),
         ~new.panic
  PROVE  Kept(hp, old, n, new)
  <1>00. PICK item, pos : item = At(hp, old, n) /\ pos = Positions(hp)[n]
    OBVIOUS
  <1>0. PICK hq \in Nat : hq = hp + 1
    OBVIOUS
  <1>1. /\ pos[1] \in Index(hp) /\ pos[2] \in Slot /\ item = old[pos[1]][pos[2]]
        /\ n \in Nat /\ LastPosition(hp) \in Nat
    BY <1>00, PositionsUpTo DEF At
  <1>2. /\ Legal(hq, acc.tab) /\ ItemsMoved(acc, Passed(hp, old, n - 1)) /\ AsideOnly(acc)
    BY <1>0 DEF Kept
  <1>3. acc.tab \in TabType(hq) /\ new.tab \in TabType(hq)
        /\ acc.alternate_items \in Seq(Item) /\ new.alternate_items \in Seq(Item)
    BY <1>0 DEF AccType
  <1>4. ASSUME item # None
        PROVE  /\ ~HasKey(acc.tab, item.key)
               /\ \A a \in 1 .. Len(acc.alternate_items) : acc.alternate_items[a].key # item.key
    <2>1. \A i \in Passed(hp, old, n - 1) : i.key # item.key
      BY <1>00, <1>4, NextIsNew
    <2>. QED BY <1>2, <1>3, <2>1, KeysOfItems DEF ItemsMoved
  <1>5. MoveReady(hp, old, acc, pos, item, new)
    BY <1>00, <1>0, <1>1, <1>2, <1>4 DEF MoveReady
  <1>6. MoveDone(hp, acc, item, new)
    BY <1>5, MoveLegal
  <1>7. Legal(hq, new.tab)
    BY <1>0, <1>6 DEF MoveDone
  <1>8. \A i : i \in Passed(hp, old, n) <=> i \in Passed(hp, old, n - 1) \/ (i # None /\ i = item)
    <2>1. \A m : m \in 1 .. n <=> m \in 1 .. n - 1 \/ m = n
      BY <1>1
    <2>. QED BY <1>00, <2>1 DEF Passed
  <1>9. item \in Item => item # None
    BY TableAssumption DEF Item
  <1>10. CASE item = None /\ new = acc
    BY <1>2, <1>7, <1>0, <1>8, <1>10 DEF Kept, ItemsMoved
  <1>11. CASE /\ item \in Item /\ new.tab = acc.tab
              /\ new.alternate_items = Append(acc.alternate_items, item)
    <2>. PICK L : L = Len(acc.alternate_items)
      OBVIOUS
    <2>1. /\ L \in Nat /\ Len(new.alternate_items) = L + 1 /\ new.alternate_items[L + 1] = item
          /\ \A a \in 1 .. L : new.alternate_items[a] = acc.alternate_items[a]
      BY <1>3, <1>11
    <2>2. \A a : a \in 1 .. L + 1 <=> a \in 1 .. L \/ a = L + 1
      BY <2>1
    <2>3. ItemsMoved(new, Passed(hp, old, n))
      BY <1>2, <1>8, <1>9, <1>11, <2>1, <2>2 DEF ItemsMoved
    <2>4. AsideOnly(new)
      <3>. PICK A, B : A = acc.alternate_items /\ B = new.alternate_items
        OBVIOUS
      <3>1. /\ \A a \in 1 .. L + 1 : B[a] = (IF a = L + 1 THEN item ELSE A[a])
            /\ Len(A) = L /\ Len(B) = L + 1
        BY <2>1, <2>2
      <3>2. /\ \A a \in 1 .. L : ~HasKey(acc.tab, A[a].key) /\ A[a].key # item.key
            /\ \A a, b \in 1 .. L : A[a].key = A[b].key => a = b
            /\ ~HasKey(acc.tab, item.key)
        BY <1>2, <1>4, <1>9, <1>11 DEF AsideOnly
      <3>3. /\ \A a \in 1 .. L + 1 : ~HasKey(new.tab, B[a].key)
            /\ \A a, b \in 1 .. L + 1 : B[a].key = B[b].key => a = b
        <4>1. \A a \in 1 .. L + 1 : ~HasKey(new.tab, B[a].key)
          BY <1>11, <2>2, <3>1, <3>2
        <4>2. ASSUME NEW a \in 1 .. L + 1, NEW b \in 1 .. L + 1, B[a].key = B[b].key PROVE a = b
          <5>1. CASE a \in 1 .. L /\ b \in 1 .. L
            <6>1. a # L + 1 /\ b # L + 1
              BY <2>1, <5>1
            <6>. QED BY <3>1, <3>2, <4>2, <5>1, <6>1
          <5>2. CASE a = L + 1 /\ b \in 1 .. L
            <6>1. b # L + 1
              BY <2>1, <5>2
            <6>2. B[a].key = item.key /\ B[b].key = A[b].key
              BY <3>1, <5>2, <6>1
            <6>. QED BY <3>2, <4>2, <5>2, <6>2
          <5>3. CASE b = L + 1 /\ a \in 1 .. L
            <6>1. a # L + 1
              BY <2>1, <5>3
            <6>2. B[b].key = item.key /\ B[a].key = A[a].key
              BY <3>1, <5>3, <6>1
            <6>. QED BY <3>2, <4>2, <5>3, <6>2
          <5>. QED BY <2>2, <5>1, <5>2, <5>3
        <4>. QED BY <4>1, <4>2
      <3>. QED BY <3>1, <3>3 DEF AsideOnly
    <2>. QED BY <1>0, <1>7, <2>3, <2>4 DEF Kept
  <1>12. CASE /\ item \in Item /\ new.alternate_items = acc.alternate_items
              /\ ItemsOf(new.tab) = ItemsOf(acc.tab) \cup {item}
    <2>1. ItemsMoved(new, Passed(hp, old, n))
      BY <1>2, <1>8, <1>9, <1>12 DEF ItemsMoved
    <2>2. \A k : HasKey(new.tab, k) => HasKey(acc.tab, k) \/ k = item.key
      BY <1>3, <1>12, KeysOfItems
    <2>3. AsideOnly(new)
      BY <1>2, <1>4, <1>9, <1>12, <2>2 DEF AsideOnly
    <2>. QED BY <1>0, <1>7, <2>1, <2>3 DEF Kept
  <1>. QED BY <1>6, <1>10, <1>11, <1>12 DEF MoveDone

LEMMA PassedAll ==
  ASSUME NEW hp \in Nat, NEW old \in TabType(hp)
  PROVE  Passed(hp, old, LastPosition(hp)) = ItemsOf(old)
  <1>. DEFINE N == LastPosition(hp)
  <1>1. /\ N \in Nat
        /\ \A n \in 1 .. N : Positions(hp)[n][1] \in Index(hp) /\ Positions(hp)[n][2] \in Slot
    BY PositionsUpTo
  <1>2. ASSUME NEW b \in Index(hp), NEW s \in Slot
        PROVE  \E n \in 1 .. N : At(hp, old, n) = old[b][s]
    <2>1. PICK n \in DOMAIN Positions(hp) : Positions(hp)[n] = <<b, s>>
      BY PositionsCover
    <2>2. n \in 1 .. N
      BY DEF Positions, LastPosition
    <2>. QED BY <2>1, <2>2 DEF At
  <1>3. \A i : i \in Passed(hp, old, N) <=> i # None /\ \E b \in Index(hp), s \in Slot : i = old[b][s]
    BY <1>1, <1>2 DEF Passed, At
  <1>. QED BY <1>3, ItemsOfCells

LEMMA Pass1Keeps ==
  ASSUME NEW hp \in Nat, NEW old \in TabType(hp), Legal(hp, old),
         NEW pass1, pass1 = RehashPass1(hp, old)
  PROVE  Legal(hp + 1, pass1.tab) /\ ItemsMoved(pass1, ItemsOf(old)) /\ AsideOnly(pass1)
  <1>. DEFINE N == LastPosition(hp)
  <1>1. PICK f : Pass1Steps(hp, old, f) /\ pass1 = f[N]
    BY Pass1ByStep
  <1>2. N \in Nat /\ \A n \in 0 .. N : ~f[n].panic
    BY <1>1, PositionsUpTo, Pass1Roomy DEF Roomy
  <1>3. /\ f \in [0 .. N -> AccType(hp + 1)] /\ f[0] = EmptyAcc(hp + 1)
        /\ \A n \in 1 .. N : f[n] = rehash_move(hp, old, f[n - 1], Positions(hp)[n])
    BY <1>1 DEF Pass1Steps
  <1>. DEFINE T == {n \in Nat : n <= N => Kept(hp, old, n, f[n])}
  <1>4. 0 \in T
    BY <1>3, KeptStart
  <1>5. ASSUME NEW n \in Nat, n \in T PROVE n + 1 \in T
    <2> SUFFICES ASSUME n + 1 <= N PROVE Kept(hp, old, n + 1, f[n + 1])
      OBVIOUS
    <2>1. PICK m \in 1 .. N : m = n + 1 /\ m - 1 = n
      BY <1>2
    <2>2. f[n] \in AccType(hp + 1) /\ Kept(hp, old, m - 1, f[n])
      BY <1>2, <1>3, <1>5, <2>1
    <2>3. f[m] = rehash_move(hp, old, f[n], Positions(hp)[m])
      BY <1>3, <2>1
    <2>4. f[m] \in AccType(hp + 1) /\ ~f[m].panic
      <3>1. m \in 0 .. N
        BY <1>2, <2>1
      <3>. QED BY <1>2, <1>3, <3>1
    <2>5. Kept(hp, old, m, f[m])
      BY <2>2, <2>3, <2>4, KeptStep
    <2>. QED BY <2>1, <2>5
  <1>. HIDE DEF T
  <1>6. \A n \in Nat : n \in T
    BY <1>4, <1>5, SetInduction
  <1>7. Kept(hp, old, N, pass1)
    BY <1>1, <1>2, <1>6 DEF T
  <1>. QED BY <1>7, PassedAll DEF Kept

-----------------------------------------------------------------------------
(***************************************************************************)
(* A legal container has as many occupied cells as items.                  *)
(***************************************************************************)
LEMMA CellsFinite ==
  ASSUME NEW hp \in Nat
  PROVE  IsFiniteSet(CellOf(hp)) /\ IsFiniteSet(Index(hp)) /\ IsFiniteSet(Slot)
  <1>1. hashsize(hp) - 1 \in Int /\ SLOT_PER_BUCKET - 1 \in Int
    BY Hashsize, TableAssumption
  <1>2. IsFiniteSet(Index(hp)) /\ IsFiniteSet(Slot)
    BY <1>1, FS_Interval DEF Index, Slot
  <1>. QED BY <1>2, FS_Product DEF CellOf

LEMMA LegalHolds ==
  ASSUME NEW hp \in Nat, NEW tab \in TabType(hp), Legal(hp, tab)
  PROVE  Holds(tab, ItemsOf(tab))
  <1>. DEFINE O == {c \in (DOMAIN tab) \X Slot : occupied(tab, c[1], c[2])}
              I == ItemsOf(tab)
              F == [c \in O |-> tab[c[1]][c[2]]]
  <1>1. O = {c \in CellOf(hp) : tab[c[1]][c[2]] # None}
    BY DEF TabType, CellOf, occupied
  <1>2. IsFiniteSet(O)
    BY <1>1, CellsFinite, FS_Subset
  <1>3. \A c \in O : c = <<c[1], c[2]>> /\ c[1] \in Index(hp) /\ c[2] \in Slot /\ tab[c[1]][c[2]] # None
    BY <1>1 DEF CellOf
  <1>4. F \in [O -> I]
    <2>1. ASSUME NEW c \in O PROVE tab[c[1]][c[2]] \in I
      BY <1>3, ItemsOfCells
    <2>. HIDE DEF O, I
    <2>. QED BY <2>1
  <1>5. \A i \in I : \E c \in O : F[c] = i
    <2> SUFFICES ASSUME NEW i \in I PROVE \E c \in O : F[c] = i
      OBVIOUS
    <2>1. PICK b \in Index(hp), s \in Slot : i = tab[b][s] /\ i # None
      BY ItemsOfCells
    <2>2. <<b, s>> \in O
      BY <1>1, <2>1 DEF CellOf
    <2>. HIDE DEF O
    <2>. QED BY <2>1, <2>2
  <1>6. \A c, d \in O : F[c] = F[d] => c = d
    <2> SUFFICES ASSUME NEW c \in O, NEW d \in O, F[c] = F[d] PROVE c = d
      OBVIOUS
    <2>. HIDE DEF O
    <2>1. tab[c[1]][c[2]] = tab[d[1]][d[2]]
      OBVIOUS
    <2>2. c[1] = d[1] /\ c[2] = d[2]
      BY <1>3, <2>1, LegalCells
    <2>3. c = <<c[1], c[2]>> /\ d = <<d[1], d[2]>>
      BY <1>3
    <2>. QED BY <2>2, <2>3
  <1>. HIDE DEF O, I, F
  <1>7. F \in Bijection(O, I)
    BY <1>4, <1>5, <1>6 DEF Bijection, Injection, Surjection, IsInjective
  <1>8. Cardinality(I) = Cardinality(O)
    BY <1>2, <1>7, FS_Bijection DEF ExistsBijection
  <1>. QED BY <1>8 DEF Holds, O, I

-----------------------------------------------------------------------------
(***************************************************************************)
(* Pass 2 places the items put aside, one after the other.                 *)
(***************************************************************************)
Placed(hp, pass1, n, acc) ==
  /\ Legal(hp, acc.tab)
  /\ ~acc.panic => \A i : i \in ItemsOf(acc.tab) <=>
                            i \in ItemsOf(pass1.tab) \/ \E a \in 1 .. n : i = pass1.alternate_items[a]

LEMMA PlacedStep ==
  ASSUME NEW hp \in Nat, NEW pass1 \in AccType(hp), AsideOnly(pass1), NEW acc \in AccType(hp),
         NEW n \in 1 .. Len(pass1.alternate_items), Placed(hp, pass1, n - 1, acc),
         NEW new, new = rehash_place_item(hp, acc, pass1.alternate_items[n])
  PROVE  Placed(hp, pass1, n, new)
  <1>0. PICK aside : aside = pass1.alternate_items
    OBVIOUS
  <1>1. aside \in Seq(Item) /\ acc.tab \in TabType(hp) /\ pass1.tab \in TabType(hp)
    BY <1>0 DEF AccType
  <1>2. Len(aside) \in Nat /\ n \in Nat /\ n \in 1 .. Len(aside) /\ aside[n] \in Item
    BY <1>0, <1>1
  <1>3. CASE acc.panic
    BY <1>3 DEF rehash_place_item, Placed
  <1>4. CASE ~acc.panic
    <2>1. \A i : i \in ItemsOf(acc.tab) <=>
                   i \in ItemsOf(pass1.tab) \/ \E a \in 1 .. n - 1 : i = aside[a]
      BY <1>0, <1>4 DEF Placed
    <2>2. ~HasKey(acc.tab, aside[n].key)
      <3> SUFFICES ASSUME NEW i \in ItemsOf(acc.tab), i.key = aside[n].key PROVE FALSE
        BY <1>1, KeysOfItems
      <3>1. CASE i \in ItemsOf(pass1.tab)
        <4>1. HasKey(pass1.tab, aside[n].key)
          BY <1>1, <3>1, KeysOfItems
        <4>. QED BY <1>0, <1>2, <4>1 DEF AsideOnly
      <3>2. CASE \E a \in 1 .. n - 1 : i = aside[a]
        <4>1. PICK a \in 1 .. n - 1 : i = aside[a]
          BY <3>2
        <4>2. a \in 1 .. Len(aside) /\ a # n
          BY <1>2
        <4>. QED BY <1>0, <1>2, <4>1, <4>2 DEF AsideOnly
      <3>. QED BY <2>1, <3>1, <3>2
    <2>3. /\ Legal(hp, new.tab)
          /\ ~new.panic => ItemsOf(new.tab) = ItemsOf(acc.tab) \cup {aside[n]}
      BY <1>0, <1>2, <2>2, PlaceItemLegal DEF Placed
    <2>4. \A a : a \in 1 .. n <=> a \in 1 .. n - 1 \/ a = n
      BY <1>2
    <2>5. ~new.panic => \A i : i \in ItemsOf(new.tab) <=>
                                 i \in ItemsOf(pass1.tab) \/ \E a \in 1 .. n : i = aside[a]
      BY <2>1, <2>3, <2>4
    <2>. QED BY <1>0, <2>3, <2>5 DEF Placed
  <1>. QED BY <1>3, <1>4

\* What a whole rehash does.
LEMMA RehashLegal ==
  ASSUME NEW hp \in Nat, NEW old \in TabType(hp), Legal(hp, old),
         NEW result, result = rehash(hp, old)
  PROVE  /\ result \in AccType(hp + 1) /\ Legal(hp + 1, result.tab)
         /\ ~result.panic => ItemsOf(result.tab) = ItemsOf(old)
  <1>0. PICK hq \in Nat : hq = hp + 1
    OBVIOUS
  <1>1. PICK pass1 : pass1 = RehashPass1(hp, old)
    OBVIOUS
  <1>. DEFINE N == Len(pass1.alternate_items)
  <1>2. /\ pass1 \in AccType(hq) /\ Legal(hq, pass1.tab)
        /\ ItemsMoved(pass1, ItemsOf(old)) /\ AsideOnly(pass1)
    BY <1>0, <1>1, Pass1HasRoom, Pass1Keeps
  <1>3. PICK f : Pass2Steps(hq, pass1, f) /\ result = f[N]
    <2>1. pass1 \in AccType(hp + 1)
      BY <1>0, <1>2
    <2>2. \E f : /\ Pass2Steps(hp + 1, pass1, f)
                 /\ rehash(hp, old) = f[Len(pass1.alternate_items)]
      BY <1>1, <2>1, Pass2ByStep, Zenon
    <2>. QED BY <1>0, <2>2
  <1>4. N \in Nat
    BY <1>2 DEF AccType
  <1>5. /\ f \in [0 .. N -> AccType(hq)] /\ f[0] = pass1
        /\ \A n \in 1 .. N : f[n] = rehash_place_item(hq, f[n - 1], pass1.alternate_items[n])
    BY <1>3 DEF Pass2Steps
  <1>. HIDE DEF N
  <1>. DEFINE T == {n \in Nat : n <= N => Placed(hq, pass1, n, f[n])}
  <1>6. 0 \in T
    <2>1. \A a : a \notin 1 .. 0
      OBVIOUS
    <2>2. Placed(hq, pass1, 0, pass1)
      BY <1>2, <2>1 DEF Placed
    <2>. QED BY <1>5, <2>2
  <1>7. ASSUME NEW n \in Nat, n \in T PROVE n + 1 \in T
    <2> SUFFICES ASSUME n + 1 <= N PROVE Placed(hq, pass1, n + 1, f[n + 1])
      OBVIOUS
    <2>1. PICK m \in 1 .. N : m = n + 1 /\ m - 1 = n
      BY <1>4
    <2>2. f[n] \in AccType(hq) /\ Placed(hq, pass1, m - 1, f[n])
      BY <1>4, <1>5, <1>7, <2>1
    <2>3. f[m] = rehash_place_item(hq, f[n], pass1.alternate_items[m])
      BY <1>5, <2>1
    <2>4. m \in 1 .. Len(pass1.alternate_items)
      BY DEF N
    <2>5. Placed(hq, pass1, m, f[m])
      BY <1>2, <2>2, <2>3, <2>4, PlacedStep
    <2>. QED BY <2>1, <2>5
  <1>. HIDE DEF T
  <1>8. \A n \in Nat : n \in T
    BY <1>6, <1>7, SetInduction
  <1>9. Placed(hq, pass1, N, result) /\ result \in AccType(hq)
    <2>1. N \in 0 .. N /\ N <= N
      BY <1>4
    <2>. QED BY <1>3, <1>4, <1>5, <1>8, <2>1 DEF T
  <1>10. ~result.panic => \A i : i \in ItemsOf(result.tab) <=> i \in ItemsOf(old)
    BY <1>2, <1>9 DEF Placed, ItemsMoved, N
  <1>. QED BY <1>0, <1>9, <1>10 DEF Placed

-----------------------------------------------------------------------------
(***************************************************************************)
(* The search is breadth-first.  While it looks at the buckets that a path *)
(* of d moves leads to, it has seen all of those and, of the ones a move   *)
(* further, the neighbours of those it has been through.                   *)
(***************************************************************************)
LEMMA ReachableSteps ==
  ASSUME NEW hp \in Nat, NEW tab \in TabType(hp), NEW start \in SUBSET Index(hp)
  PROVE  /\ Reachable(hp, tab, 0, start) = start
         /\ \A n \in Nat :
              /\ Reachable(hp, tab, n, start) \subseteq Index(hp)
              /\ \A b : b \in Reachable(hp, tab, n + 1, start) <=>
                          \/ b \in Reachable(hp, tab, n, start)
                          \/ \E c \in Reachable(hp, tab, n, start), s \in Slot :
                               occupied(tab, c, s) /\ b = OtherBucket(hp, tab[c][s], c)
  <1>. DEFINE S == SUBSET Index(hp)
              Grow(R) == R \cup {OtherBucket(hp, tab[c[1]][c[2]], c[1]) :
                                   c \in {x \in R \X Slot : occupied(tab, x[1], x[2])}}
              step == [n \in Nat |-> [R \in S |-> Grow(R)]]
              r[m \in Nat] == IF m = 0 THEN start ELSE Grow(r[m - 1])
  <1>1. ASSUME NEW R \in S PROVE Grow(R) \in S
    <2>1. ASSUME NEW c \in R \X Slot, occupied(tab, c[1], c[2])
          PROVE  OtherBucket(hp, tab[c[1]][c[2]], c[1]) \in Index(hp)
      <3>1. c[1] \in Index(hp) /\ c[2] \in Slot
        OBVIOUS
      <3>2. tab[c[1]][c[2]] \in Item
        BY <2>1, <3>1, CellType
      <3>. QED BY <3>2, OtherBucketType
    <2>. QED BY <2>1
  <1>2. \A n \in Nat : Reachable(hp, tab, n, start) = r[n]
    BY DEF Reachable
  <1>3. ASSUME NEW R
        PROVE  \A b : b \in Grow(R) <=>
                        \/ b \in R
                        \/ \E c \in R, s \in Slot :
                             occupied(tab, c, s) /\ b = OtherBucket(hp, tab[c][s], c)
    <2>. DEFINE C == {x \in R \X Slot : occupied(tab, x[1], x[2])}
                O(c) == OtherBucket(hp, tab[c[1]][c[2]], c[1])
    <2>1. \A c \in C : /\ c[1] \in R /\ c[2] \in Slot /\ occupied(tab, c[1], c[2])
                       /\ O(c) = OtherBucket(hp, tab[c[1]][c[2]], c[1])
      OBVIOUS
    <2>2. \A c \in R, s \in Slot :
            occupied(tab, c, s) => <<c, s>> \in C /\ O(<<c, s>>) = OtherBucket(hp, tab[c][s], c)
      OBVIOUS
    <2>3. \A b : b \in Grow(R) <=> b \in R \/ \E c \in C : b = O(c)
      OBVIOUS
    <2>. HIDE DEF C, O, Grow
    <2>4. ASSUME NEW c \in C
          PROVE  \E e \in R, s \in Slot : occupied(tab, e, s) /\ O(c) = OtherBucket(hp, tab[e][s], e)
      BY <2>1
    <2>5. ASSUME NEW e \in R, NEW s \in Slot, occupied(tab, e, s)
          PROVE  \E c \in C : OtherBucket(hp, tab[e][s], e) = O(c)
      <3>1. <<e, s>> \in C /\ O(<<e, s>>) = OtherBucket(hp, tab[e][s], e)
        BY <2>2, <2>5
      <3>. HIDE DEF C, O
      <3>. QED BY <3>1
    <2>. QED BY <2>3, <2>4, <2>5
  <1>4. start \in S
    OBVIOUS
  <1>. HIDE DEF S, Grow
  <1>5. step \in [Nat -> [S -> S]] /\ \A n \in Nat, R \in S : step[n][R] = Grow(R)
    BY <1>1
  <1>. HIDE DEF step
  <1>6. PICK f : Iterates(f, S, start, step)
    BY <1>4, <1>5, Iteration, Zenon
  <1>7. f \in [Nat -> S] /\ f[0] = start /\ \A n \in Nat : f[n + 1] = Grow(f[n])
    BY <1>5, <1>6 DEF Iterates
  <1>8. f = [m \in Nat |-> IF m = 0 THEN start ELSE Grow(f[m - 1])]
    <2>1. ASSUME NEW m \in Nat PROVE f[m] = IF m = 0 THEN start ELSE Grow(f[m - 1])
      <3>1. CASE m = 0
        BY <1>7, <3>1
      <3>2. CASE m # 0
        <4>1. PICK n \in Nat : m = n + 1 /\ m - 1 = n
          BY <3>2
        <4>. QED BY <1>7, <3>2, <4>1
      <3>. QED BY <3>1, <3>2
    <2>. QED BY <1>7, <2>1
  <1>9. r = [m \in Nat |-> IF m = 0 THEN start ELSE Grow(r[m - 1])]
    BY <1>8, Zenon
  <1>. HIDE DEF r
  <1>10. r[0] = start /\ \A n \in Nat : r[n + 1] = Grow(r[n])
    <2>1. \A m \in Nat : r[m] = IF m = 0 THEN start ELSE Grow(r[m - 1])
      BY <1>9, Zenon
    <2>2. \A n \in Nat : n + 1 \in Nat /\ n + 1 # 0 /\ n + 1 - 1 = n
      OBVIOUS
    <2>3. ASSUME NEW n \in Nat PROVE r[n + 1] = Grow(r[n])
      <3>1. PICK m \in Nat : m = n + 1 /\ m # 0 /\ m - 1 = n
        BY <2>2
      <3>2. r[m] = Grow(r[m - 1])
        BY <2>1, <3>1
      <3>. QED BY <3>1, <3>2
    <2>4. r[0] = start
      BY <2>1
    <2>. QED BY <2>3, <2>4
  <1>11. \A n \in Nat : r[n] \in S
    <2>. DEFINE T == {n \in Nat : r[n] \in S}
    <2>1. 0 \in T
      BY <1>4, <1>10
    <2>2. ASSUME NEW n \in Nat, n \in T PROVE n + 1 \in T
      BY <1>1, <1>10, <2>2
    <2>. HIDE DEF T
    <2>3. \A n \in Nat : n \in T
      BY <2>1, <2>2, SetInduction
    <2>. QED BY <2>3 DEF T
  <1>12. \A n \in Nat : \A b : b \in r[n + 1] <=>
                             \/ b \in r[n]
                             \/ \E c \in r[n], s \in Slot :
                                  occupied(tab, c, s) /\ b = OtherBucket(hp, tab[c][s], c)
    BY <1>3, <1>10
  <1>13. \A n \in Nat : Reachable(hp, tab, n + 1, start) = r[n + 1]
    BY <1>2
  <1>. QED BY <1>2, <1>10, <1>11, <1>12, <1>13 DEF S

LEMMA ReachableGrows ==
  ASSUME NEW hp \in Nat, NEW tab \in TabType(hp), NEW start \in SUBSET Index(hp),
         NEW m \in Nat, NEW n \in Nat, m <= n
  PROVE  Reachable(hp, tab, m, start) \subseteq Reachable(hp, tab, n, start)
  <1>. DEFINE R(d) == Reachable(hp, tab, d, start)
              T == {d \in Nat : R(m) \subseteq R(m + d)}
  <1>1. \A d \in Nat : R(d) \subseteq R(d + 1)
    BY ReachableSteps
  <1>. HIDE DEF R
  <1>2. 0 \in T
    OBVIOUS
  <1>3. ASSUME NEW d \in Nat, d \in T PROVE d + 1 \in T
    <2>1. m + d \in Nat /\ m + (d + 1) = (m + d) + 1
      OBVIOUS
    <2>2. R(m + d) \subseteq R((m + d) + 1)
      BY <1>1, <2>1
    <2>. QED BY <1>3, <2>1, <2>2
  <1>. HIDE DEF T
  <1>4. \A d \in Nat : d \in T
    BY <1>2, <1>3, SetInduction
  <1>5. PICK d \in Nat : n = m + d
    <2>1. n - m \in Nat /\ n = m + (n - m)
      OBVIOUS
    <2>. QED BY <2>1
  <1>6. R(m) \subseteq R(m + d)
    BY <1>4 DEF T
  <1>. QED BY <1>5, <1>6 DEF R

\* A set of buckets that leads nowhere else is all there is to reach.
LEMMA ReachableClosed ==
  ASSUME NEW hp \in Nat, NEW tab \in TabType(hp), NEW start \in SUBSET Index(hp), NEW m \in Nat,
         \A c \in Reachable(hp, tab, m, start), s \in Slot :
           OtherBucket(hp, tab[c][s], c) \in Reachable(hp, tab, m, start)
  PROVE  \A d \in Nat : Reachable(hp, tab, m + d, start) \subseteq Reachable(hp, tab, m, start)
  <1>. DEFINE R(d) == Reachable(hp, tab, d, start)
              T == {d \in Nat : R(m + d) \subseteq R(m)}
  <1>1. 0 \in T
    OBVIOUS
  <1>2. ASSUME NEW d \in Nat, d \in T PROVE d + 1 \in T
    <2>1. PICK e \in Nat : e = m + d
      OBVIOUS
    <2>2. \A b : b \in R(e + 1) <=>
                   \/ b \in R(e)
                   \/ \E c \in R(e), s \in Slot :
                        occupied(tab, c, s) /\ b = OtherBucket(hp, tab[c][s], c)
      BY ReachableSteps
    <2>3. R(e) \subseteq R(m)
      BY <1>2, <2>1
    <2>4. R(e + 1) \subseteq R(m)
      BY <2>2, <2>3
    <2>5. e + 1 = m + (d + 1)
      BY <2>1
    <2>. QED BY <2>4, <2>5
  <1>. HIDE DEF T
  <1>3. \A d \in Nat : d \in T
    BY <1>1, <1>2, SetInduction
  <1>. QED BY <1>3 DEF T

Queued(queue, b, d) == \E j \in 1 .. Len(queue) : queue[j].bucket = b /\ queue[j].depth = d

Closed(hp, tab, V, b) ==
  FreeSlots(tab, b) = {} /\ \A s \in Slot : OtherBucket(hp, tab[b][s], b) \in V

\* The search is at depth d; the buckets of open are being looked into.
AtLevel(hp, tab, start, d, open, q) ==
  /\ \A i \in 1 .. Len(q.queue) : q.queue[i].depth = d \/ q.queue[i].depth = d + 1
  /\ \A i, j \in 1 .. Len(q.queue) : i <= j => q.queue[i].depth <= q.queue[j].depth
  /\ Reachable(hp, tab, d, start) \subseteq q.visited
  /\ \A b \in Reachable(hp, tab, d, start) :
       b \in open \/ Closed(hp, tab, q.visited, b) \/ Queued(q.queue, b, d)
  /\ \A b \in q.visited : b \in Reachable(hp, tab, d, start) \/ Queued(q.queue, b, d + 1)
  /\ \A i \in 1 .. Len(q.queue) :
       q.queue[i].bucket \in Reachable(hp, tab, q.queue[i].depth, start)

\* When the buckets of a depth are done, the next depth is complete.
LEMMA NextLevel ==
  ASSUME NEW hp \in Nat, NEW tab \in TabType(hp), NEW start \in SUBSET Index(hp), NEW d \in Nat,
         NEW q \in SearchType(hp), AtLevel(hp, tab, start, d, {}, q),
         q.queue # <<>>, q.queue[1].depth = d + 1
  PROVE  AtLevel(hp, tab, start, d + 1, {}, q)
  <1>0. PICK L, Q, V, R, RR : /\ L = Len(q.queue) /\ Q = q.queue /\ V = q.visited
                              /\ R = Reachable(hp, tab, d, start)
                              /\ RR = Reachable(hp, tab, d + 1, start)
    OBVIOUS
  <1>1. L \in Nat \ {0} /\ L = Len(Q) /\ Q \in Seq(Node(hp))
    <2>1. q.queue \in Seq(Node(hp))
      BY DEF SearchType
    <2>. QED BY <1>0, <2>1
  <1>2. \A i \in 1 .. L : Q[i].depth \in Nat
    <2>1. \A i \in 1 .. L : Q[i] \in Node(hp)
      BY <1>1
    <2>. QED BY <2>1 DEF Node
  <1>3. \A i \in 1 .. L : Q[i].depth = d + 1
    BY <1>0, <1>1, <1>2 DEF AtLevel
  <1>4. \A b \in R : Closed(hp, tab, V, b)
    BY <1>0, <1>1, <1>3 DEF AtLevel, Queued
  <1>5. \A b : b \in RR <=> \/ b \in R
                            \/ \E c \in R, s \in Slot :
                                 occupied(tab, c, s) /\ b = OtherBucket(hp, tab[c][s], c)
    BY <1>0, ReachableSteps
  <1>6. R \subseteq V /\ \A b \in V : b \in R \/ Queued(Q, b, d + 1)
    BY <1>0 DEF AtLevel
  <1>7. RR \subseteq V
    BY <1>4, <1>5, <1>6 DEF Closed
  <1>8. \A i \in 1 .. L : Q[i].bucket \in RR
    BY <1>0, <1>1, <1>3 DEF AtLevel
  <1>9. \A b \in RR : Closed(hp, tab, V, b) \/ Queued(Q, b, d + 1)
    BY <1>4, <1>6, <1>7
  <1>10. \A b \in V : b \in RR
    BY <1>1, <1>5, <1>6, <1>8 DEF Queued
  <1>11. \A i, j \in 1 .. L : Q[i].depth <= Q[j].depth
    BY <1>3
  <1>. QED BY <1>0, <1>1, <1>3, <1>7, <1>8, <1>9, <1>10, <1>11 DEF AtLevel

\* A neighbour of a bucket at depth d goes to the end of the queue unless it has
\* been seen.
Looking(hp, tab, start, x, n, q) ==
  /\ AtLevel(hp, tab, start, x.depth, {x.bucket}, q) /\ q.found = None
  /\ \A s \in Slot : s < n => OtherBucket(hp, tab[x.bucket][s], x.bucket) \in q.visited

\* The search ends before its fuel does: what has been taken off the queue was seen.
Counted(n, q) == n + Len(q.queue) <= Cardinality(q.visited) + 1

LEMMA LookOne ==
  ASSUME NEW hp \in Nat, NEW tab \in TabType(hp), NEW start \in SUBSET Index(hp),
         NEW x \in Node(hp), FreeSlots(tab, x.bucket) = {},
         x.bucket \in Reachable(hp, tab, x.depth, start),
         NEW q \in SearchType(hp), NEW s \in Slot, Looking(hp, tab, start, x, s, q),
         NEW c \in Nat, Counted(c, q)
  PROVE  /\ Looking(hp, tab, start, x, s + 1, Enqueue(hp, tab, x, q, s))
         /\ Counted(c, Enqueue(hp, tab, x, q, s))
  <1>. DEFINE new == Enqueue(hp, tab, x, q, s)
  <1>0. PICK d, alt, L, Q, V :
          /\ d = x.depth /\ alt = OtherBucket(hp, tab[x.bucket][s], x.bucket)
          /\ L = Len(q.queue) /\ Q = q.queue /\ V = q.visited
    OBVIOUS
  <1>1. /\ d \in Nat /\ x.bucket \in Index(hp) /\ occupied(tab, x.bucket, s)
        /\ L \in Nat /\ Q \in Seq(Node(hp)) /\ V \subseteq Index(hp) /\ s \in Nat
    BY <1>0, SlotType DEF Node, SearchType, FreeSlots
  <1>2. \A t \in Slot : t < s + 1 => t < s \/ t = s
    BY <1>1, SlotType
  <1>3. CASE alt \in V
    <2>1. new = q
      BY <1>0, <1>3 DEF Enqueue
    <2>. QED BY <1>0, <1>2, <1>3, <2>1 DEF Looking
  <1>4. CASE alt \notin V
    <2>. DEFINE node == [bucket |-> alt, depth |-> d + 1, path |-> Append(x.path, <<x.bucket, s>>)]
    <2>1. /\ new.queue = Append(Q, node) /\ new.visited = V \cup {alt} /\ new.found = q.found
      BY <1>0, <1>4 DEF Enqueue, SearchType
    <2>1a. node.bucket = alt /\ node.depth = d + 1
      OBVIOUS
    <2>. HIDE DEF node, new
    <2>1b. PICK NQ, NV : NQ = new.queue /\ NV = new.visited
      OBVIOUS
    <2>2. /\ Len(NQ) = L + 1 /\ NQ[L + 1].bucket = alt /\ NQ[L + 1].depth = d + 1
          /\ \A i \in 1 .. L : NQ[i] = Q[i]
          /\ \A i : i \in 1 .. L + 1 <=> i \in 1 .. L \/ i = L + 1
          /\ NV = V \cup {alt}
      BY <1>0, <1>1, <2>1, <2>1a, <2>1b
    <2>2a. PICK R, RR : R = Reachable(hp, tab, d, start) /\ RR = Reachable(hp, tab, d + 1, start)
      OBVIOUS
    <2>3. /\ \A i \in 1 .. L : Q[i].depth = d \/ Q[i].depth = d + 1
          /\ \A i, j \in 1 .. L : i <= j => Q[i].depth <= Q[j].depth
          /\ R \subseteq V
          /\ \A b \in R : b \in {x.bucket} \/ Closed(hp, tab, V, b) \/ Queued(Q, b, d)
          /\ \A b \in V : b \in R \/ Queued(Q, b, d + 1)
          /\ \A i \in 1 .. L : Q[i].bucket \in Reachable(hp, tab, Q[i].depth, start)
      BY <1>0, <2>2a DEF Looking, AtLevel
    <2>4. alt \in RR
      BY <1>0, <1>1, <2>2a, ReachableSteps
    <2>5. \A b, e : Queued(Q, b, e) => Queued(NQ, b, e)
      <3>1. L = Len(Q)
        BY <1>0
      <3>. QED BY <2>2, <3>1 DEF Queued
    <2>6. \A b : Closed(hp, tab, V, b) => Closed(hp, tab, NV, b)
      BY <2>2 DEF Closed
    <2>7. /\ \A i \in 1 .. L + 1 : NQ[i].depth = d \/ NQ[i].depth = d + 1
          /\ \A i \in 1 .. L + 1 : NQ[i].bucket \in Reachable(hp, tab, NQ[i].depth, start)
      BY <2>2, <2>2a, <2>3, <2>4
    <2>8. ASSUME NEW i \in 1 .. L + 1, NEW j \in 1 .. L + 1, i <= j
          PROVE  NQ[i].depth <= NQ[j].depth
      <3>1. CASE j = L + 1
        <4>1. NQ[i].depth = d \/ NQ[i].depth = d + 1
          BY <2>7
        <4>. QED BY <1>1, <2>2, <3>1, <4>1
      <3>2. CASE j \in 1 .. L
        <4>1. i \in 1 .. L
          BY <1>1, <2>8, <3>2
        <4>2. NQ[i] = Q[i] /\ NQ[j] = Q[j]
          BY <2>2, <3>2, <4>1
        <4>. QED BY <2>3, <2>8, <3>2, <4>1, <4>2
      <3>. QED BY <2>2, <3>1, <3>2
    <2>9. /\ R \subseteq NV
          /\ \A b \in R : b \in {x.bucket} \/ Closed(hp, tab, NV, b) \/ Queued(NQ, b, d)
      BY <2>2, <2>3, <2>5, <2>6
    <2>10. \A b \in NV : b \in R \/ Queued(NQ, b, d + 1)
      <3>1. L + 1 \in 1 .. Len(NQ)
        BY <1>1, <2>2
      <3>2. Queued(NQ, alt, d + 1)
        BY <2>2, <3>1 DEF Queued
      <3>. QED BY <2>2, <2>3, <2>5, <3>2
    <2>11. AtLevel(hp, tab, start, d, {x.bucket}, new)
      BY <2>1b, <2>2, <2>2a, <2>7, <2>8, <2>9, <2>10 DEF AtLevel
    <2>12. \A t \in Slot : t < s + 1 => OtherBucket(hp, tab[x.bucket][t], x.bucket) \in NV
      BY <1>0, <1>2, <2>2 DEF Looking
    <2>13. Counted(c, new)
      <3>1. IsFiniteSet(V)
        BY <1>1, CellsFinite, FS_Subset
      <3>2. Cardinality(NV) = Cardinality(V) + 1 /\ Cardinality(V) \in Nat
        BY <1>4, <2>2, <3>1, FS_AddElement, FS_CardinalityType
      <3>3. c + L <= Cardinality(V) + 1
        BY <1>0 DEF Counted
      <3>4. c + (L + 1) <= (Cardinality(V) + 1) + 1
        BY <1>1, <3>2, <3>3
      <3>. QED BY <2>1b, <2>2, <3>2, <3>4 DEF Counted
    <2>. QED BY <1>0, <2>1, <2>1b, <2>11, <2>12, <2>13 DEF Looking, new
  <1>. QED BY <1>3, <1>4

(***************************************************************************)
(* The search after n steps: it has found room within reach, or it is at   *)
(* some depth, or it has been through all that is within reach in vain.    *)
(***************************************************************************)
InReach(hp, tab, start) == Reachable(hp, tab, MAX_BFS_PATH_LEN - 1, start)

InVain(hp, tab, start, q) ==
  /\ \A b \in InReach(hp, tab, start) : FreeSlots(tab, b) = {}
  /\ \A i \in 1 .. Len(q.queue) : q.queue[i].depth >= MAX_BFS_PATH_LEN

Exhaustive(hp, tab, start, n, q) ==
  /\ q.found # None => q.found.cell[1] \in InReach(hp, tab, start)
  /\ q.found = None =>
       /\ \/ InVain(hp, tab, start, q)
          \/ \E d \in Nat : d < MAX_BFS_PATH_LEN /\ AtLevel(hp, tab, start, d, {}, q)
       /\ q.queue # <<>> => Counted(n, q)

LEMMA SearchStartsExhaustive ==
  ASSUME NEW hp \in Nat, NEW tab \in TabType(hp), NEW i1 \in Index(hp), NEW i2 \in Index(hp)
  PROVE  Exhaustive(hp, tab, {i1, i2}, 0, SearchStart(i1, i2))
  <1>. DEFINE q == SearchStart(i1, i2)
              start == {i1, i2}
  <1>1. /\ Len(q.queue) = 2 /\ q.visited = start /\ q.found = None
        /\ q.queue[1].bucket = i1 /\ q.queue[2].bucket = i2
        /\ q.queue[1].depth = 0 /\ q.queue[2].depth = 0
    BY DEF SearchStart
  <1>2. \A i : i \in 1 .. 2 <=> i = 1 \/ i = 2
    OBVIOUS
  <1>3. Reachable(hp, tab, 0, start) = start
    BY ReachableSteps
  <1>. HIDE DEF q
  <1>4. Queued(q.queue, i1, 0) /\ Queued(q.queue, i2, 0)
    BY <1>1, <1>2 DEF Queued
  <1>5. AtLevel(hp, tab, start, 0, {}, q)
    BY <1>1, <1>2, <1>3, <1>4 DEF AtLevel
  <1>6. 0 \in Nat /\ 0 < MAX_BFS_PATH_LEN
    BY TableAssumption
  <1>7. Counted(0, q)
    <2>1. IsFiniteSet(start) /\ Cardinality(start) \in Nat /\ Cardinality(start) # 0
      <3>1. start = {i1} \cup {i2}
        OBVIOUS
      <3>2. IsFiniteSet(start)
        <4>1. IsFiniteSet({i1})
          BY FS_Singleton
        <4>. QED BY <3>1, <4>1, FS_AddElement
      <3>. QED BY <3>2, FS_EmptySet, FS_CardinalityType
    <2>2. Cardinality(q.visited) = Cardinality(start) /\ 0 + 2 <= Cardinality(start) + 1
      BY <1>1, <2>1
    <2>. QED BY <1>1, <2>2 DEF Counted
  <1>8. Exhaustive(hp, tab, start, 0, q)
    BY <1>1, <1>5, <1>6, <1>7 DEF Exhaustive
  <1>. QED BY <1>8 DEF q

\* A bucket taken off the queue leaves one fewer to look at.
LEMMA RestLevel ==
  ASSUME NEW hp \in Nat, NEW tab \in TabType(hp), NEW start \in SUBSET Index(hp),
         NEW q \in Searches(hp, tab, start), q.queue # <<>>, NEW x, x = Head(q.queue),
         AtLevel(hp, tab, start, x.depth, {}, q), q.found = None,
         NEW n \in Nat, Counted(n, q)
  PROVE  /\ Looking(hp, tab, start, x, 0, Rest(q)) /\ Counted(n + 1, Rest(q))
         /\ x.bucket \in Reachable(hp, tab, x.depth, start)
  <1>0. PICK d, L, Q, V, R : /\ d = x.depth /\ L = Len(q.queue) /\ Q = q.queue /\ V = q.visited
                             /\ R = Reachable(hp, tab, d, start)
    OBVIOUS
  <1>1. /\ x = Q[1] /\ L \in Nat \ {0} /\ d \in Nat
        /\ Rest(q).visited = V /\ Rest(q).found = None
    <2>1. RestIs(hp, tab, start, q, x)
      BY RestSearches, Zenon
    <2>. QED BY <1>0, <2>1 DEF RestIs, Node
  <1>2. PICK P : P = Rest(q).queue
    OBVIOUS
  <1>2a. RestIs(hp, tab, start, q, x)
    BY RestSearches, Zenon
  <1>3. Len(P) = L - 1 /\ \A i \in 1 .. L - 1 : P[i] = Q[i + 1] /\ i + 1 \in 1 .. L
    BY <1>0, <1>1, <1>2, <1>2a DEF RestIs
  <1>4. /\ \A i \in 1 .. L : Q[i].depth = d \/ Q[i].depth = d + 1
        /\ \A i, j \in 1 .. L : i <= j => Q[i].depth <= Q[j].depth
        /\ R \subseteq V
        /\ \A b \in R : Closed(hp, tab, V, b) \/ Queued(Q, b, d)
        /\ \A b \in V : b \in R \/ Queued(Q, b, d + 1)
        /\ \A i \in 1 .. L : Q[i].bucket \in Reachable(hp, tab, Q[i].depth, start)
    BY <1>0 DEF AtLevel
  <1>5. ASSUME NEW b, NEW e, Queued(Q, b, e), ~(b = x.bucket /\ e = d) PROVE Queued(P, b, e)
    <2>1. PICK j \in 1 .. L : Q[j].bucket = b /\ Q[j].depth = e
      BY <1>0, <1>5 DEF Queued
    <2>2. j # 1
      BY <1>0, <1>1, <1>5, <2>1
    <2>3. PICK i \in 1 .. L - 1 : j = i + 1
      <3>1. j - 1 \in 1 .. L - 1 /\ j = (j - 1) + 1
        BY <1>1, <2>2
      <3>. QED BY <3>1
    <2>4. i \in 1 .. Len(P) /\ P[i] = Q[j]
      BY <1>3, <2>3
    <2>. QED BY <2>1, <2>4 DEF Queued
  <1>6. d # d + 1
    BY <1>1
  <1>7. /\ \A b \in R : b \in {x.bucket} \/ Closed(hp, tab, V, b) \/ Queued(P, b, d)
        /\ \A b \in V : b \in R \/ Queued(P, b, d + 1)
    BY <1>4, <1>5, <1>6
  <1>8. /\ \A i \in 1 .. L - 1 : P[i].depth = d \/ P[i].depth = d + 1
        /\ \A i \in 1 .. L - 1 : P[i].bucket \in Reachable(hp, tab, P[i].depth, start)
    BY <1>3, <1>4
  <1>9. ASSUME NEW i \in 1 .. L - 1, NEW j \in 1 .. L - 1, i <= j PROVE P[i].depth <= P[j].depth
    <2>1. i + 1 <= j + 1
      BY <1>1, <1>9
    <2>. QED BY <1>3, <1>4, <2>1
  <1>10. AtLevel(hp, tab, start, d, {x.bucket}, Rest(q))
    BY <1>0, <1>1, <1>2, <1>3, <1>4, <1>7, <1>8, <1>9 DEF AtLevel
  <1>11. \A s \in Slot : ~(s < 0)
    BY SlotType
  <1>12. Counted(n + 1, Rest(q))
    <2>1. n + L <= Cardinality(V) + 1
      BY <1>0 DEF Counted
    <2>2. (n + 1) + (L - 1) = n + L
      BY <1>1
    <2>. QED BY <1>1, <1>2, <1>3, <2>1, <2>2 DEF Counted
  <1>13. 1 \in 1 .. L
    BY <1>1
  <1>. QED BY <1>0, <1>1, <1>4, <1>10, <1>11, <1>12, <1>13 DEF Looking

\* A path that has been found is not None.
LEMMA FoundIsSome ==
  ASSUME NEW hp \in Nat, NEW found \in FoundType(hp)
  PROVE  found # None
  <1>1. CellOf(hp) \subseteq Nat \X Nat
    BY IndexType, SlotType DEF CellOf
  <1>2. found.path \in Seq(Nat \X Nat) /\ found.cell \in Nat \X Nat
    <2>1. found.path \in Seq(CellOf(hp)) /\ found.cell \in CellOf(hp)
      BY DEF FoundType
    <2>2. \A i \in 1 .. Len(found.path) : found.path[i] \in Nat \X Nat
      BY <1>1, <2>1
    <2>. QED BY <1>1, <2>1, <2>2
  <1>3. found = [path |-> found.path, cell |-> found.cell]
    BY DEF FoundType
  <1>. QED BY <1>2, <1>3, NoneAssumption

LEMMA DequeueExhaustive ==
  ASSUME NEW hp \in Nat, NEW tab \in TabType(hp), NEW start \in SUBSET Index(hp),
         NEW q \in Searches(hp, tab, start), q.queue # <<>>, q.found = None,
         NEW n \in Nat, Exhaustive(hp, tab, start, n, q)
  PROVE  Exhaustive(hp, tab, start, n + 1, Dequeue(hp, tab, q))
  <1>0. PICK x, L : x = Head(q.queue) /\ L = Len(q.queue)
    OBVIOUS
  <1>. DEFINE M == MAX_BFS_PATH_LEN
  <1>1. /\ x \in Node(hp) /\ x = q.queue[1] /\ L \in Nat \ {0}
        /\ Rest(q).visited = q.visited /\ Rest(q).found = None
        /\ Len(Rest(q).queue) = L - 1
        /\ \A i \in 1 .. L - 1 : Rest(q).queue[i] = q.queue[i + 1] /\ i + 1 \in 1 .. L
    <2>1. RestIs(hp, tab, start, q, x)
      BY <1>0, RestSearches, Zenon
    <2>. QED BY <1>0, <2>1 DEF RestIs
  <1>2. x.depth \in Nat /\ x.bucket \in Index(hp) /\ M \in Nat \ {0} /\ M - 1 \in Nat
    BY <1>1, TableAssumption DEF Node
  <1>3. Counted(n, q) /\ q \in SearchType(hp)
    BY DEF Exhaustive, Searches
  <1>4. \A i \in 1 .. L : q.queue[i].depth \in Nat
    <2>1. q.queue \in Seq(Node(hp))
      BY <1>3 DEF SearchType
    <2>2. \A i \in 1 .. L : q.queue[i] \in Node(hp)
      BY <1>0, <2>1
    <2>. QED BY <2>2 DEF Node
  <1>5. CASE x.depth >= M
    <2>1. Dequeue(hp, tab, q) = Rest(q)
      BY <1>0, <1>5 DEF Dequeue, Rest
    <2>2. InVain(hp, tab, start, q)
      <3>1. CASE InVain(hp, tab, start, q)
        BY <3>1
      <3>2. CASE \E d \in Nat : d < M /\ AtLevel(hp, tab, start, d, {}, q)
        <4>1. PICK d \in Nat : d < M /\ AtLevel(hp, tab, start, d, {}, q)
          BY <3>2
        <4>2. 1 \in 1 .. L
          BY <1>1
        <4>3. d = M - 1 /\ x.depth = d + 1
          <5>1. x.depth = d \/ x.depth = d + 1
            BY <1>0, <1>1, <4>1, <4>2 DEF AtLevel
          <5>. QED BY <1>2, <1>5, <4>1, <5>1
        <4>4. \A i \in 1 .. L : x.depth <= q.queue[i].depth
          BY <1>0, <1>1, <4>1, <4>2 DEF AtLevel
        <4>5. \A i \in 1 .. L : q.queue[i].depth >= M /\ q.queue[i].depth # d
          BY <1>2, <1>4, <4>3, <4>4
        <4>6. \A b \in Reachable(hp, tab, d, start) : FreeSlots(tab, b) = {}
          BY <1>0, <4>1, <4>5 DEF AtLevel, Queued, Closed
        <4>. QED BY <1>0, <4>3, <4>5, <4>6 DEF InVain, InReach
      <3>. QED BY <3>1, <3>2 DEF Exhaustive
    <2>3. InVain(hp, tab, start, Rest(q))
      BY <1>0, <1>1, <2>2 DEF InVain
    <2>4. Counted(n + 1, Rest(q))
      <3>1. n + L <= Cardinality(q.visited) + 1
        BY <1>0, <1>3 DEF Counted
      <3>2. (n + 1) + (L - 1) = n + L
        BY <1>1
      <3>. QED BY <1>1, <3>1, <3>2 DEF Counted
    <2>. QED BY <1>1, <2>1, <2>3, <2>4 DEF Exhaustive
  <1>6. CASE ~(x.depth >= M)
    <2>1. AtLevel(hp, tab, start, x.depth, {}, q)
      <3>1. 1 \in 1 .. L
        BY <1>1
      <3>2. ~InVain(hp, tab, start, q)
        BY <1>0, <1>1, <1>6, <3>1 DEF InVain
      <3>3. PICK d \in Nat : d < M /\ AtLevel(hp, tab, start, d, {}, q)
        BY <3>2 DEF Exhaustive
      <3>4. x.depth = d \/ x.depth = d + 1
        BY <1>0, <1>1, <3>1, <3>3 DEF AtLevel
      <3>5. CASE x.depth = d
        BY <3>3, <3>5
      <3>6. CASE x.depth = d + 1
        <4>1. q.queue[1].depth = d + 1
          BY <1>1, <3>6
        <4>2. AtLevel(hp, tab, start, d + 1, {}, q)
          BY <1>3, <3>3, <4>1, NextLevel
        <4>. QED BY <3>6, <4>2
      <3>. QED BY <3>4, <3>5, <3>6
    <2>2. /\ Looking(hp, tab, start, x, 0, Rest(q)) /\ Counted(n + 1, Rest(q))
          /\ x.bucket \in Reachable(hp, tab, x.depth, start)
      BY <1>0, <1>3, <2>1, RestLevel
    <2>3. x.depth \in Nat /\ x.depth < M /\ x.depth <= M - 1
      BY <1>2, <1>6
    <2>4. CASE FreeSlots(tab, x.bucket) # {}
      <3>1. x.bucket \in InReach(hp, tab, start)
        BY <1>2, <2>2, <2>3, ReachableGrows DEF InReach
      <3>. DEFINE found == [path |-> x.path, cell |-> <<x.bucket, find_empty_slot(tab, x.bucket)>>]
                  new == [Rest(q) EXCEPT !.found = found]
      <3>2. Dequeue(hp, tab, q) = new
        BY <1>0, <1>6, <2>4 DEF Dequeue, Rest
      <3>3. Rest(q) \in SearchType(hp)
        <4>1. RestIs(hp, tab, start, q, x)
          BY <1>0, RestSearches, Zenon
        <4>. QED BY <4>1 DEF RestIs, Searches
      <3>4. new.found = found /\ found.cell[1] = x.bucket
        BY <3>3 DEF SearchType
      <3>5. found # None
        <4>1. find_empty_slot(tab, x.bucket) \in Slot
          BY <2>4, FreeSlotsType
        <4>2. found \in FoundType(hp)
          BY <1>1, <1>2, <4>1 DEF Node, FoundType, CellOf
        <4>. HIDE DEF found
        <4>. QED BY <4>2, FoundIsSome
      <3>. QED BY <3>1, <3>2, <3>4, <3>5 DEF Exhaustive
    <2>5. CASE FreeSlots(tab, x.bucket) = {}
      <3>1. PICK f : /\ ScanSteps(hp, tab, start, x, Rest(q), f)
                     /\ Dequeue(hp, tab, q) = f[SLOT_PER_BUCKET]
        BY <1>0, <1>6, <2>5, DequeueScans
      <3>. DEFINE N == SLOT_PER_BUCKET
      <3>2. /\ N \in Nat /\ f \in [0 .. N -> Searches(hp, tab, start)] /\ f[0] = Rest(q)
            /\ \A i \in 1 .. N : f[i] = Enqueue(hp, tab, x, f[i - 1], i - 1)
        BY <3>1, TableAssumption DEF ScanSteps
      <3>3. \A i \in 0 .. N : i < N => i \in Slot
        BY <3>2 DEF Slot
      <3>4. \A i \in Slot : i < N
        BY <3>2 DEF Slot
      <3>. HIDE DEF N
      <3>. DEFINE Good(i) == Looking(hp, tab, start, x, i, f[i]) /\ Counted(n + 1, f[i])
                  T == {i \in Nat : i <= N => Good(i)}
      <3>5. 0 \in T
        BY <2>2, <3>2
      <3>6. ASSUME NEW i \in Nat, i \in T PROVE i + 1 \in T
        <4> SUFFICES ASSUME i + 1 <= N PROVE Good(i + 1)
          OBVIOUS
        <4>1. PICK m \in 1 .. N : m = i + 1 /\ m - 1 = i
          BY <3>2
        <4>2. i \in 0 .. N /\ i < N /\ i <= N
          BY <3>2
        <4>3. i \in Slot /\ f[i] \in SearchType(hp) /\ Good(i)
          BY <3>2, <3>3, <3>6, <4>2 DEF Searches
        <4>4. f[m] = Enqueue(hp, tab, x, f[i], i)
          BY <3>2, <4>1
        <4>5. n + 1 \in Nat
          OBVIOUS
        <4>6. PICK z : z = f[i]
          OBVIOUS
        <4>7. PICK c \in Nat : c = n + 1
          BY <4>5
        <4>8. /\ z \in SearchType(hp) /\ Looking(hp, tab, start, x, i, z) /\ Counted(c, z)
              /\ x \in Node(hp) /\ x.bucket \in Reachable(hp, tab, x.depth, start)
          BY <1>1, <2>2, <4>3, <4>6, <4>7
        <4>9. /\ Looking(hp, tab, start, x, i + 1, Enqueue(hp, tab, x, z, i))
              /\ Counted(c, Enqueue(hp, tab, x, z, i))
          BY <2>5, <4>3, <4>8, LookOne
        <4>. QED BY <4>1, <4>4, <4>6, <4>7, <4>9
      <3>. HIDE DEF T
      <3>7. \A i \in Nat : i \in T
        BY <3>5, <3>6, SetInduction
      <3>8. Good(N)
        BY <3>2, <3>7 DEF T
      <3>. PICK new : new = f[N]
        OBVIOUS
      <3>9. /\ AtLevel(hp, tab, start, x.depth, {x.bucket}, new) /\ new.found = None
            /\ Closed(hp, tab, new.visited, x.bucket)
        BY <2>5, <3>4, <3>8 DEF Looking, Closed
      <3>10. AtLevel(hp, tab, start, x.depth, {}, new)
        BY <3>9 DEF AtLevel
      <3>11. Dequeue(hp, tab, q) = new
        BY <3>1 DEF N
      <3>. QED BY <2>3, <3>8, <3>9, <3>10, <3>11 DEF Exhaustive
    <2>. QED BY <2>4, <2>5
  <1>. QED BY <1>5, <1>6

\* The search for room finds some exactly when there is some within reach.
LEMMA PathToRoomExact ==
  ASSUME NEW hp \in Nat, NEW tab \in TabType(hp), NEW i1 \in Index(hp), NEW i2 \in Index(hp)
  PROVE  PathToRoom(hp, tab, i1, i2) = None <=>
           \A b \in InReach(hp, tab, {i1, i2}) : FreeSlots(tab, b) = {}
  <1>. DEFINE start == {i1, i2}
              N == hashsize(hp) + 1
  <1>1. PICK f : SearchSteps(hp, tab, i1, i2, f) /\ PathToRoom(hp, tab, i1, i2) = f[N].found
    BY PathToRoomSteps
  <1>2. /\ N \in Nat /\ f \in [0 .. N -> Searches(hp, tab, start)]
        /\ f[0] = SearchStart(i1, i2)
        /\ \A n \in 1 .. N : f[n] = SearchNext(hp, tab, f[n - 1])
    <2>1. N \in Nat
      BY Hashsize
    <2>. QED BY <1>1, <2>1 DEF SearchSteps
  <1>3. start \in SUBSET Index(hp)
    OBVIOUS
  <1>4. hashsize(hp) \in Nat /\ N = hashsize(hp) + 1
    BY Hashsize
  <1>5. Exhaustive(hp, tab, start, 0, SearchStart(i1, i2))
    BY SearchStartsExhaustive
  <1>. HIDE DEF N, start
  <1>. DEFINE T == {n \in Nat : n <= N => Exhaustive(hp, tab, start, n, f[n])}
  <1>6. 0 \in T
    BY <1>2, <1>5
  <1>7. ASSUME NEW n \in Nat, n \in T PROVE n + 1 \in T
    <2> SUFFICES ASSUME n + 1 <= N PROVE Exhaustive(hp, tab, start, n + 1, f[n + 1])
      OBVIOUS
    <2>1. PICK m \in 1 .. N : m = n + 1 /\ m - 1 = n
      BY <1>2
    <2>2. PICK q : q = f[n]
      OBVIOUS
    <2>3. q \in Searches(hp, tab, start) /\ Exhaustive(hp, tab, start, n, q)
      BY <1>2, <1>7, <2>1, <2>2
    <2>4. f[m] = SearchNext(hp, tab, q)
      BY <1>2, <2>1, <2>2
    <2>5. CASE q.found # None \/ q.queue = <<>>
      <3>1. f[m] = q
        BY <2>4, <2>5 DEF SearchNext
      <3>. QED BY <2>1, <2>3, <2>5, <3>1 DEF Exhaustive
    <2>6. CASE q.found = None /\ q.queue # <<>>
      <3>1. f[m] = Dequeue(hp, tab, q)
        BY <2>4, <2>6 DEF SearchNext
      <3>2. Exhaustive(hp, tab, start, n + 1, Dequeue(hp, tab, q))
        BY <1>3, <2>3, <2>6, DequeueExhaustive
      <3>. QED BY <2>1, <3>1, <3>2
    <2>. QED BY <2>5, <2>6
  <1>. HIDE DEF T
  <1>8. \A n \in Nat : n \in T
    BY <1>6, <1>7, SetInduction
  <1>9. PICK q : q = f[N]
    OBVIOUS
  <1>10. /\ q \in Searches(hp, tab, start) /\ Exhaustive(hp, tab, start, N, q)
         /\ PathToRoom(hp, tab, i1, i2) = q.found
    BY <1>1, <1>2, <1>8, <1>9 DEF T
  <1>11. q \in SearchType(hp)
    BY <1>10 DEF Searches
  <1>12. ASSUME q.found # None
         PROVE  \E b \in InReach(hp, tab, start) : FreeSlots(tab, b) # {}
    <2>1. /\ q.found.cell[1] \in InReach(hp, tab, start)
          /\ ~occupied(tab, q.found.cell[1], q.found.cell[2])
      BY <1>10, <1>12 DEF Exhaustive, Searches
    <2>2. q.found.cell[2] \in Slot
      BY <1>11, <1>12 DEF SearchType, FoundType, CellOf
    <2>3. q.found.cell[2] \in FreeSlots(tab, q.found.cell[1])
      BY <2>1, <2>2 DEF FreeSlots
    <2>. QED BY <2>1, <2>3
  <1>13. ASSUME q.found = None
         PROVE  \A b \in InReach(hp, tab, start) : FreeSlots(tab, b) = {}
    <2>1. q.queue = <<>>
      <3> SUFFICES ASSUME q.queue # <<>> PROVE FALSE
        OBVIOUS
      <3>1. Counted(N, q)
        BY <1>10, <1>13 DEF Exhaustive
      <3>2. Len(q.queue) \in Nat \ {0}
        BY <1>11 DEF SearchType
      <3>3. q.visited \in SUBSET Index(hp) /\ IsFiniteSet(Index(hp))
        BY <1>11, CellsFinite DEF SearchType
      <3>4. Cardinality(Index(hp)) = hashsize(hp)
        <4>1. hashsize(hp) \in Nat \ {0}
          BY Hashsize
        <4>2. Cardinality(0 .. hashsize(hp) - 1) = hashsize(hp)
          BY <4>1, FS_Interval
        <4>. QED BY <4>2 DEF Index
      <3>5. Cardinality(q.visited) <= hashsize(hp) /\ Cardinality(q.visited) \in Nat
        BY <3>3, <3>4, FS_Subset, FS_CardinalityType
      <3>6. N + Len(q.queue) <= Cardinality(q.visited) + 1
        BY <3>1 DEF Counted
      <3>. QED BY <1>4, <3>2, <3>5, <3>6
    <2>2. CASE InVain(hp, tab, start, q)
      BY <2>2 DEF InVain
    <2>3. CASE \E d \in Nat : d < MAX_BFS_PATH_LEN /\ AtLevel(hp, tab, start, d, {}, q)
      <3>1. PICK d \in Nat : d < MAX_BFS_PATH_LEN /\ AtLevel(hp, tab, start, d, {}, q)
        BY <2>3
      <3>2. \A b, e : ~Queued(q.queue, b, e)
        BY <2>1 DEF Queued
      <3>. PICK R : R = Reachable(hp, tab, d, start)
        OBVIOUS
      <3>3. \A b \in R : Closed(hp, tab, q.visited, b)
        BY <3>1, <3>2 DEF AtLevel
      <3>4. \A b \in q.visited : b \in R
        BY <3>1, <3>2 DEF AtLevel
      <3>5. \A c \in R, s \in Slot : OtherBucket(hp, tab[c][s], c) \in R
        BY <3>3, <3>4 DEF Closed
      <3>6. PICK k \in Nat : MAX_BFS_PATH_LEN - 1 = d + k
        <4>1. (MAX_BFS_PATH_LEN - 1) - d \in Nat
              /\ MAX_BFS_PATH_LEN - 1 = d + ((MAX_BFS_PATH_LEN - 1) - d)
          BY <3>1, TableAssumption
        <4>. QED BY <4>1
      <3>7. Reachable(hp, tab, d + k, start) \subseteq R
        BY <1>3, <3>5, ReachableClosed
      <3>8. \A b \in R : FreeSlots(tab, b) = {}
        BY <3>3 DEF Closed
      <3>. QED BY <3>6, <3>7, <3>8 DEF InReach
    <2>. QED BY <1>10, <1>13, <2>2, <2>3 DEF Exhaustive
  <1>. QED BY <1>10, <1>12, <1>13 DEF start

LEMMA PlaceExact ==
  ASSUME NEW hp \in Nat, NEW acc \in AccType(hp), ~acc.panic, Legal(hp, acc.tab), NEW item \in Item,
         ~HasKey(acc.tab, item.key), NEW new, new = rehash_place_item(hp, acc, item)
  PROVE  /\ new.tab \in TabType(hp) /\ Legal(hp, new.tab)
         /\ ~new.panic => ItemsOf(new.tab) = ItemsOf(acc.tab) \cup {item}
         /\ new.panic <=> \A b \in InReach(hp, acc.tab, HomesOf(hp, item.key)) :
                            FreeSlots(acc.tab, b) = {}
  <1>1. /\ Legal(hp, new.tab)
        /\ ~new.panic => ItemsOf(new.tab) = ItemsOf(acc.tab) \cup {item}
    BY PlaceItemLegal
  <1>2. new.tab \in TabType(hp)
    <2>1. new \in AccType(hp)
      BY PlaceItemType
    <2>. QED BY <2>1 DEF AccType
  <1>. PICK i1 : i1 = Bucket1(hp, item.key)
    OBVIOUS
  <1>. PICK i2 : i2 = Bucket2(hp, item.key)
    OBVIOUS
  <1>. DEFINE tab == acc.tab
              path == PathToRoom(hp, tab, i1, i2)
              room == free_cell(tab, i1, i2)
              reach == InReach(hp, tab, {i1, i2})
  <1>3. i1 \in Index(hp) /\ i2 \in Index(hp) /\ HomesOf(hp, item.key) = {i1, i2} /\ tab \in TabType(hp)
    BY BucketType DEF Item, HomesOf, AccType
  <1>4. new.panic <=> room = {} /\ path = None
    <2>1. new = IF room # {} THEN LET c == CHOOSE c \in room : TRUE
                                  IN  [acc EXCEPT !.tab = set_kv(tab, c[1], c[2], item)]
                ELSE IF path # None THEN [acc EXCEPT !.tab = ShiftPath(tab, path, item)]
                ELSE [acc EXCEPT !.panic = TRUE]
      BY DEF rehash_place_item
    <2>. HIDE DEF room, path
    <2>. QED BY <2>1 DEF AccType
  <1>5. path = None <=> \A b \in reach : FreeSlots(tab, b) = {}
    BY <1>3, PathToRoomExact
  <1>6. room # {} => \E b \in reach : FreeSlots(tab, b) # {}
    <2>1. {i1, i2} \in SUBSET Index(hp) /\ MAX_BFS_PATH_LEN - 1 \in Nat
      BY <1>3, TableAssumption
    <2>2. {i1, i2} \subseteq reach
      <3>1. 0 \in Nat /\ 0 <= MAX_BFS_PATH_LEN - 1
        BY <2>1
      <3>2. Reachable(hp, tab, 0, {i1, i2}) \subseteq reach
        BY <1>3, <2>1, <3>1, ReachableGrows DEF InReach
      <3>3. Reachable(hp, tab, 0, {i1, i2}) = {i1, i2}
        BY <1>3, <2>1, ReachableSteps
      <3>. QED BY <3>2, <3>3
    <2>. QED BY <2>2 DEF free_cell
  <1>. QED BY <1>1, <1>2, <1>3, <1>4, <1>5, <1>6

-----------------------------------------------------------------------------
(***************************************************************************)
(* The theorems.                                                           *)
(***************************************************************************)
RehashInv ==
  /\ hashpower \in Nat /\ buckets \in TabType(hashpower) /\ panicked \in BOOLEAN
  /\ Legal(hashpower, buckets)

\* The client and the doubling keep every item in a bucket of its key and no
\* key twice, a rehash that panics half-way included.
THEOREM RehashInvHolds == Spec => []RehashInv
  <1>1. Init => RehashInv
    BY HashpowerAssumption, EmptyTab, EmptyItems DEF Init, RehashInv
  <1>2. RehashInv /\ [Next]_rehashVars => RehashInv'
    <2> SUFFICES ASSUME RehashInv, [Next]_rehashVars PROVE RehashInv'
      OBVIOUS
    <2>. USE DEF RehashInv
    <2>1. CASE Place
      <3>0. PICK item \in Item, s \in Slot :
              /\ item.key \notin Present
              /\ \E b \in {Bucket1(hashpower, item.key), Bucket2(hashpower, item.key)} :
                   /\ ~occupied(buckets, b, s)
                   /\ buckets' = set_kv(buckets, b, s, item)
        BY <2>1 DEF Place
      <3>1. PICK b \in {Bucket1(hashpower, item.key), Bucket2(hashpower, item.key)} :
              /\ item.key \notin Present /\ ~occupied(buckets, b, s)
              /\ buckets' = set_kv(buckets, b, s, item)
        BY <3>0
      <3>2. b \in Index(hashpower) /\ b \in HomesOf(hashpower, item.key)
        BY BucketType DEF Item, HomesOf
      <3>3. ~HasKey(buckets, item.key)
        BY <3>1, KeysOfItems DEF Present
      <3>4. hashpower' = hashpower /\ panicked' = panicked
        BY <2>1 DEF Place
      <3>5. Legal(hashpower, buckets') /\ buckets' \in TabType(hashpower)
        BY <3>1, <3>2, <3>3, SetLegal, WriteType DEF Cell
      <3>. QED BY <3>4, <3>5
    <2>2. CASE Erase
      <3>1. PICK b \in Index(hashpower), s \in Slot : buckets' = erase_kv(buckets, b, s)
        BY <2>2 DEF Erase, TabType
      <3>2. hashpower' = hashpower /\ panicked' = panicked
        BY <2>2 DEF Erase
      <3>3. Legal(hashpower, buckets') /\ buckets' \in TabType(hashpower)
        BY <3>1, EraseLegal, WriteType
      <3>. QED BY <3>2, <3>3
    <2>3. CASE cuckoo_fast_double
      <3>1. PICK result : result = rehash(hashpower, buckets)
        OBVIOUS
      <3>2. buckets' = result.tab /\ panicked' = result.panic /\ hashpower' = hashpower + 1
        BY <2>3, <3>1 DEF cuckoo_fast_double
      <3>3. result \in AccType(hashpower + 1) /\ Legal(hashpower + 1, result.tab)
        BY <3>1, RehashLegal
      <3>4. hashpower' \in Nat /\ result.tab \in TabType(hashpower + 1) /\ result.panic \in BOOLEAN
        BY <3>2, <3>3 DEF AccType
      <3>. QED BY <3>2, <3>3, <3>4
    <2>4. CASE UNCHANGED rehashVars
      BY <2>4 DEF rehashVars
    <2>. QED BY <2>1, <2>2, <2>3, <2>4 DEF Next
  <1>. QED BY <1>1, <1>2, PTL DEF Spec

\* The first panic! of a doubling is unreachable: pass 1 moves each item that
\* sat in its primary bucket to its new primary bucket.
THEOREM PrimaryPassAlwaysHasRoom == Spec => []PrimaryPassHasRoom
  <1>1. RehashInv => PrimaryPassHasRoom
    <2> SUFFICES ASSUME RehashInv PROVE PrimaryPassHasRoom
      OBVIOUS
    <2>1. PICK pass1 : pass1 = RehashPass1(hashpower, buckets)
      OBVIOUS
    <2>2. /\ pass1 \in AccType(hashpower + 1) /\ ~pass1.panic
          /\ \A b \in Index(hashpower + 1), s \in Slot :
               pass1.tab[b][s] # None => b = Bucket1(hashpower + 1, pass1.tab[b][s].key)
      BY <2>1, Pass1HasRoom DEF RehashInv
    <2>3. DOMAIN pass1.tab = Index(hashpower + 1)
      BY <2>2 DEF AccType, TabType
    <2>. QED BY <2>1, <2>2, <2>3 DEF PrimaryPassHasRoom, occupied
  <1>. QED BY <1>1, RehashInvHolds, PTL

\* A doubling that does not panic moves every item of the table, makes none
\* up, and leaves each in a bucket of its key.
THEOREM DoublingKeepsItems == Spec => DoubleKeepsItems
  <1>1. RehashInv /\ RehashInv' /\ [Next]_rehashVars =>
          [hashpower' # hashpower /\ ~panicked' =>
             Holds(buckets', ItemsOf(buckets)) /\ AllHome(buckets', hashpower')]_rehashVars
    <2> SUFFICES ASSUME RehashInv, RehashInv', Next, hashpower' # hashpower, ~panicked'
                 PROVE  Holds(buckets', ItemsOf(buckets)) /\ AllHome(buckets', hashpower')
      OBVIOUS
    <2>1. cuckoo_fast_double
      BY DEF Next, Place, Erase
    <2>2. PICK result : result = rehash(hashpower, buckets)
      OBVIOUS
    <2>3. buckets' = result.tab /\ panicked' = result.panic
      BY <2>1, <2>2 DEF cuckoo_fast_double
    <2>4. ItemsOf(buckets') = ItemsOf(buckets)
      BY <2>2, <2>3, RehashLegal DEF RehashInv
    <2>5. /\ hashpower' \in Nat /\ buckets' \in TabType(hashpower')
          /\ Legal(hashpower', buckets')
      BY DEF RehashInv
    <2>6. Holds(buckets', ItemsOf(buckets'))
      BY <2>5, LegalHolds
    <2>. QED BY <2>4, <2>5, <2>6 DEF Legal
  <1>. QED BY <1>1, RehashInvHolds, PTL DEF Spec, DoubleKeepsItems

\* An item is placed exactly when one of the buckets that the depth of the
\* search allows has a free slot, and then no item is lost, none is made up
\* and each is in a bucket of its key.
THEOREM PlacingIsExact == Spec => []PlaceItemExact
  <1>1. RehashInv => PlaceItemExact
    <2> SUFFICES ASSUME RehashInv, NEW item \in Item, item.key \notin Present
                 PROVE  LET new == rehash_place_item(hashpower,
                              [tab |-> buckets, alternate_items |-> <<>>, panic |-> FALSE], item)
                            room == {b \in InReach(hashpower, buckets, HomesOf(hashpower, item.key)) :
                                       FreeSlots(buckets, b) # {}}
                        IN  /\ new.panic <=> room = {}
                            /\ ~new.panic => /\ Holds(new.tab, ItemsOf(buckets) \cup {item})
                                             /\ AllHome(new.tab, hashpower)
      BY DEF PlaceItemExact, InReach, HomesOf
    <2>1. PICK hp \in Nat : hp = hashpower
      BY DEF RehashInv
    <2>2. PICK acc \in AccType(hp) :
            acc = [tab |-> buckets, alternate_items |-> <<>>, panic |-> FALSE]
      <3>. DEFINE a == [tab |-> buckets, alternate_items |-> <<>>, panic |-> FALSE]
      <3>1. buckets \in TabType(hp) /\ <<>> \in Seq(Item)
        BY <2>1 DEF RehashInv
      <3>2. a \in AccType(hp)
        BY <3>1 DEF AccType
      <3>. HIDE DEF a
      <3>3. \E acc \in AccType(hp) : acc = a
        BY <3>2
      <3>. QED BY <3>3 DEF a
    <2>3. ~acc.panic /\ Legal(hp, acc.tab) /\ acc.tab = buckets /\ buckets \in TabType(hp)
      BY <2>1, <2>2 DEF RehashInv
    <2>4. ~HasKey(acc.tab, item.key)
      BY <2>3, KeysOfItems DEF Present
    <2>5. PICK new : new = rehash_place_item(hp, acc, item)
      OBVIOUS
    <2>6. /\ new.tab \in TabType(hp) /\ Legal(hp, new.tab)
          /\ ~new.panic => ItemsOf(new.tab) = ItemsOf(acc.tab) \cup {item}
          /\ new.panic <=> \A b \in InReach(hp, acc.tab, HomesOf(hp, item.key)) :
                             FreeSlots(acc.tab, b) = {}
      BY <2>3, <2>4, <2>5, PlaceExact
    <2>7. Holds(new.tab, ItemsOf(new.tab)) /\ AllHome(new.tab, hp)
      BY <2>6, LegalHolds DEF Legal
    <2>. QED BY <2>1, <2>2, <2>3, <2>5, <2>6, <2>7
  <1>. QED BY <1>1, RehashInvHolds, PTL
=============================================================================

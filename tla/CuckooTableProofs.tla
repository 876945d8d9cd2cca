-------------------------- MODULE CuckooTableProofs --------------------------
(***************************************************************************)
(* Proofs about the container as a value: where a search looks, what a     *)
(* write leaves as it was, and that the rehash of one item, with the items *)
(* it displaces, yields a container of the same size.                      *)
(***************************************************************************)
EXTENDS CuckooTable, BucketIndexProofs

LEMMA SlotType == Slot \subseteq Nat /\ 0 \in Slot
  BY TableAssumption DEF Slot

\* The first slot of a set.
LEMMA MinIn ==
  ASSUME NEW S \in SUBSET Nat, S # {}
  PROVE  Min(S) \in S /\ \A x \in S : Min(S) <= x
  <1>1. PICK m \in S : \A y \in S : ~(<<y, m>> \in OpToRel(<, Nat))
    BY WFMin, NatLessThanWellFounded
  <1>2. \A y \in S : ~(y < m)
    BY <1>1 DEF OpToRel
  <1>3. \A y \in S : m <= y
    BY <1>2
  <1>. QED BY <1>3 DEF Min

LEMMA FreeSlotsType ==
  ASSUME NEW tab, NEW b
  PROVE  /\ FreeSlots(tab, b) \subseteq Slot
         /\ FreeSlots(tab, b) # {} => find_empty_slot(tab, b) \in FreeSlots(tab, b)
  <1>1. FreeSlots(tab, b) \in SUBSET Nat /\ FreeSlots(tab, b) \subseteq Slot
    BY SlotType DEF FreeSlots
  <1>. QED BY <1>1, MinIn DEF find_empty_slot

\* A search answers with a cell of one of the two buckets that holds the key.
LEMMA FindCell ==
  ASSUME NEW tab, NEW k, NEW i1, NEW i2, NEW c \in cuckoo_find(tab, k, i1, i2)
  PROVE  /\ c = <<c[1], c[2]>>
         /\ c[1] \in {i1, i2} /\ c[2] \in Slot
         /\ tab[c[1]][c[2]] # None /\ tab[c[1]][c[2]].key = k
  <1>. DEFINE K(b) == KeySlots(tab, b, k)
  <1>1. \A b : K(b) \in SUBSET Nat /\ K(b) \subseteq Slot
    BY SlotType DEF KeySlots
  <1>2. \A b : K(b) # {} => Min(K(b)) \in K(b)
    BY <1>1, MinIn
  <1>3. PICK b \in {i1, i2} : K(b) # {} /\ c = <<b, Min(K(b))>>
    BY DEF cuckoo_find
  <1>. HIDE DEF K
  <1>4. c = <<c[1], c[2]>> /\ c[1] = b /\ c[2] \in K(b)
    BY <1>2, <1>3
  <1>. QED BY <1>3, <1>4 DEF K, KeySlots, occupied

LEMMA FreeCell ==
  ASSUME NEW tab, NEW i1, NEW i2, NEW c \in free_cell(tab, i1, i2)
  PROVE  /\ c = <<c[1], c[2]>>
         /\ c[1] \in {i1, i2} /\ c[2] \in Slot
         /\ tab[c[1]][c[2]] = None
  <1>1. PICK b \in {i1, i2} : FreeSlots(tab, b) # {} /\ c = <<b, find_empty_slot(tab, b)>>
    BY DEF free_cell
  <1>2. find_empty_slot(tab, b) \in FreeSlots(tab, b)
    BY <1>1, FreeSlotsType
  <1>. QED BY <1>1, <1>2 DEF FreeSlots, occupied

-----------------------------------------------------------------------------
(***************************************************************************)
(* Indices.                                                                *)
(***************************************************************************)
LEMMA HashKeyType ==
  ASSUME NEW k \in Key
  PROVE  hash_key[k].hash \in Nat /\ hash_key[k].partial \in Nat
  BY HashKeyAssumption

LEMMA IndexType ==
  ASSUME NEW hp \in Nat
  PROVE  Index(hp) \subseteq Nat /\ 0 \in Index(hp)
  BY Hashsize DEF Index

LEMMA IndexGrows ==
  ASSUME NEW m \in Nat, NEW n \in Nat, m <= n
  PROVE  hashsize(m) <= hashsize(n) /\ Index(m) \subseteq Index(n)
  <1>. DEFINE g == hashsize(m)  h == hashsize(n)
  <1>1. PICK k \in Nat \ {0} : h = k * g
    BY HashsizeDivides
  <1>2. g \in Nat \ {0} /\ h \in Nat \ {0}
    BY Hashsize
  <1>. HIDE DEF g, h
  <1>. DEFINE d == k - 1
  <1>3. d \in Nat /\ k = d + 1
    OBVIOUS
  <1>. HIDE DEF d
  <1>. DEFINE e == d * g
  <1>4. h = e + g /\ e \in Nat
    BY <1>1, <1>2, <1>3
  <1>. HIDE DEF e
  <1>5. g <= h
    BY <1>2, <1>4
  <1>. QED BY <1>2, <1>5 DEF Index, g, h

LEMMA BucketType ==
  ASSUME NEW hp \in Nat, NEW k \in Key
  PROVE  Bucket1(hp, k) \in Index(hp) /\ Bucket2(hp, k) \in Index(hp)
  <1>1. Bucket1(hp, k) \in Index(hp)
    BY HashKeyType, IndexHash DEF Bucket1, Index
  <1>2. Bucket1(hp, k) \in Nat
    BY <1>1, IndexType
  <1>. QED BY <1>1, <1>2, HashKeyType, AltIndex DEF Bucket2, Index

\* The two buckets of a key lead to each other.
LEMMA BucketsAlternate ==
  ASSUME NEW hp \in Nat, NEW k \in Key, NEW b,
         b = Bucket1(hp, k) \/ b = Bucket2(hp, k)
  PROVE  LET a == alt_index(hp, hash_key[k].partial, b) IN
         a = Bucket1(hp, k) \/ a = Bucket2(hp, k)
  <1>1. CASE b = Bucket1(hp, k)
    BY <1>1 DEF Bucket2
  <1>2. CASE b = Bucket2(hp, k)
    <2>1. Bucket1(hp, k) \in 0 .. hashsize(hp) - 1
      BY BucketType DEF Index
    <2>. QED BY <1>2, <2>1, HashKeyType, AltIndexInvolution DEF Bucket2
  <1>. QED BY <1>1, <1>2

\* What a key's buckets in a larger table are in a smaller one.
LEMMA BucketsLow ==
  ASSUME NEW m \in Nat, NEW n \in Nat, m <= n, NEW k \in Key
  PROVE  /\ Bucket1(n, k) % hashsize(m) = Bucket1(m, k)
         /\ Bucket2(n, k) % hashsize(m) = Bucket2(m, k)
  <1>1. Bucket1(n, k) % hashsize(m) = Bucket1(m, k)
    BY HashKeyType, IndexHashLow DEF Bucket1
  <1>2. Bucket1(n, k) \in Nat
    BY BucketType, IndexType
  <1>. QED BY <1>1, <1>2, HashKeyType, AltIndexLow DEF Bucket2

LEMMA PositionType ==
  ASSUME NEW hp \in Nat, NEW i \in Nat, i < hashsize(hp) * SLOT_PER_BUCKET
  PROVE  /\ i + 1 \in DOMAIN Positions(hp)
         /\ Positions(hp)[i + 1][1] \in Index(hp)
         /\ Positions(hp)[i + 1][2] \in Slot
  <1>. DEFINE s == SLOT_PER_BUCKET  h == hashsize(hp)  q == i \div s  r == i % s
  <1>1. s \in Nat \ {0} /\ h \in Nat \ {0}
    BY TableAssumption, Hashsize
  <1>. HIDE DEF s, h
  <1>2. q \in Nat /\ r \in 0 .. s - 1 /\ i = q * s + r
    BY <1>1, DivModExists
  <1>3. i < h * s
    BY DEF h, s
  <1>. HIDE DEF q, r
  <1>4. q < h
    <2> SUFFICES ASSUME h <= q PROVE FALSE
      BY <1>1, <1>2
    <2>. DEFINE d == q - h
    <2>1. d \in Nat /\ q = h + d
      BY <1>1, <1>2
    <2>. HIDE DEF d
    <2>2. q * s = h * s + d * s /\ d * s >= 0
      BY <1>1, <2>1
    <2>. QED BY <1>1, <1>2, <1>3, <2>2
  <1>5. h * s \in Nat
    BY <1>1
  <1>6. i + 1 \in 1 .. h * s
    BY <1>3, <1>5
  <1>7. Positions(hp)[i + 1] = <<(i + 1 - 1) \div s, (i + 1 - 1) % s>>
    BY <1>6 DEF Positions, h, s
  <1>8. i + 1 - 1 = i
    OBVIOUS
  <1>9. Positions(hp)[i + 1] = <<q, r>>
    BY <1>7, <1>8 DEF q, r
  <1>10. i + 1 \in DOMAIN Positions(hp)
    BY <1>6 DEF Positions, h, s
  <1>. QED BY <1>1, <1>2, <1>4, <1>9, <1>10 DEF Index, Slot, h, s

\* No slot comes twice.
LEMMA PositionsApart ==
  ASSUME NEW hp \in Nat, NEW m \in DOMAIN Positions(hp), NEW n \in DOMAIN Positions(hp),
         Positions(hp)[m] = Positions(hp)[n]
  PROVE  m = n
  <1>. DEFINE s == SLOT_PER_BUCKET
  <1>1. s \in Nat \ {0} /\ hashsize(hp) \in Nat
    BY TableAssumption, Hashsize
  <1>2. hashsize(hp) * s \in Nat
    BY <1>1
  <1>3. m - 1 \in Nat /\ n - 1 \in Nat
    BY <1>2 DEF Positions
  <1>4. (m - 1) \div s = (n - 1) \div s /\ (m - 1) % s = (n - 1) % s
    BY DEF Positions
  <1>5. PICK i \in Nat, j \in Nat : i = m - 1 /\ j = n - 1
    BY <1>3
  <1>. PICK q, r, p, v : q = i \div s /\ r = i % s /\ p = j \div s /\ v = j % s
    OBVIOUS
  <1>6. q = p /\ r = v
    BY <1>4, <1>5
  <1>. HIDE DEF s
  <1>7. i = q * s + r /\ j = p * s + v
    BY <1>1, DivModExists
  <1>8. i = j
    BY <1>6, <1>7
  <1>. QED BY <1>2, <1>5, <1>8 DEF Positions

\* Every slot is at some position.
LEMMA PositionsCover ==
  ASSUME NEW hp \in Nat, NEW b \in Index(hp), NEW s \in Slot
  PROVE  \E n \in DOMAIN Positions(hp) : Positions(hp)[n] = <<b, s>>
  <1>. DEFINE S == SLOT_PER_BUCKET  h == hashsize(hp)  i == b * S + s
  <1>1. S \in Nat \ {0} /\ h \in Nat \ {0} /\ b \in 0 .. h - 1 /\ s \in 0 .. S - 1
    BY TableAssumption, Hashsize DEF Index, Slot
  <1>2. Positions(hp) = [n \in 1 .. h * S |-> <<(n - 1) \div S, (n - 1) % S>>]
    BY DEF Positions
  <1>. HIDE DEF S, h
  <1>3. i \in Nat /\ i \div S = b /\ i % S = s
    BY <1>1, DivMod
  <1>4. h * S \in Nat
    BY <1>1
  <1>5. i < h * S
    <2>1. PICK d \in Nat : h = b + 1 + d
      <3>1. h - (b + 1) \in Nat /\ h = b + 1 + (h - (b + 1))
        BY <1>1
      <3>. QED BY <3>1
    <2>2. h * S = b * S + S + d * S /\ d * S >= 0
      BY <1>1, <2>1
    <2>. DEFINE x == b * S  y == d * S  z == h * S
    <2>3. z = x + S + y /\ y >= 0 /\ i = x + s /\ x \in Int /\ y \in Int
      BY <1>1, <2>2
    <2>. HIDE DEF x, y, z, i
    <2>4. i < z
      BY <1>1, <2>3
    <2>. QED BY <2>4 DEF z
  <1>. HIDE DEF i
  <1>6. PICK n \in 1 .. h * S : n = i + 1
    BY <1>3, <1>4, <1>5
  <1>7. n - 1 = i
    BY <1>3, <1>6
  <1>8. Positions(hp)[n] = <<b, s>>
    BY <1>2, <1>3, <1>7
  <1>. QED BY <1>2, <1>8

-----------------------------------------------------------------------------
(***************************************************************************)
(* Writes.  A write outside the container changes nothing, so it too       *)
(* yields one of the same size.                                            *)
(***************************************************************************)
LEMMA EmptyTab ==
  ASSUME NEW hp
  PROVE  BucketContainer(hp) \in TabType(hp)
  BY DEF BucketContainer, TabType, Cell

LEMMA WriteType ==
  ASSUME NEW hp, NEW tab \in TabType(hp), NEW b, NEW s
  PROVE  /\ \A item \in Cell : set_kv(tab, b, s, item) \in TabType(hp)
         /\ erase_kv(tab, b, s) \in TabType(hp)
  BY DEF set_kv, erase_kv, TabType, Cell

LEMMA WriteBucket ==
  ASSUME NEW hp, NEW tab \in TabType(hp), NEW b, NEW s, NEW item
  PROVE  \A x \in Index(hp) : x # b =>
           set_kv(tab, b, s, item)[x] = tab[x] /\ erase_kv(tab, b, s)[x] = tab[x]
  BY DEF set_kv, erase_kv, TabType

-----------------------------------------------------------------------------
(***************************************************************************)
(* Tables in which lookups find what is there, and how writes keep them.   *)
(***************************************************************************)
\* What a cell holds after a write.
LEMMA AfterWrite ==
  ASSUME NEW hp, NEW tab \in TabType(hp), NEW b \in Index(hp), NEW s \in Slot, NEW item
  PROVE  \A x \in Index(hp), y \in Slot :
           /\ set_kv(tab, b, s, item)[x][y] = IF x = b /\ y = s THEN item ELSE tab[x][y]
           /\ erase_kv(tab, b, s)[x][y] = IF x = b /\ y = s THEN None ELSE tab[x][y]
  BY DEF set_kv, erase_kv, TabType

LEMMA HasKeyCell ==
  ASSUME NEW hp, NEW tab \in TabType(hp), NEW k
  PROVE  HasKey(tab, k) <=>
           \E b \in Index(hp), s \in Slot : tab[b][s] # None /\ tab[b][s].key = k
  BY DEF HasKey, KeySlots, occupied, TabType

LEMMA LegalCells ==
  ASSUME NEW hp, NEW tab \in TabType(hp)
  PROVE  Legal(hp, tab) <=>
           /\ \A b \in Index(hp), s \in Slot :
                tab[b][s] # None => b \in HomesOf(hp, tab[b][s].key)
           /\ \A b, c \in Index(hp), r, s \in Slot :
                tab[b][r] # None /\ tab[c][s] # None /\ tab[b][r].key = tab[c][s].key
                  => b = c /\ r = s
  BY DEF Legal, AllHome, KeysUnique, occupied, TabType

LEMMA ItemsOfCells ==
  ASSUME NEW hp, NEW tab \in TabType(hp), NEW i
  PROVE  i \in ItemsOf(tab) <=> i # None /\ \E b \in Index(hp), s \in Slot : i = tab[b][s]
  BY DEF ItemsOf, TabType

\* A new key may be set in any slot of its buckets.
LEMMA SetLegal ==
  ASSUME NEW hp, NEW tab \in TabType(hp), Legal(hp, tab), NEW item \in Item,
         NEW b \in Index(hp), b \in HomesOf(hp, item.key), NEW s \in Slot, ~HasKey(tab, item.key)
  PROVE  /\ Legal(hp, set_kv(tab, b, s, item))
         /\ \A k : HasKey(set_kv(tab, b, s, item), k) => HasKey(tab, k) \/ k = item.key
         /\ tab[b][s] = None => ItemsOf(set_kv(tab, b, s, item)) = ItemsOf(tab) \cup {item}
  <1>. DEFINE new == set_kv(tab, b, s, item)
  <1>1. new \in TabType(hp) /\ item # None
    BY WriteType, TableAssumption DEF Cell, Item
  <1>2. \A x \in Index(hp), y \in Slot : new[x][y] = IF x = b /\ y = s THEN item ELSE tab[x][y]
    BY AfterWrite
  <1>3. \A x \in Index(hp), y \in Slot : tab[x][y] # None => tab[x][y].key # item.key
    BY HasKeyCell
  <1>. HIDE DEF new
  <1>4. Legal(hp, new)
    BY <1>1, <1>2, <1>3, LegalCells
  <1>5. \A k : HasKey(new, k) => HasKey(tab, k) \/ k = item.key
    BY <1>1, <1>2, HasKeyCell
  <1>6. ASSUME tab[b][s] = None PROVE \A i : i \in ItemsOf(new) <=> i \in ItemsOf(tab) \/ i = item
    BY <1>1, <1>2, <1>6, ItemsOfCells
  <1>. QED BY <1>4, <1>5, <1>6 DEF new

\* Emptying a slot takes its key out of the table.
LEMMA EraseLegal ==
  ASSUME NEW hp, NEW tab \in TabType(hp), Legal(hp, tab),
         NEW b \in Index(hp), NEW s \in Slot
  PROVE  /\ Legal(hp, erase_kv(tab, b, s))
         /\ \A k : HasKey(erase_kv(tab, b, s), k) => HasKey(tab, k)
         /\ tab[b][s] # None => /\ ~HasKey(erase_kv(tab, b, s), tab[b][s].key)
                                /\ ItemsOf(erase_kv(tab, b, s)) = ItemsOf(tab) \ {tab[b][s]}
  <1>. DEFINE new == erase_kv(tab, b, s)
  <1>1. new \in TabType(hp)
    BY WriteType
  <1>2. \A x \in Index(hp), y \in Slot : new[x][y] = IF x = b /\ y = s THEN None ELSE tab[x][y]
    BY AfterWrite
  <1>3. \A x, c \in Index(hp), y, r \in Slot :
          tab[x][y] # None /\ tab[c][r] # None /\ tab[x][y].key = tab[c][r].key => x = c /\ y = r
    BY LegalCells
  <1>. HIDE DEF new
  <1>4. Legal(hp, new)
    BY <1>1, <1>2, LegalCells
  <1>5. \A k : HasKey(new, k) => HasKey(tab, k)
    BY <1>1, <1>2, HasKeyCell
  <1>6. ASSUME tab[b][s] # None
        PROVE  /\ ~HasKey(new, tab[b][s].key)
               /\ \A i : i \in ItemsOf(new) <=> i \in ItemsOf(tab) /\ i # tab[b][s]
    <2>1. ~HasKey(new, tab[b][s].key)
      BY <1>1, <1>2, <1>3, <1>6, HasKeyCell
    <2>2. \A i : i \in ItemsOf(new) <=> i \in ItemsOf(tab) /\ i # tab[b][s]
      BY <1>1, <1>2, <1>3, <1>6, ItemsOfCells
    <2>. QED BY <2>1, <2>2
  <1>. QED BY <1>4, <1>5, <1>6 DEF new

\* So does overwriting an item by one of its key.
LEMMA OverwriteLegal ==
  ASSUME NEW hp, NEW tab \in TabType(hp), Legal(hp, tab), NEW item \in Item,
         NEW b \in Index(hp), NEW s \in Slot, tab[b][s] # None, tab[b][s].key = item.key
  PROVE  /\ Legal(hp, set_kv(tab, b, s, item))
         /\ \A k : HasKey(set_kv(tab, b, s, item), k) => HasKey(tab, k)
  <1>. DEFINE new == set_kv(tab, b, s, item)
  <1>1. new \in TabType(hp) /\ item # None
    BY WriteType, TableAssumption DEF Cell, Item
  <1>2. \A x \in Index(hp), y \in Slot : new[x][y] = IF x = b /\ y = s THEN item ELSE tab[x][y]
    BY AfterWrite
  <1>. HIDE DEF new
  <1>4. Legal(hp, new)
    BY <1>1, <1>2, LegalCells
  <1>5. \A k : HasKey(new, k) => HasKey(tab, k)
    BY <1>1, <1>2, HasKeyCell
  <1>. QED BY <1>4, <1>5 DEF new

-----------------------------------------------------------------------------
(***************************************************************************)
(* rehash_place_item keeps the container's size: what its search queues    *)
(* and finds are buckets and cells of the container.                       *)
(***************************************************************************)
CellOf(hp) == Index(hp) \X Slot
Node(hp) == [bucket : Index(hp), depth : Nat, path : Seq(CellOf(hp))]
FoundType(hp) == [path : Seq(CellOf(hp)), cell : CellOf(hp)]
SearchType(hp) ==
  [queue : Seq(Node(hp)), visited : SUBSET Index(hp), found : FoundType(hp) \cup {None}]

LEMMA CellType ==
  ASSUME NEW hp, NEW tab \in TabType(hp), NEW b \in Index(hp), NEW s \in Slot
  PROVE  tab[b][s] \in Cell /\ (occupied(tab, b, s) => tab[b][s] \in Item)
  BY DEF TabType, Cell, occupied

LEMMA OtherBucketType ==
  ASSUME NEW hp \in Nat, NEW item \in Item, NEW b
  PROVE  OtherBucket(hp, item, b) \in Index(hp)
  BY BucketType DEF OtherBucket, Item

LEMMA EnqueueType ==
  ASSUME NEW hp \in Nat, NEW tab \in TabType(hp), NEW x \in Node(hp),
         NEW q \in SearchType(hp), NEW s \in Slot, occupied(tab, x.bucket, s)
  PROVE  Enqueue(hp, tab, x, q, s) \in SearchType(hp)
  <1>. DEFINE alt == OtherBucket(hp, tab[x.bucket][s], x.bucket)
              path == Append(x.path, <<x.bucket, s>>)
              node == [bucket |-> alt, depth |-> x.depth + 1, path |-> path]
  <1>1. x.bucket \in Index(hp) /\ x.depth \in Nat /\ x.path \in Seq(CellOf(hp))
    BY DEF Node
  <1>2. alt \in Index(hp)
    BY <1>1, CellType, OtherBucketType
  <1>3. path \in Seq(CellOf(hp))
    BY <1>1 DEF CellOf
  <1>. HIDE DEF alt, path
  <1>4. node \in Node(hp)
    BY <1>1, <1>2, <1>3 DEF Node
  <1>. HIDE DEF node
  <1>5. Append(q.queue, node) \in Seq(Node(hp))
    BY <1>4 DEF SearchType
  <1>6. Enqueue(hp, tab, x, q, s) =
          IF alt \in q.visited THEN q
          ELSE [q EXCEPT !.visited = q.visited \cup {alt}, !.queue = Append(q.queue, node)]
    BY DEF Enqueue, alt, path, node
  <1>. QED BY <1>2, <1>5, <1>6 DEF SearchType

(***************************************************************************)
(* The search knows the way: each path it queues goes through occupied     *)
(* slots whose items have the next bucket as their other one, and through  *)
(* no bucket twice.                                                        *)
(***************************************************************************)
\* The jth bucket of a path that ends before bucket b.
Along(path, b, j) == IF j <= Len(path) THEN path[j][1] ELSE b

Leads(hp, tab, start, path, b) ==
  /\ Along(path, b, 1) \in start
  /\ \A j \in 1 .. Len(path) :
       /\ occupied(tab, path[j][1], path[j][2])
       /\ OtherBucket(hp, tab[path[j][1]][path[j][2]], path[j][1]) = Along(path, b, j + 1)
  /\ \A i, j \in 1 .. Len(path) + 1 : Along(path, b, i) = Along(path, b, j) => i = j

Known(hp, tab, start, x, visited) ==
  /\ Leads(hp, tab, start, x.path, x.bucket)
  /\ \A j \in 1 .. Len(x.path) + 1 : Along(x.path, x.bucket, j) \in visited

Searches(hp, tab, start) ==
  {q \in SearchType(hp) :
     /\ \A n \in 1 .. Len(q.queue) : Known(hp, tab, start, q.queue[n], q.visited)
     /\ q.found # None => /\ Leads(hp, tab, start, q.found.path, q.found.cell[1])
                          /\ ~occupied(tab, q.found.cell[1], q.found.cell[2])}

LEMMA KnownLonger ==
  ASSUME NEW hp, NEW tab, NEW start, NEW x, NEW V, NEW W, Known(hp, tab, start, x, V), V \subseteq W
  PROVE  Known(hp, tab, start, x, W)
  BY DEF Known

\* A path grows by a bucket that it has not been through.
LEMMA LeadsOn ==
  ASSUME NEW hp \in Nat, NEW tab, NEW start, NEW path \in Seq(CellOf(hp)), NEW b, NEW s,
         Leads(hp, tab, start, path, b), occupied(tab, b, s), NEW V,
         \A j \in 1 .. Len(path) + 1 : Along(path, b, j) \in V,
         NEW alt, alt = OtherBucket(hp, tab[b][s], b), alt \notin V
  PROVE  /\ Leads(hp, tab, start, Append(path, <<b, s>>), alt)
         /\ \A j \in 1 .. Len(Append(path, <<b, s>>)) + 1 :
              Along(Append(path, <<b, s>>), alt, j) \in V \cup {alt}
  <1>. DEFINE p == Append(path, <<b, s>>)  n == Len(path)
  <1>1. n \in Nat /\ Len(p) = n + 1
    OBVIOUS
  <1>2. /\ \A j \in 1 .. n : p[j] = path[j]
        /\ p[n + 1] = <<b, s>>
    OBVIOUS
  <1>3. /\ \A j \in 1 .. n + 1 : Along(p, alt, j) = Along(path, b, j)
        /\ Along(p, alt, n + 2) = alt
    BY <1>1, <1>2 DEF Along
  <1>4. Along(path, b, 1) \in start
    BY DEF Leads
  <1>5. /\ \A j \in 1 .. n : /\ occupied(tab, path[j][1], path[j][2])
                             /\ OtherBucket(hp, tab[path[j][1]][path[j][2]], path[j][1])
                                  = Along(path, b, j + 1)
        /\ \A i, j \in 1 .. n + 1 : Along(path, b, i) = Along(path, b, j) => i = j
        /\ \A j \in 1 .. n + 1 : Along(path, b, j) \in V
    BY DEF Leads
  <1>. HIDE DEF p, n
  <1>6. \A j \in 1 .. n + 1 : /\ occupied(tab, p[j][1], p[j][2])
                              /\ OtherBucket(hp, tab[p[j][1]][p[j][2]], p[j][1])
                                   = Along(p, alt, j + 1)
    <2> TAKE j \in 1 .. n + 1
    <2>1. CASE j \in 1 .. n
      <3>1. j + 1 \in 1 .. n + 1 /\ p[j] = path[j]
        BY <1>1, <1>2, <2>1
      <3>. QED BY <1>3, <1>5, <2>1, <3>1
    <2>2. CASE j = n + 1
      BY <1>1, <1>2, <1>3, <2>2
    <2>. QED BY <1>1, <2>1, <2>2
  <1>7. \A j \in 1 .. n + 2 : Along(p, alt, j) \in V \cup {alt}
    <2> TAKE j \in 1 .. n + 2
    <2>1. CASE j \in 1 .. n + 1
      BY <1>3, <1>5, <2>1
    <2>2. CASE j = n + 2
      BY <1>3, <2>2
    <2>. QED BY <1>1, <2>1, <2>2
  <1>8. \A i, j \in 1 .. n + 2 : Along(p, alt, i) = Along(p, alt, j) => i = j
    <2> TAKE i, j \in 1 .. n + 2
    <2>1. \A m \in 1 .. n + 1 : Along(p, alt, m) \in V
      BY <1>3, <1>5
    <2>2. CASE i \in 1 .. n + 1 /\ j \in 1 .. n + 1
      BY <1>3, <1>5, <2>2
    <2>3. CASE i = n + 2 \/ j = n + 2
      BY <1>1, <1>3, <2>1, <2>3
    <2>. QED BY <1>1, <2>2, <2>3
  <1>9. n + 1 + 1 = n + 2 /\ 1 \in 1 .. n + 1
    BY <1>1
  <1>. QED BY <1>1, <1>3, <1>4, <1>6, <1>7, <1>8, <1>9 DEF Leads, p, n

LEMMA EnqueueSearches ==
  ASSUME NEW hp \in Nat, NEW tab \in TabType(hp), NEW start, NEW x \in Node(hp),
         NEW q \in Searches(hp, tab, start), Known(hp, tab, start, x, q.visited),
         NEW s \in Slot, occupied(tab, x.bucket, s)
  PROVE  /\ Enqueue(hp, tab, x, q, s) \in Searches(hp, tab, start)
         /\ Known(hp, tab, start, x, Enqueue(hp, tab, x, q, s).visited)
  <1>. DEFINE alt == OtherBucket(hp, tab[x.bucket][s], x.bucket)
              path == Append(x.path, <<x.bucket, s>>)
              node == [bucket |-> alt, depth |-> x.depth + 1, path |-> path]
              new == Enqueue(hp, tab, x, q, s)
              V == q.visited
  <1>1. q \in SearchType(hp) /\ new \in SearchType(hp)
    BY EnqueueType DEF Searches
  <1>2. CASE alt \in V
    BY <1>2 DEF Enqueue
  <1>3. CASE alt \notin V
    <2>1. new = [q EXCEPT !.visited = V \cup {alt}, !.queue = Append(q.queue, node)]
      BY <1>3 DEF Enqueue
    <2>2. /\ new.visited = V \cup {alt} /\ new.found = q.found
          /\ new.queue = Append(q.queue, node)
      BY <1>1, <2>1 DEF SearchType
    <2>3. x.path \in Seq(CellOf(hp))
      BY DEF Node
    <2>4. Leads(hp, tab, start, x.path, x.bucket)
          /\ \A j \in 1 .. Len(x.path) + 1 : Along(x.path, x.bucket, j) \in V
      BY DEF Known
    <2>5. /\ Leads(hp, tab, start, path, alt)
          /\ \A j \in 1 .. Len(path) + 1 : Along(path, alt, j) \in V \cup {alt}
      <3>. DEFINE a == alt  W == V
      <3>1. a = OtherBucket(hp, tab[x.bucket][s], x.bucket) /\ a \notin W
        BY <1>3
      <3>. HIDE DEF a, W
      <3>2. \A j \in 1 .. Len(x.path) + 1 : Along(x.path, x.bucket, j) \in W
        BY <2>4 DEF W
      <3>3. /\ Leads(hp, tab, start, path, a)
            /\ \A j \in 1 .. Len(path) + 1 : Along(path, a, j) \in W \cup {a}
        BY <2>3, <2>4, <3>1, <3>2, LeadsOn
      <3>. QED BY <3>3 DEF a, W
    <2>. HIDE DEF path, alt
    <2>6. Known(hp, tab, start, node, new.visited)
      BY <2>2, <2>5 DEF Known
    <2>. HIDE DEF node, new
    <2>7. \A n \in 1 .. Len(q.queue) : Known(hp, tab, start, q.queue[n], new.visited)
      BY <2>2, KnownLonger DEF Searches
    <2>8. \A n \in 1 .. Len(new.queue) : (n \in 1 .. Len(q.queue) /\ new.queue[n] = q.queue[n])
                                         \/ new.queue[n] = node
      BY <1>1, <2>2 DEF SearchType
    <2>9. \A n \in 1 .. Len(new.queue) : Known(hp, tab, start, new.queue[n], new.visited)
      BY <2>6, <2>7, <2>8
    <2>10. Known(hp, tab, start, x, new.visited)
      BY <2>2, KnownLonger
    <2>. QED BY <1>1, <2>2, <2>9, <2>10 DEF Searches, new
  <1>. QED BY <1>2, <1>3

Rest(q) == [q EXCEPT !.queue = Tail(q.queue)]

\* What is left to search when the first bucket is taken off the queue.
RestIs(hp, tab, start, q, x) ==
  /\ x \in Node(hp) /\ x = q.queue[1] /\ Tail(q.queue) \in Seq(Node(hp))
  /\ Len(Tail(q.queue)) = Len(q.queue) - 1 /\ Len(q.queue) \in Nat \ {0}
  /\ \A n \in 1 .. Len(q.queue) - 1 : Tail(q.queue)[n] = q.queue[n + 1]
  /\ Rest(q).queue = Tail(q.queue) /\ Rest(q).visited = q.visited
  /\ Rest(q).found = q.found /\ Rest(q) \in Searches(hp, tab, start)
  /\ Known(hp, tab, start, x, Rest(q).visited)

LEMMA RestSearches ==
  ASSUME NEW hp \in Nat, NEW tab, NEW start, NEW q \in Searches(hp, tab, start),
         q.queue # <<>>, NEW x, x = Head(q.queue)
  PROVE  RestIs(hp, tab, start, q, x)
  <1>. DEFINE rest == Rest(q)
  <1>0. q \in SearchType(hp)
    BY DEF Searches
  <1>1. x \in Node(hp) /\ Tail(q.queue) \in Seq(Node(hp)) /\ x = q.queue[1]
        /\ Len(Tail(q.queue)) = Len(q.queue) - 1 /\ Len(q.queue) \in Nat \ {0}
        /\ \A n \in 1 .. Len(q.queue) - 1 : Tail(q.queue)[n] = q.queue[n + 1]
    BY <1>0 DEF SearchType
  <1>2. /\ rest.queue = Tail(q.queue) /\ rest.visited = q.visited /\ rest.found = q.found
        /\ rest \in SearchType(hp)
    BY <1>0, <1>1 DEF SearchType, Rest
  <1>3. \A n \in 1 .. Len(q.queue) : Known(hp, tab, start, q.queue[n], q.visited)
    BY DEF Searches
  <1>. HIDE DEF rest
  <1>4. \A n \in 1 .. Len(rest.queue) : Known(hp, tab, start, rest.queue[n], rest.visited)
    BY <1>1, <1>2, <1>3
  <1>5. Known(hp, tab, start, x, rest.visited)
    BY <1>1, <1>2, <1>3
  <1>6. rest \in Searches(hp, tab, start)
    BY <1>2, <1>4 DEF Searches
  <1>. QED BY <1>1, <1>2, <1>5, <1>6 DEF rest, RestIs

\* The scan of a bucket, slot by slot.
ScanSteps(hp, tab, start, x, rest, f) ==
  /\ f \in [0 .. SLOT_PER_BUCKET -> Searches(hp, tab, start)]
  /\ f[0] = rest
  /\ \A n \in 1 .. SLOT_PER_BUCKET : f[n] = Enqueue(hp, tab, x, f[n - 1], n - 1)

LEMMA DequeueScans ==
  ASSUME NEW hp \in Nat, NEW tab \in TabType(hp), NEW start, NEW q \in Searches(hp, tab, start),
         q.queue # <<>>, NEW x, x = Head(q.queue), ~(x.depth >= MAX_BFS_PATH_LEN),
         FreeSlots(tab, x.bucket) = {}
  PROVE  \E f : /\ ScanSteps(hp, tab, start, x, Rest(q), f)
                /\ Dequeue(hp, tab, q) = f[SLOT_PER_BUCKET]
  <1>. DEFINE rest == Rest(q)
              N == SLOT_PER_BUCKET
              S == {z \in Searches(hp, tab, start) : Known(hp, tab, start, x, z.visited)}
              g == [n \in 1 .. N |-> [z \in S |-> Enqueue(hp, tab, x, z, n - 1)]]
              scan[n \in 0 .. N] ==
                IF n = 0 THEN rest ELSE Enqueue(hp, tab, x, scan[n - 1], n - 1)
  <1>1. x \in Node(hp) /\ rest \in S
    <2>1. RestIs(hp, tab, start, q, x)
      BY RestSearches, Zenon
    <2>. QED BY <2>1 DEF RestIs
  <1>2. N \in Nat
    BY TableAssumption
  <1>3. Dequeue(hp, tab, q) = scan[N]
    BY DEF Dequeue, Rest
  <1>4. ASSUME NEW n \in 1 .. N, NEW z \in S PROVE Enqueue(hp, tab, x, z, n - 1) \in S
    <2>1. n - 1 \in Slot
      BY <1>2 DEF Slot
    <2>2. occupied(tab, x.bucket, n - 1)
      BY <2>1 DEF FreeSlots
    <2>. QED BY <1>1, <2>1, <2>2, EnqueueSearches
  <1>5. S \subseteq Searches(hp, tab, start)
    OBVIOUS
  <1>. HIDE DEF S, rest, N
  <1>6. g \in [1 .. N -> [S -> S]]
    BY <1>4
  <1>7. \A n \in 1 .. N, z \in S : g[n][z] = Enqueue(hp, tab, x, z, n - 1)
    OBVIOUS
  <1>. HIDE DEF g
  <1>8. PICK f : Recurs(f, S, N, rest, g)
    BY <1>1, <1>2, <1>6, BoundedRecursion, Zenon
  <1>9. f = [n \in 0 .. N |-> IF n = 0 THEN rest ELSE Enqueue(hp, tab, x, f[n - 1], n - 1)]
    <2>1. f \in [0 .. N -> S]
      BY <1>8 DEF Recurs
    <2>2. f = [n \in 0 .. N |-> IF n = 0 THEN rest ELSE g[n][f[n - 1]]]
      BY <1>8 DEF Recurs
    <2>3. \A n \in 0 .. N : n # 0 => g[n][f[n - 1]] = Enqueue(hp, tab, x, f[n - 1], n - 1)
      BY <1>2, <1>7, <2>1
    <2>. QED BY <2>2, <2>3
  <1>10. scan = [n \in 0 .. N |-> IF n = 0 THEN rest
                                  ELSE Enqueue(hp, tab, x, scan[n - 1], n - 1)]
    BY <1>9, Zenon
  <1>. HIDE DEF scan
  <1>11. \A n \in 0 .. N : scan[n] = IF n = 0 THEN rest
                                     ELSE Enqueue(hp, tab, x, scan[n - 1], n - 1)
    BY <1>10, Zenon
  <1>12. \A n \in 0 .. N : scan[n] \in S
    <2>. DEFINE T == {n \in Nat : n <= N => scan[n] \in S}
    <2>1. 0 \in T
      BY <1>1, <1>2, <1>11
    <2>2. ASSUME NEW n \in Nat, n \in T PROVE n + 1 \in T
      <3> SUFFICES ASSUME n + 1 <= N PROVE scan[n + 1] \in S
        OBVIOUS
      <3>1. PICK m \in 1 .. N : m = n + 1
        BY <1>2
      <3>2. m \in 0 .. N /\ m # 0 /\ m - 1 = n
        BY <1>2, <3>1
      <3>3. scan[m] = Enqueue(hp, tab, x, scan[m - 1], m - 1)
        BY <1>11, <3>2, Zenon
      <3>4. scan[m - 1] \in S
        BY <1>2, <2>2, <3>1, <3>2
      <3>. QED BY <1>4, <3>1, <3>3, <3>4
    <2>. HIDE DEF T
    <2>3. \A n \in Nat : n \in T
      BY <2>1, <2>2, SetInduction
    <2>. QED BY <1>2, <2>3 DEF T
  <1>13. scan \in [0 .. N -> Searches(hp, tab, start)]
    BY <1>5, <1>10, <1>12
  <1>14. scan[0] = rest /\ \A n \in 1 .. N : scan[n] = Enqueue(hp, tab, x, scan[n - 1], n - 1)
    BY <1>2, <1>11
  <1>15. ScanSteps(hp, tab, start, x, rest, scan)
    BY <1>13, <1>14 DEF ScanSteps, N
  <1>16. PICK h : h = scan
    OBVIOUS
  <1>17. ScanSteps(hp, tab, start, x, rest, h) /\ Dequeue(hp, tab, q) = h[SLOT_PER_BUCKET]
    BY <1>3, <1>15, <1>16 DEF N
  <1>. QED BY <1>17 DEF rest

LEMMA DequeueSearches ==
  ASSUME NEW hp \in Nat, NEW tab \in TabType(hp), NEW start, NEW q \in Searches(hp, tab, start),
         q.queue # <<>>
  PROVE  Dequeue(hp, tab, q) \in Searches(hp, tab, start)
  <1>. DEFINE x == Head(q.queue)
              rest == Rest(q)
              full == FreeSlots(tab, x.bucket) = {}
  <1>1. /\ x \in Node(hp) /\ rest \in Searches(hp, tab, start)
        /\ Known(hp, tab, start, x, rest.visited)
    <2>1. RestIs(hp, tab, start, q, x)
      BY RestSearches, Zenon
    <2>. QED BY <2>1 DEF RestIs
  <1>3. x.bucket \in Index(hp) /\ x.path \in Seq(CellOf(hp))
    BY <1>1 DEF Node
  <1>2. CASE x.depth >= MAX_BFS_PATH_LEN
    BY <1>1, <1>2 DEF Dequeue, Rest
  <1>5. CASE ~(x.depth >= MAX_BFS_PATH_LEN) /\ full
    <2>1. PICK f : ScanSteps(hp, tab, start, x, rest, f) /\ Dequeue(hp, tab, q) = f[SLOT_PER_BUCKET]
      BY <1>5, DequeueScans
    <2>2. SLOT_PER_BUCKET \in 0 .. SLOT_PER_BUCKET
      BY TableAssumption
    <2>. QED BY <2>1, <2>2 DEF ScanSteps
  <1>7. CASE ~(x.depth >= MAX_BFS_PATH_LEN) /\ ~full
    <2>0. Dequeue(hp, tab, q) = [rest EXCEPT !.found = [path |-> x.path,
                  cell |-> <<x.bucket, find_empty_slot(tab, x.bucket)>>]]
      BY <1>7 DEF Dequeue, Rest
    <2>1. /\ find_empty_slot(tab, x.bucket) \in Slot
          /\ ~occupied(tab, x.bucket, find_empty_slot(tab, x.bucket))
      BY <1>7, FreeSlotsType DEF FreeSlots
    <2>. DEFINE found == [path |-> x.path, cell |-> <<x.bucket, find_empty_slot(tab, x.bucket)>>]
    <2>2. found \in FoundType(hp)
      BY <1>3, <2>1 DEF FoundType, CellOf
    <2>3. /\ found.path = x.path /\ found.cell[1] = x.bucket
          /\ ~occupied(tab, found.cell[1], found.cell[2])
      BY <2>1
    <2>. HIDE DEF found
    <2>4. Leads(hp, tab, start, found.path, found.cell[1])
      BY <1>1, <2>3 DEF Known
    <2>5. [rest EXCEPT !.found = found] \in Searches(hp, tab, start)
      <3>1. rest \in SearchType(hp)
            /\ \A n \in 1 .. Len(rest.queue) : Known(hp, tab, start, rest.queue[n], rest.visited)
        BY <1>1 DEF Searches
      <3>. DEFINE r == [rest EXCEPT !.found = found]
      <3>2. /\ r \in SearchType(hp) /\ r.found = found
            /\ r.queue = rest.queue /\ r.visited = rest.visited
        BY <2>2, <3>1 DEF SearchType
      <3>. HIDE DEF r
      <3>3. r \in Searches(hp, tab, start)
        BY <2>3, <2>4, <3>1, <3>2 DEF Searches
      <3>. QED BY <3>3 DEF r
    <2>. QED BY <2>0, <2>5 DEF found
  <1>. QED BY <1>2, <1>5, <1>7

\* The whole search.
SearchStart(i1, i2) ==
  [queue   |-> <<[bucket |-> i1, depth |-> 0, path |-> <<>>],
                 [bucket |-> i2, depth |-> 0, path |-> <<>>]>>,
   visited |-> {i1, i2}, found |-> None]

SearchNext(hp, tab, q) ==
  IF q.found # None \/ q.queue = <<>> THEN q ELSE Dequeue(hp, tab, q)

SearchSteps(hp, tab, i1, i2, f) ==
  /\ f \in [0 .. hashsize(hp) + 1 -> Searches(hp, tab, {i1, i2})]
  /\ f[0] = SearchStart(i1, i2)
  /\ \A n \in 1 .. hashsize(hp) + 1 : f[n] = SearchNext(hp, tab, f[n - 1])

LEMMA PathToRoomSteps ==
  ASSUME NEW hp \in Nat, NEW tab \in TabType(hp), NEW i1 \in Index(hp), NEW i2 \in Index(hp)
  PROVE  \E f : /\ SearchSteps(hp, tab, i1, i2, f)
                /\ PathToRoom(hp, tab, i1, i2) = f[hashsize(hp) + 1].found
  <1>. DEFINE S == Searches(hp, tab, {i1, i2})
              N == hashsize(hp) + 1
              start == [queue   |-> <<[bucket |-> i1, depth |-> 0, path |-> <<>>],
                                      [bucket |-> i2, depth |-> 0, path |-> <<>>]>>,
                        visited |-> {i1, i2}, found |-> None]
              Next(q) == IF q.found # None \/ q.queue = <<>> THEN q ELSE Dequeue(hp, tab, q)
              g == [n \in 1 .. N |-> [z \in S |-> Next(z)]]
              after[n \in 0 .. N] == IF n = 0 THEN start ELSE Next(after[n - 1])
  <1>1. N \in Nat
    BY Hashsize
  <1>2. start \in S
    <2>1. \A i \in {i1, i2} : [bucket |-> i, depth |-> 0, path |-> <<>>] \in Node(hp)
      BY DEF Node
    <2>2. start \in SearchType(hp)
      BY <2>1 DEF SearchType
    <2>. DEFINE root(i) == [bucket |-> i, depth |-> 0, path |-> <<>>]
    <2>3. ASSUME NEW i \in {i1, i2} PROVE Known(hp, tab, {i1, i2}, root(i), {i1, i2})
      <3>1. /\ root(i).bucket = i /\ root(i).path = <<>> /\ Len(<<>>) = 0
            /\ \A j \in 1 .. 0 + 1 : j = 1 /\ Along(<<>>, i, j) = i
        BY DEF Along
      <3>. HIDE DEF root
      <3>. QED BY <3>1 DEF Known, Leads
    <2>4. /\ Len(start.queue) = 2 /\ start.queue[1] = root(i1) /\ start.queue[2] = root(i2)
          /\ start.visited = {i1, i2} /\ start.found = None
      OBVIOUS
    <2>. HIDE DEF start, root
    <2>5. \A n \in 1 .. Len(start.queue) : n = 1 \/ n = 2
      BY <2>4
    <2>6. \A n \in 1 .. Len(start.queue) :
            Known(hp, tab, {i1, i2}, start.queue[n], start.visited)
      BY <2>3, <2>4, <2>5
    <2>. QED BY <2>2, <2>4, <2>6 DEF Searches
  <1>3. \A z \in S : Next(z) \in S
    BY DequeueSearches
  <1>4. PathToRoom(hp, tab, i1, i2) = after[N].found
    BY DEF PathToRoom
  <1>4a. start = SearchStart(i1, i2) /\ \A z : Next(z) = SearchNext(hp, tab, z)
    BY DEF SearchStart, SearchNext
  <1>. HIDE DEF S, N, start, Next
  <1>5. g \in [1 .. N -> [S -> S]] /\ \A n \in 1 .. N, z \in S : g[n][z] = Next(z)
    BY <1>3
  <1>. HIDE DEF g
  <1>6. PICK f : Recurs(f, S, N, start, g)
    BY <1>1, <1>2, <1>5, BoundedRecursion, Zenon
  <1>7. f = [n \in 0 .. N |-> IF n = 0 THEN start ELSE Next(f[n - 1])]
    <2>1. f \in [0 .. N -> S]
      BY <1>6 DEF Recurs
    <2>2. f = [n \in 0 .. N |-> IF n = 0 THEN start ELSE g[n][f[n - 1]]]
      BY <1>6 DEF Recurs
    <2>3. \A n \in 0 .. N : n # 0 => g[n][f[n - 1]] = Next(f[n - 1])
      BY <1>1, <1>5, <2>1
    <2>. QED BY <2>2, <2>3
  <1>8. after = [n \in 0 .. N |-> IF n = 0 THEN start ELSE Next(after[n - 1])]
    BY <1>7, Zenon
  <1>. HIDE DEF after
  <1>9. \A n \in 0 .. N : after[n] = IF n = 0 THEN start ELSE Next(after[n - 1])
    BY <1>8, Zenon
  <1>10. \A n \in Nat : n <= N => after[n] \in S
    <2>. DEFINE T == {n \in Nat : n <= N => after[n] \in S}
    <2>1. 0 \in T
      BY <1>1, <1>2, <1>9
    <2>2. ASSUME NEW n \in Nat, n \in T PROVE n + 1 \in T
      <3> SUFFICES ASSUME n + 1 <= N PROVE after[n + 1] \in S
        OBVIOUS
      <3>1. PICK m \in 1 .. N : m = n + 1
        BY <1>1
      <3>2. m \in 0 .. N /\ m # 0 /\ m - 1 = n
        BY <1>1, <3>1
      <3>3. after[m] = Next(after[m - 1])
        BY <1>9, <3>2, Zenon
      <3>4. after[m - 1] \in S
        BY <1>1, <2>2, <3>1, <3>2
      <3>. QED BY <1>3, <3>1, <3>3, <3>4
    <2>. HIDE DEF T
    <2>3. \A n \in Nat : n \in T
      BY <2>1, <2>2, SetInduction
    <2>. QED BY <2>3 DEF T
  <1>11. after \in [0 .. N -> S]
    BY <1>1, <1>8, <1>10
  <1>12. after[0] = start /\ \A n \in 1 .. N : after[n] = Next(after[n - 1])
    BY <1>1, <1>9
  <1>13. SearchSteps(hp, tab, i1, i2, after)
    BY <1>4a, <1>11, <1>12 DEF SearchSteps, S, N
  <1>14. PICK h : h = after
    OBVIOUS
  <1>15. /\ SearchSteps(hp, tab, i1, i2, h)
         /\ PathToRoom(hp, tab, i1, i2) = h[hashsize(hp) + 1].found
    BY <1>4, <1>13, <1>14 DEF N
  <1>. QED BY <1>15

LEMMA PathToRoomLeads ==
  ASSUME NEW hp \in Nat, NEW tab \in TabType(hp), NEW i1 \in Index(hp), NEW i2 \in Index(hp),
         NEW found, found = PathToRoom(hp, tab, i1, i2), found # None
  PROVE  /\ found \in FoundType(hp)
         /\ Leads(hp, tab, {i1, i2}, found.path, found.cell[1])
         /\ ~occupied(tab, found.cell[1], found.cell[2])
  <1>1. PICK f : SearchSteps(hp, tab, i1, i2, f) /\ found = f[hashsize(hp) + 1].found
    BY PathToRoomSteps
  <1>2. hashsize(hp) + 1 \in 0 .. hashsize(hp) + 1
    BY Hashsize
  <1>3. f[hashsize(hp) + 1] \in Searches(hp, tab, {i1, i2})
    BY <1>1, <1>2 DEF SearchSteps
  <1>. QED BY <1>1, <1>3 DEF Searches, SearchType

-----------------------------------------------------------------------------
(***************************************************************************)
(* Shifting a path.                                                        *)
(***************************************************************************)
ShiftHop(st, from) ==
  [tab  |-> erase_kv(set_kv(st.tab, st.cell[1], st.cell[2], st.tab[from[1]][from[2]]),
                     from[1], from[2]),
   cell |-> from]

ShiftSteps(hp, tab, found, f) ==
  /\ f \in [0 .. Len(found.path) -> [tab : TabType(hp), cell : CellOf(hp)]]
  /\ f[0] = [tab |-> tab, cell |-> found.cell]
  /\ \A n \in 1 .. Len(found.path) :
       f[n] = ShiftHop(f[n - 1], found.path[Len(found.path) + 1 - n])


\* An item that goes to its other bucket, into a free slot, stays at home.
LEMMA ShiftHopLegal ==
  ASSUME NEW hp \in Nat, NEW tab \in TabType(hp), Legal(hp, tab),
         NEW cell \in CellOf(hp), tab[cell[1]][cell[2]] = None,
         NEW from \in CellOf(hp), occupied(tab, from[1], from[2]), cell[1] # from[1],
         cell[1] = OtherBucket(hp, tab[from[1]][from[2]], from[1]),
         NEW st, st = ShiftHop([tab |-> tab, cell |-> cell], from)
  PROVE  /\ st.cell = from /\ st.tab \in TabType(hp) /\ Legal(hp, st.tab)
         /\ ItemsOf(st.tab) = ItemsOf(tab)
         /\ st.tab[from[1]][from[2]] = None
         /\ \A b \in Index(hp) : b # cell[1] /\ b # from[1] => st.tab[b] = tab[b]
  <1>. DEFINE x == tab[from[1]][from[2]]
              set == set_kv(tab, cell[1], cell[2], x)
              end == erase_kv(set, from[1], from[2])
              gone == erase_kv(tab, from[1], from[2])
              back == set_kv(gone, cell[1], cell[2], x)
  <1>1. /\ cell[1] \in Index(hp) /\ cell[2] \in Slot /\ from[1] \in Index(hp) /\ from[2] \in Slot
    BY DEF CellOf
  <1>2. x \in Item /\ x # None /\ x \in Cell
    BY <1>1, CellType DEF occupied, Cell
  <1>3. st.tab = end /\ st.cell = from
    BY DEF ShiftHop
  <1>4. from[1] \in HomesOf(hp, x.key)
    BY <1>1, <1>2, LegalCells
  <1>5. cell[1] \in HomesOf(hp, x.key)
    BY DEF OtherBucket, HomesOf
  <1>. HIDE DEF x
  <1>6. set \in TabType(hp) /\ gone \in TabType(hp)
    BY <1>2, WriteType
  <1>7. /\ Legal(hp, gone) /\ ~HasKey(gone, x.key) /\ ItemsOf(gone) = ItemsOf(tab) \ {x}
    BY <1>1, <1>2, EraseLegal DEF x
  <1>8. x \in ItemsOf(tab)
    BY <1>1, <1>2, ItemsOfCells DEF x
  <1>9. \A b \in Index(hp), s \in Slot :
          gone[b][s] = IF b = from[1] /\ s = from[2] THEN None ELSE tab[b][s]
    BY <1>1, AfterWrite
  <1>. HIDE DEF gone, set
  <1>9a. gone[cell[1]][cell[2]] = None
    BY <1>1, <1>9
  <1>10. Legal(hp, back) /\ ItemsOf(back) = ItemsOf(gone) \cup {x}
    BY <1>1, <1>2, <1>5, <1>6, <1>7, <1>9a, SetLegal
  <1>11. back \in TabType(hp) /\ end \in TabType(hp)
    BY <1>2, <1>6, WriteType
  <1>12. \A b \in Index(hp), s \in Slot :
           /\ end[b][s] = IF b = from[1] /\ s = from[2] THEN None
                          ELSE IF b = cell[1] /\ s = cell[2] THEN x ELSE tab[b][s]
           /\ back[b][s] = IF b = cell[1] /\ s = cell[2] THEN x
                           ELSE IF b = from[1] /\ s = from[2] THEN None ELSE tab[b][s]
    <2>1. \A b \in Index(hp), s \in Slot :
            end[b][s] = IF b = from[1] /\ s = from[2] THEN None ELSE set[b][s]
      BY <1>1, <1>6, AfterWrite
    <2>2. \A b \in Index(hp), s \in Slot :
            set[b][s] = IF b = cell[1] /\ s = cell[2] THEN x ELSE tab[b][s]
      BY <1>1, AfterWrite DEF set
    <2>3. \A b \in Index(hp), s \in Slot :
            back[b][s] = IF b = cell[1] /\ s = cell[2] THEN x ELSE gone[b][s]
      BY <1>1, <1>6, AfterWrite
    <2>. HIDE DEF end, back
    <2>. QED BY <1>9, <2>1, <2>2, <2>3
  <1>. HIDE DEF end, back
  <1>13. end = back
    <2>1. \A b \in Index(hp), s \in Slot : end[b][s] = back[b][s]
      BY <1>12
    <2>2. end \in [Index(hp) -> [Slot -> Cell]] /\ back \in [Index(hp) -> [Slot -> Cell]]
      BY <1>11 DEF TabType
    <2>3. \A b \in Index(hp) : end[b] = back[b]
      <3> TAKE b \in Index(hp)
      <3>1. end[b] \in [Slot -> Cell] /\ back[b] \in [Slot -> Cell]
        BY <2>2
      <3>. QED BY <2>1, <3>1
    <2>. QED BY <2>2, <2>3
  <1>14. ASSUME NEW b \in Index(hp), b # cell[1], b # from[1] PROVE end[b] = tab[b]
    <2>1. \A s \in Slot : end[b][s] = tab[b][s]
      BY <1>12, <1>14
    <2>2. end[b] \in [Slot -> Cell] /\ tab[b] \in [Slot -> Cell]
      BY <1>11 DEF TabType
    <2>. QED BY <2>1, <2>2
  <1>15. ItemsOf(end) = ItemsOf(tab)
    BY <1>7, <1>8, <1>10, <1>13
  <1>16. end[from[1]][from[2]] = None
    BY <1>1, <1>12
  <1>. QED BY <1>3, <1>10, <1>11, <1>13, <1>14, <1>15, <1>16

\* The keys of a table are those of its items.
LEMMA KeysOfItems ==
  ASSUME NEW hp, NEW tab \in TabType(hp), NEW k
  PROVE  HasKey(tab, k) <=> \E i \in ItemsOf(tab) : i.key = k
  BY HasKeyCell, ItemsOfCells

LEMMA ShiftPathSteps ==
  ASSUME NEW hp, NEW tab \in TabType(hp), NEW found \in FoundType(hp), NEW item \in Item
  PROVE  \E h : /\ ShiftSteps(hp, tab, found, h)
                /\ LET end == h[Len(found.path)] IN
                   ShiftPath(tab, found, item) = set_kv(end.tab, end.cell[1], end.cell[2], item)
  <1>. DEFINE S == [tab : TabType(hp), cell : CellOf(hp)]
              N == Len(found.path)
              start == [tab |-> tab, cell |-> found.cell]
              Hop(st, from) == ShiftHop(st, from)
              Back(n) == found.path[N + 1 - n]
              g == [n \in 1 .. N |-> [z \in S |-> Hop(z, Back(n))]]
              after[n \in 0 .. N] == IF n = 0 THEN start ELSE Hop(after[n - 1], Back(n))
  <1>1. N \in Nat /\ \A n \in 1 .. N : Back(n) \in CellOf(hp)
    BY DEF FoundType
  <1>2. start \in S
    BY DEF FoundType
  <1>3. \A z \in S, from \in CellOf(hp) : Hop(z, from) \in S
    <2> SUFFICES ASSUME NEW z \in S, NEW from \in CellOf(hp) PROVE Hop(z, from) \in S
      OBVIOUS
    <2>1. z.tab \in TabType(hp) /\ from[1] \in Index(hp) /\ from[2] \in Slot
      BY DEF CellOf
    <2>2. z.tab[from[1]][from[2]] \in Cell
      BY <2>1, CellType
    <2>3. set_kv(z.tab, z.cell[1], z.cell[2], z.tab[from[1]][from[2]]) \in TabType(hp)
      BY <2>1, <2>2, WriteType
    <2>4. erase_kv(set_kv(z.tab, z.cell[1], z.cell[2], z.tab[from[1]][from[2]]),
                   from[1], from[2]) \in TabType(hp)
      BY <2>3, WriteType
    <2>. QED BY <2>4 DEF ShiftHop
  <1>4. ShiftPath(tab, found, item)
          = set_kv(after[N].tab, after[N].cell[1], after[N].cell[2], item)
    BY DEF ShiftPath, ShiftHop
  <1>. HIDE DEF S, N, start, Hop, Back
  <1>6. g \in [1 .. N -> [S -> S]] /\ \A n \in 1 .. N, z \in S : g[n][z] = Hop(z, Back(n))
    BY <1>1, <1>3
  <1>. HIDE DEF g
  <1>7. PICK f : Recurs(f, S, N, start, g)
    BY <1>1, <1>2, <1>6, BoundedRecursion, Zenon
  <1>8. f = [n \in 0 .. N |-> IF n = 0 THEN start ELSE Hop(f[n - 1], Back(n))]
    <2>1. f \in [0 .. N -> S]
      BY <1>7 DEF Recurs
    <2>2. f = [n \in 0 .. N |-> IF n = 0 THEN start ELSE g[n][f[n - 1]]]
      BY <1>7 DEF Recurs
    <2>3. \A n \in 0 .. N : n # 0 => g[n][f[n - 1]] = Hop(f[n - 1], Back(n))
      BY <1>1, <1>6, <2>1
    <2>. QED BY <2>2, <2>3
  <1>9. after = [n \in 0 .. N |-> IF n = 0 THEN start ELSE Hop(after[n - 1], Back(n))]
    BY <1>8, Zenon
  <1>. HIDE DEF after
  <1>10. \A n \in 0 .. N : after[n] = IF n = 0 THEN start ELSE Hop(after[n - 1], Back(n))
    BY <1>9, Zenon
  <1>11. \A n \in Nat : n <= N => after[n] \in S
    <2>. DEFINE T == {n \in Nat : n <= N => after[n] \in S}
    <2>1. 0 \in T
      BY <1>1, <1>2, <1>10
    <2>2. ASSUME NEW n \in Nat, n \in T PROVE n + 1 \in T
      <3> SUFFICES ASSUME n + 1 <= N PROVE after[n + 1] \in S
        OBVIOUS
      <3>1. PICK m \in 1 .. N : m = n + 1
        BY <1>1
      <3>2. m \in 0 .. N /\ m # 0 /\ m - 1 = n
        BY <1>1, <3>1
      <3>3. after[m] = Hop(after[m - 1], Back(m))
        BY <1>10, <3>2, Zenon
      <3>4. after[m - 1] \in S
        BY <1>1, <2>2, <3>1, <3>2
      <3>. QED BY <1>1, <1>3, <3>1, <3>3, <3>4
    <2>. HIDE DEF T
    <2>3. \A n \in Nat : n \in T
      BY <2>1, <2>2, SetInduction
    <2>. QED BY <2>3 DEF T
  <1>13. after \in [0 .. N -> S]
    BY <1>1, <1>9, <1>11
  <1>14. after[0] = start /\ \A n \in 1 .. N : after[n] = Hop(after[n - 1], Back(n))
    BY <1>1, <1>10
  <1>15. ShiftSteps(hp, tab, found, after)
    BY <1>13, <1>14 DEF ShiftSteps, S, N, start, Hop, Back
  <1>16. PICK h : h = after
    OBVIOUS
  <1>17. /\ ShiftSteps(hp, tab, found, h)
         /\ LET end == h[Len(found.path)] IN
            ShiftPath(tab, found, item) = set_kv(end.tab, end.cell[1], end.cell[2], item)
    BY <1>4, <1>15, <1>16 DEF N
  <1>. QED BY <1>17


LEMMA ShiftPathType ==
  ASSUME NEW hp, NEW tab \in TabType(hp), NEW found \in FoundType(hp), NEW item \in Item
  PROVE  ShiftPath(tab, found, item) \in TabType(hp)
  <1>1. PICK f : /\ ShiftSteps(hp, tab, found, f)
                 /\ LET end == f[Len(found.path)] IN
                    ShiftPath(tab, found, item) = set_kv(end.tab, end.cell[1], end.cell[2], item)
    BY ShiftPathSteps
  <1>2. Len(found.path) \in Nat
    BY DEF FoundType
  <1>3. f[Len(found.path)].tab \in TabType(hp)
    BY <1>1, <1>2 DEF ShiftSteps
  <1>. QED BY <1>1, <1>3, WriteType DEF Cell


(***************************************************************************)
(* Shifting a path back moves each of its items to its other bucket, the   *)
(* last one first, and makes room for the new item in one of its buckets.  *)
(***************************************************************************)
LEMMA ShiftPathPlaces ==
  ASSUME NEW hp \in Nat, NEW tab \in TabType(hp), Legal(hp, tab),
         NEW item \in Item, ~HasKey(tab, item.key), NEW found \in FoundType(hp),
         Leads(hp, tab, HomesOf(hp, item.key), found.path, found.cell[1]),
         ~occupied(tab, found.cell[1], found.cell[2]),
         NEW new, new = ShiftPath(tab, found, item)
  PROVE  new \in TabType(hp) /\ Legal(hp, new) /\ ItemsOf(new) = ItemsOf(tab) \cup {item}
  <1>. DEFINE N == Len(found.path)
              P == found.path
              b == found.cell[1]
              C(n) == IF n = 0 THEN found.cell ELSE P[N + 1 - n]
  <1>1. PICK f : /\ ShiftSteps(hp, tab, found, f)
                 /\ LET end == f[N] IN new = set_kv(end.tab, end.cell[1], end.cell[2], item)
    BY ShiftPathSteps
  <1>2. N \in Nat /\ \A j \in 1 .. N : P[j] \in CellOf(hp)
    BY DEF FoundType
  <1>3. /\ f \in [0 .. N -> [tab : TabType(hp), cell : CellOf(hp)]]
        /\ f[0].tab = tab /\ f[0].cell = found.cell
        /\ \A n \in 1 .. N : f[n] = ShiftHop(f[n - 1], P[N + 1 - n])
    BY <1>1 DEF ShiftSteps
  <1>4. /\ Along(P, b, 1) \in HomesOf(hp, item.key)
        /\ \A j \in 1 .. N :
             /\ occupied(tab, P[j][1], P[j][2])
             /\ OtherBucket(hp, tab[P[j][1]][P[j][2]], P[j][1]) = Along(P, b, j + 1)
        /\ \A i, j \in 1 .. N + 1 : Along(P, b, i) = Along(P, b, j) => i = j
    BY DEF Leads
  <1>5. \A n \in 0 .. N : C(n) \in CellOf(hp) /\ C(n)[1] = Along(P, b, N + 1 - n)
    <2> TAKE n \in 0 .. N
    <2>1. CASE n = 0
      BY <1>2, <2>1 DEF Along, FoundType
    <2>2. CASE n # 0
      BY <1>2, <2>2 DEF Along
    <2>. QED BY <2>1, <2>2
  <1>6. \A j \in 1 .. N : Along(P, b, j) = P[j][1]
    BY <1>2 DEF Along
  <1>. HIDE DEF N, P, b, C
  <1>. DEFINE Kept(n) ==
         /\ f[n].cell = C(n) /\ f[n].tab \in TabType(hp) /\ Legal(hp, f[n].tab)
         /\ ItemsOf(f[n].tab) = ItemsOf(tab)
         /\ f[n].tab[C(n)[1]][C(n)[2]] = None
         /\ \A j \in 1 .. N - n : f[n].tab[P[j][1]][P[j][2]] = tab[P[j][1]][P[j][2]]
  <1>7. Kept(0)
    <2>1. C(0) = found.cell
      BY DEF C
    <2>2. tab[found.cell[1]][found.cell[2]] = None
      BY DEF occupied
    <2>. QED BY <1>3, <2>1, <2>2
  <1>8. ASSUME NEW n \in Nat, n + 1 <= N, Kept(n) PROVE Kept(n + 1)
    <2>. PICK m : m = n + 1
      OBVIOUS
    <2>. PICK j : j = N - n
      OBVIOUS
    <2>1. /\ m \in 1 .. N /\ m \in 0 .. N /\ n \in 0 .. N /\ m - 1 = n /\ N + 1 - m = j
          /\ j \in 1 .. N /\ j + 1 \in 1 .. N + 1 /\ j \in 1 .. N + 1 /\ N + 1 - n = j + 1
          /\ j \in 1 .. N - n /\ N - m = j - 1 /\ m # 0
      BY <1>2, <1>8
    <2>. PICK T : T = f[n].tab
      OBVIOUS
    <2>. PICK cell : cell = C(n)
      OBVIOUS
    <2>. PICK from : from = P[j]
      OBVIOUS
    <2>2. C(m) = from
      BY <2>1 DEF C
    <2>3. /\ T \in TabType(hp) /\ Legal(hp, T) /\ ItemsOf(T) = ItemsOf(tab)
          /\ T[cell[1]][cell[2]] = None /\ cell \in CellOf(hp) /\ from \in CellOf(hp)
          /\ T[from[1]][from[2]] = tab[from[1]][from[2]]
      BY <1>2, <1>5, <1>8, <2>1
    <2>4. /\ cell[1] = Along(P, b, j + 1) /\ from[1] = Along(P, b, j)
          /\ occupied(tab, from[1], from[2])
          /\ OtherBucket(hp, tab[from[1]][from[2]], from[1]) = Along(P, b, j + 1)
      BY <1>4, <1>5, <1>6, <2>1
    <2>5. cell[1] # from[1]
      <3>1. j # j + 1
        BY <2>1
      <3>. QED BY <1>4, <2>1, <2>4, <3>1
    <2>6. occupied(T, from[1], from[2])
      BY <2>3, <2>4 DEF occupied
    <2>7. f[m] = ShiftHop([tab |-> T, cell |-> cell], from)
      <3>1. f[m] = ShiftHop(f[n], from)
        BY <1>3, <2>1
      <3>2. f[n] \in [tab : TabType(hp), cell : CellOf(hp)] /\ f[n].cell = cell
        BY <1>3, <1>8, <2>1
      <3>3. f[n] = [tab |-> T, cell |-> cell]
        BY <3>2
      <3>. QED BY <3>1, <3>3
    <2>8. /\ f[m].cell = from /\ f[m].tab \in TabType(hp) /\ Legal(hp, f[m].tab)
          /\ ItemsOf(f[m].tab) = ItemsOf(T)
          /\ f[m].tab[from[1]][from[2]] = None
          /\ \A x \in Index(hp) : x # cell[1] /\ x # from[1] => f[m].tab[x] = T[x]
      BY <2>3, <2>4, <2>5, <2>6, <2>7, ShiftHopLegal
    <2>9. ASSUME NEW i \in 1 .. N - m
          PROVE  f[m].tab[P[i][1]][P[i][2]] = tab[P[i][1]][P[i][2]]
      <3>1. i \in 1 .. N /\ i \in 1 .. N - n /\ i \in 1 .. N + 1 /\ i # j /\ i # j + 1
        BY <1>2, <2>1
      <3>2. P[i][1] = Along(P, b, i) /\ P[i][1] \in Index(hp)
        BY <1>2, <1>6, <3>1 DEF CellOf
      <3>3. P[i][1] # cell[1] /\ P[i][1] # from[1]
        BY <1>4, <2>1, <2>4, <3>1, <3>2
      <3>4. T[P[i][1]][P[i][2]] = tab[P[i][1]][P[i][2]]
        BY <1>8, <3>1
      <3>. QED BY <2>8, <3>2, <3>3, <3>4
    <2>10. Kept(m)
      BY <2>2, <2>3, <2>8, <2>9
    <2>. QED BY <2>10
  <1>9. Kept(N)
    <2>. DEFINE T == {n \in Nat : n <= N => Kept(n)}
    <2>. HIDE DEF Kept
    <2>1. 0 \in T
      BY <1>7
    <2>2. ASSUME NEW n \in Nat, n \in T PROVE n + 1 \in T
      BY <1>2, <1>8, <2>2
    <2>. HIDE DEF T
    <2>3. \A n \in Nat : n \in T
      BY <2>1, <2>2, SetInduction
    <2>. QED BY <1>2, <2>3 DEF T
  <1>10. C(N)[1] \in HomesOf(hp, item.key) /\ C(N) \in CellOf(hp)
    <2>1. N \in 0 .. N /\ N + 1 - N = 1
      BY <1>2
    <2>. QED BY <1>4, <1>5, <2>1
  <1>11. /\ C(N)[1] \in Index(hp) /\ C(N)[2] \in Slot
         /\ new = set_kv(f[N].tab, C(N)[1], C(N)[2], item)
    BY <1>1, <1>9, <1>10 DEF CellOf
  <1>12. ~HasKey(f[N].tab, item.key)
    BY <1>9, KeysOfItems
  <1>13. new \in TabType(hp)
    BY <1>9, <1>11, WriteType DEF Cell
  <1>14. Legal(hp, new) /\ ItemsOf(new) = ItemsOf(f[N].tab) \cup {item}
    BY <1>9, <1>10, <1>11, <1>12, SetLegal
  <1>. QED BY <1>9, <1>13, <1>14

AccType(hp) == [tab : TabType(hp), alternate_items : Seq(Item), panic : BOOLEAN]

LEMMA PlaceItemType ==
  ASSUME NEW hp \in Nat, NEW acc \in AccType(hp), NEW item \in Item
  PROVE  rehash_place_item(hp, acc, item) \in AccType(hp)
  <1>. DEFINE i1   == Bucket1(hp, item.key)
              i2   == Bucket2(hp, item.key)
              room == free_cell(acc.tab, i1, i2)
              path == PathToRoom(hp, acc.tab, i1, i2)
              c    == CHOOSE c \in room : TRUE
  <1>1. acc.tab \in TabType(hp) /\ item \in Cell
    BY DEF AccType, Cell
  <1>2. path # None => path \in FoundType(hp)
    BY <1>1, BucketType, PathToRoomLeads DEF Item
  <1>3. set_kv(acc.tab, c[1], c[2], item) \in TabType(hp)
    BY <1>1, WriteType
  <1>4. path # None => ShiftPath(acc.tab, path, item) \in TabType(hp)
    BY <1>1, <1>2, ShiftPathType
  <1>5. rehash_place_item(hp, acc, item) =
          IF acc.panic THEN acc
          ELSE IF room # {} THEN [acc EXCEPT !.tab = set_kv(acc.tab, c[1], c[2], item)]
          ELSE IF path # None THEN [acc EXCEPT !.tab = ShiftPath(acc.tab, path, item)]
          ELSE [acc EXCEPT !.panic = TRUE]
    BY DEF rehash_place_item
  <1>. HIDE DEF i1, i2, room, path, c
  <1>. QED BY <1>3, <1>4, <1>5 DEF AccType

LEMMA MoveType ==
  ASSUME NEW old_hp \in Nat, NEW old \in TabType(old_hp), NEW acc \in AccType(old_hp + 1),
         NEW pos, pos[1] \in Index(old_hp), pos[2] \in Slot
  PROVE  rehash_move(old_hp, old, acc, pos) \in AccType(old_hp + 1)
  <1>. DEFINE item == old[pos[1]][pos[2]]
              room == free_cell(acc.tab, Bucket1(old_hp + 1, item.key),
                                         Bucket2(old_hp + 1, item.key))
              c    == CHOOSE c \in room : TRUE
  <1>1. acc.tab \in TabType(old_hp + 1) /\ item \in Cell
    BY CellType DEF AccType
  <1>2. item # None => item \in Item
    BY <1>1 DEF Cell
  <1>3. set_kv(acc.tab, c[1], c[2], item) \in TabType(old_hp + 1)
    BY <1>1, WriteType
  <1>4. item # None => Append(acc.alternate_items, item) \in Seq(Item)
    BY <1>2 DEF AccType
  <1>5. rehash_move(old_hp, old, acc, pos) =
          IF item = None \/ acc.panic THEN acc
          ELSE IF Bucket1(old_hp, item.key) # pos[1]
          THEN [acc EXCEPT !.alternate_items = Append(acc.alternate_items, item)]
          ELSE IF room = {} THEN [acc EXCEPT !.panic = TRUE]
          ELSE [acc EXCEPT !.tab = set_kv(acc.tab, c[1], c[2], item)]
    BY DEF rehash_move
  <1>. HIDE DEF item, room, c
  <1>. QED BY <1>3, <1>4, <1>5 DEF AccType

(***************************************************************************)
(* A rehash puts an item it has not yet put into one of the item's own     *)
(* buckets, whether there is room or room has to be made, and neither      *)
(* loses nor makes up another.                                             *)
(***************************************************************************)
LEMMA FreeCellLegal ==
  ASSUME NEW hp \in Nat, NEW tab \in TabType(hp), Legal(hp, tab), NEW item \in Item,
         ~HasKey(tab, item.key),
         NEW c \in free_cell(tab, Bucket1(hp, item.key), Bucket2(hp, item.key)),
         NEW new, new = set_kv(tab, c[1], c[2], item)
  PROVE  Legal(hp, new) /\ ItemsOf(new) = ItemsOf(tab) \cup {item}
  <1>1. c[1] \in HomesOf(hp, item.key) /\ c[2] \in Slot /\ tab[c[1]][c[2]] = None
    BY FreeCell DEF HomesOf
  <1>2. c[1] \in Index(hp)
    BY <1>1, BucketType DEF HomesOf, Item
  <1>. QED BY <1>1, <1>2, SetLegal

LEMMA PlaceItemLegal ==
  ASSUME NEW hp \in Nat, NEW acc \in AccType(hp), Legal(hp, acc.tab), NEW item \in Item,
         ~HasKey(acc.tab, item.key), NEW new, new = rehash_place_item(hp, acc, item)
  PROVE  /\ Legal(hp, new.tab) /\ new.alternate_items = acc.alternate_items
         /\ new.panic => new.tab = acc.tab
         /\ ~new.panic => ItemsOf(new.tab) = ItemsOf(acc.tab) \cup {item}
  <1>. DEFINE i1   == Bucket1(hp, item.key)
              i2   == Bucket2(hp, item.key)
              room == free_cell(acc.tab, i1, i2)
              path == PathToRoom(hp, acc.tab, i1, i2)
              c    == CHOOSE c \in room : TRUE
  <1>1. acc.tab \in TabType(hp)
    BY DEF AccType
  <1>2. /\ i1 \in Index(hp) /\ i2 \in Index(hp) /\ {i1, i2} = HomesOf(hp, item.key)
    BY BucketType DEF Item, HomesOf
  <1>3. room # {} => LET tab == set_kv(acc.tab, c[1], c[2], item) IN
                     Legal(hp, tab) /\ ItemsOf(tab) = ItemsOf(acc.tab) \cup {item}
    BY <1>1, FreeCellLegal
  <1>4. path # None => LET tab == ShiftPath(acc.tab, path, item) IN
                       Legal(hp, tab) /\ ItemsOf(tab) = ItemsOf(acc.tab) \cup {item}
    <2> SUFFICES ASSUME path # None
                 PROVE  LET tab == ShiftPath(acc.tab, path, item) IN
                        Legal(hp, tab) /\ ItemsOf(tab) = ItemsOf(acc.tab) \cup {item}
      OBVIOUS
    <2>1. PICK p : p = path
      OBVIOUS
    <2>2. /\ p \in FoundType(hp) /\ Leads(hp, acc.tab, {i1, i2}, p.path, p.cell[1])
          /\ ~occupied(acc.tab, p.cell[1], p.cell[2])
      BY <1>1, <1>2, <2>1, PathToRoomLeads
    <2>3. Leads(hp, acc.tab, HomesOf(hp, item.key), p.path, p.cell[1])
      BY <1>2, <2>2
    <2>. HIDE DEF path, i1, i2
    <2>4. PICK tab : tab = ShiftPath(acc.tab, p, item)
      OBVIOUS
    <2>5. Legal(hp, tab) /\ ItemsOf(tab) = ItemsOf(acc.tab) \cup {item}
      BY <1>1, <2>2, <2>3, <2>4, ShiftPathPlaces
    <2>. QED BY <2>1, <2>4, <2>5
  <1>5. new = IF acc.panic THEN acc
              ELSE IF room # {} THEN [acc EXCEPT !.tab = set_kv(acc.tab, c[1], c[2], item)]
              ELSE IF path # None THEN [acc EXCEPT !.tab = ShiftPath(acc.tab, path, item)]
              ELSE [acc EXCEPT !.panic = TRUE]
    BY DEF rehash_place_item
  <1>. HIDE DEF i1, i2, room, path, c
  <1>. QED BY <1>3, <1>4, <1>5 DEF AccType

\* What one slot of pass 1 needs, and what it does to the new container and to the
\* items put aside.
MoveReady(hp, old, acc, pos, item, st) ==
  /\ old \in TabType(hp) /\ acc \in AccType(hp + 1)
  /\ pos[1] \in Index(hp) /\ pos[2] \in Slot /\ item = old[pos[1]][pos[2]]
  /\ Legal(hp + 1, acc.tab) /\ (item # None => ~HasKey(acc.tab, item.key))
  /\ st = rehash_move(hp, old, acc, pos)

MoveDone(hp, acc, item, st) ==
  /\ Legal(hp + 1, st.tab)
  /\ \/ st.panic /\ st.tab = acc.tab
     \/ item = None /\ st = acc
     \/ /\ item \in Item /\ st.tab = acc.tab
        /\ st.alternate_items = Append(acc.alternate_items, item)
     \/ /\ item \in Item /\ st.alternate_items = acc.alternate_items
        /\ ItemsOf(st.tab) = ItemsOf(acc.tab) \cup {item}

LEMMA MoveLegal ==
  ASSUME NEW old_hp \in Nat, NEW old, NEW acc, NEW pos, NEW item, NEW st,
         MoveReady(old_hp, old, acc, pos, item, st)
  PROVE  MoveDone(old_hp, acc, item, st)
  <1>. DEFINE room == free_cell(acc.tab, Bucket1(old_hp + 1, item.key),
                                         Bucket2(old_hp + 1, item.key))
              c    == CHOOSE c \in room : TRUE
  <1>0. /\ old \in TabType(old_hp) /\ acc \in AccType(old_hp + 1)
        /\ pos[1] \in Index(old_hp) /\ pos[2] \in Slot /\ item = old[pos[1]][pos[2]]
        /\ Legal(old_hp + 1, acc.tab) /\ (item # None => ~HasKey(acc.tab, item.key))
        /\ st = rehash_move(old_hp, old, acc, pos)
    BY DEF MoveReady
  <1>1. acc.tab \in TabType(old_hp + 1) /\ item \in Cell
    BY <1>0, CellType DEF AccType
  <1>2. item # None => item \in Item
    BY <1>1 DEF Cell
  <1>3. ASSUME item # None, room # {}
        PROVE  LET tab == set_kv(acc.tab, c[1], c[2], item) IN
               Legal(old_hp + 1, tab) /\ ItemsOf(tab) = ItemsOf(acc.tab) \cup {item}
    <2>1. PICK hp \in Nat : hp = old_hp + 1
      OBVIOUS
    <2>2. PICK d : d \in room /\ d = c
      BY <1>3
    <2>3. PICK tab : tab = set_kv(acc.tab, d[1], d[2], item)
      OBVIOUS
    <2>. HIDE DEF c
    <2>4. /\ hp \in Nat /\ item \in Item /\ acc.tab \in TabType(hp) /\ Legal(hp, acc.tab)
          /\ ~HasKey(acc.tab, item.key)
          /\ d \in free_cell(acc.tab, Bucket1(hp, item.key), Bucket2(hp, item.key))
      BY <1>0, <1>1, <1>2, <1>3, <2>1, <2>2
    <2>5. Legal(hp, tab) /\ ItemsOf(tab) = ItemsOf(acc.tab) \cup {item}
      BY <2>3, <2>4, FreeCellLegal, SMT
    <2>. QED BY <2>1, <2>2, <2>3, <2>5
  <1>5. st = IF item = None \/ acc.panic THEN acc
              ELSE IF Bucket1(old_hp, item.key) # pos[1]
              THEN [acc EXCEPT !.alternate_items = Append(acc.alternate_items, item)]
              ELSE IF room = {} THEN [acc EXCEPT !.panic = TRUE]
              ELSE [acc EXCEPT !.tab = set_kv(acc.tab, c[1], c[2], item)]
    BY <1>0, Zenon DEF rehash_move
  <1>. HIDE DEF room, c
  <1>. QED BY <1>0, <1>2, <1>3, <1>5, ZenonT(30) DEF AccType, MoveDone
=============================================================================

----------------------------- MODULE CuckooTable -----------------------------
(***************************************************************************)
(* The bucket container of bucket.rs as a value, and the parts of map.rs   *)
(* that compute on it while every lock they need is held: the key search   *)
(* of the locked operations and the two rehash passes of                   *)
(* cuckoo_fast_double.                                                     *)
(*                                                                         *)
(* A container is a function from bucket to slot to cell.  A cell is None  *)
(* or an item [key, value]; the partial that the code stores beside the    *)
(* key is always hash_key[key].partial, so comparing it before the key     *)
(* filters nothing that the key comparison would let through.              *)
(***************************************************************************)
EXTENDS BucketIndex, SequencesExt

CONSTANTS
  Key, Value,
  None,              \* Option::None
  hash_key,          \* Key -> [hash, partial]
  SLOT_PER_BUCKET,
  MAX_BFS_PATH_LEN

\* The partial is computed from the hash alone.
ASSUME HashKeyAssumption ==
  /\ hash_key \in [Key -> [hash : Nat, partial : 0 .. 255]]
  /\ \A k, l \in Key : hash_key[k].hash = hash_key[l].hash
                        => hash_key[k].partial = hash_key[l].partial

ASSUME TableAssumption ==
  /\ SLOT_PER_BUCKET \in Nat \ {0}
  /\ MAX_BFS_PATH_LEN \in Nat \ {0}
  /\ None \notin [key : Key, value : Value]

ASSUME NoneAssumption ==
  /\ None \notin Key
  /\ None \notin [path : Seq(Nat \X Nat), cell : Nat \X Nat]

Slot == 0 .. SLOT_PER_BUCKET - 1
Item == [key : Key, value : Value]
Cell == Item \cup {None}

Index(hp) == 0 .. hashsize(hp) - 1

TabType(hp) == [Index(hp) -> [Slot -> Cell]]

BucketContainer(hp) == [b \in Index(hp) |-> [s \in Slot |-> None]]

Bucket1(hp, k) == index_hash(hp, hash_key[k].hash)
Bucket2(hp, k) == alt_index(hp, hash_key[k].partial, Bucket1(hp, k))

-----------------------------------------------------------------------------
occupied(tab, b, s) == tab[b][s] # None

FreeSlots(tab, b)     == {s \in Slot : ~occupied(tab, b, s)}
KeySlots(tab, b, k)   == {s \in Slot : occupied(tab, b, s) /\ tab[b][s].key = k}

find_empty_slot(tab, b) == Min(FreeSlots(tab, b))

set_kv(tab, b, s, item) == [tab EXCEPT ![b][s] = item]
erase_kv(tab, b, s)     == [tab EXCEPT ![b][s] = None]

(***************************************************************************)
(* The cell that holds key k, looked for in bucket i1 and then in i2: a    *)
(* set of at most one <<bucket, slot>> pair.                               *)
(***************************************************************************)
\* Mutant: does not look into the second bucket.
FindInFirst(tab, k, i1, i2) ==
  IF KeySlots(tab, i1, k) # {} THEN {<<i1, Min(KeySlots(tab, i1, k))>>} ELSE {}

cuckoo_find(tab, k, i1, i2) ==
  IF KeySlots(tab, i1, k) # {} THEN {<<i1, Min(KeySlots(tab, i1, k))>>}
  ELSE IF KeySlots(tab, i2, k) # {} THEN {<<i2, Min(KeySlots(tab, i2, k))>>}
  ELSE {}

(***************************************************************************)
(* Where an insertion of a new key goes: the first free slot of i1, else   *)
(* of i2, else nowhere.                                                    *)
(***************************************************************************)
free_cell(tab, i1, i2) ==
  IF FreeSlots(tab, i1) # {} THEN {<<i1, find_empty_slot(tab, i1)>>}
  ELSE IF FreeSlots(tab, i2) # {} THEN {<<i2, find_empty_slot(tab, i2)>>}
  ELSE {}

Positions(hp) ==
  [n \in 1 .. hashsize(hp) * SLOT_PER_BUCKET |->
     <<(n - 1) \div SLOT_PER_BUCKET, (n - 1) % SLOT_PER_BUCKET>>]

ItemsOf(tab) ==
  {tab[b][s] : b \in DOMAIN tab, s \in Slot} \ {None}

-----------------------------------------------------------------------------
(***************************************************************************)
(* rehash_place_item: the free slot of the item's own buckets, else a      *)
(* breadth-first search for a bucket with room, whose path is then shifted *)
(* back by one.  A search is [queue, visited, found]; found is None or     *)
(* [path, cell].                                                           *)
(***************************************************************************)
OtherBucket(hp, item, b) ==
  IF b = Bucket1(hp, item.key) THEN Bucket2(hp, item.key) ELSE Bucket1(hp, item.key)

\* The buckets in which a free slot makes room in one of the start buckets by
\* moving at most n items, each to its other bucket.
Reachable(hp, tab, n, start) ==
  LET r[m \in Nat] ==
        IF m = 0 THEN start
        ELSE r[m - 1] \cup {OtherBucket(hp, tab[c[1]][c[2]], c[1]) :
                              c \in {x \in r[m - 1] \X Slot : occupied(tab, x[1], x[2])}}
  IN  r[n]

Enqueue(hp, tab, x, search, s) ==
  LET alt == OtherBucket(hp, tab[x.bucket][s], x.bucket)
  IN  IF alt \in search.visited THEN search
      ELSE [search EXCEPT
              !.visited = search.visited \cup {alt},
              !.queue = Append(search.queue,
                          [bucket |-> alt, depth |-> x.depth + 1,
                           path |-> Append(x.path, <<x.bucket, s>>)])]

Dequeue(hp, tab, search) ==
  LET x       == Head(search.queue)
      rest    == [search EXCEPT !.queue = Tail(search.queue)]
      scan[n \in 0 .. SLOT_PER_BUCKET] ==
        IF n = 0 THEN rest ELSE Enqueue(hp, tab, x, scan[n - 1], n - 1)
  IN  IF x.depth >= MAX_BFS_PATH_LEN THEN rest
      ELSE IF FreeSlots(tab, x.bucket) # {}
      THEN [rest EXCEPT !.found = [path |-> x.path,
              cell |-> <<x.bucket, find_empty_slot(tab, x.bucket)>>]]
      ELSE scan[SLOT_PER_BUCKET]

PathToRoom(hp, tab, i1, i2) ==
  LET start == [queue   |-> <<[bucket |-> i1, depth |-> 0, path |-> <<>>],
                              [bucket |-> i2, depth |-> 0, path |-> <<>>]>>,
                visited |-> {i1, i2}, found |-> None]
      Next(q) == IF q.found # None \/ q.queue = <<>> THEN q ELSE Dequeue(hp, tab, q)
      after[n \in 0 .. hashsize(hp) + 1] == IF n = 0 THEN start ELSE Next(after[n - 1])
  IN  after[hashsize(hp) + 1].found

\* Mutant: shifts the path from its start instead of from its end.
ShiftForward(tab, found, item) ==
  LET st == FoldLeft(LAMBDA acc, from :
                       [tab  |-> erase_kv(set_kv(acc.tab, acc.cell[1], acc.cell[2],
                                                 acc.tab[from[1]][from[2]]),
                                          from[1], from[2]),
                        cell |-> from],
                     [tab |-> tab, cell |-> found.cell], found.path)
  IN  set_kv(st.tab, st.cell[1], st.cell[2], item)

ShiftPath(tab, found, item) ==
  LET len == Len(found.path)
      Hop(st, from) == [tab  |-> erase_kv(set_kv(st.tab, st.cell[1], st.cell[2],
                                                 st.tab[from[1]][from[2]]),
                                          from[1], from[2]),
                        cell |-> from]
      after[n \in 0 .. len] == IF n = 0 THEN [tab |-> tab, cell |-> found.cell]
                               ELSE Hop(after[n - 1], found.path[len + 1 - n])
  IN  set_kv(after[len].tab, after[len].cell[1], after[len].cell[2], item)

\* A rehash under way is [tab, alternate_items, panic].
rehash_place_item(hp, acc, item) ==
  LET i1   == Bucket1(hp, item.key)
      i2   == Bucket2(hp, item.key)
      room == free_cell(acc.tab, i1, i2)
      path == PathToRoom(hp, acc.tab, i1, i2)
  IN  IF acc.panic THEN acc
      ELSE IF room # {} THEN LET c == CHOOSE c \in room : TRUE
                             IN  [acc EXCEPT !.tab = set_kv(acc.tab, c[1], c[2], item)]
      ELSE IF path # None THEN [acc EXCEPT !.tab = ShiftPath(acc.tab, path, item)]
      ELSE [acc EXCEPT !.panic = TRUE]

(***************************************************************************)
(* Pass 1 moves the items that sit in their primary bucket and puts the    *)
(* others aside; pass 2 places those.                                      *)
(***************************************************************************)
\* Mutant: items in their alternate bucket are not put aside.
MoveAlternates(old_hp, old, acc, pos) ==
  LET item == old[pos[1]][pos[2]]
      room == free_cell(acc.tab, Bucket1(old_hp + 1, item.key), Bucket2(old_hp + 1, item.key))
  IN  IF item = None \/ acc.panic THEN acc
      ELSE IF room = {} THEN [acc EXCEPT !.panic = TRUE]
      ELSE LET c == CHOOSE c \in room : TRUE
           IN  [acc EXCEPT !.tab = set_kv(acc.tab, c[1], c[2], item)]

\* Pass 1 for one slot of the old container.
rehash_move(old_hp, old, acc, pos) ==
  LET item == old[pos[1]][pos[2]]
      i1   == Bucket1(old_hp + 1, item.key)
      room == free_cell(acc.tab, i1, Bucket2(old_hp + 1, item.key))
  IN  IF item = None \/ acc.panic THEN acc
      ELSE IF Bucket1(old_hp, item.key) # pos[1]
      THEN [acc EXCEPT !.alternate_items = Append(acc.alternate_items, item)]
      ELSE IF room = {} THEN [acc EXCEPT !.panic = TRUE]
      ELSE LET c == CHOOSE c \in room : TRUE
           IN  [acc EXCEPT !.tab = set_kv(acc.tab, c[1], c[2], item)]

RehashPass1(old_hp, old) ==
  LET start == [tab |-> BucketContainer(old_hp + 1), alternate_items |-> <<>>, panic |-> FALSE]
      last  == hashsize(old_hp) * SLOT_PER_BUCKET
      after[n \in 0 .. last] ==
        IF n = 0 THEN start ELSE rehash_move(old_hp, old, after[n - 1], Positions(old_hp)[n])
  IN  after[last]

\* Mutant: an item that finds no room is dropped instead of displacing others.
RehashDropping(old_hp, old) ==
  LET pass1 == RehashPass1(old_hp, old)
      Place(acc, item) ==
        LET room == free_cell(acc.tab, Bucket1(old_hp + 1, item.key),
                                       Bucket2(old_hp + 1, item.key))
        IN  IF room = {} THEN acc
            ELSE LET c == CHOOSE c \in room : TRUE
                 IN  [acc EXCEPT !.tab = set_kv(acc.tab, c[1], c[2], item)]
  IN  FoldLeft(Place, pass1, pass1.alternate_items)

rehash(old_hp, old) ==
  LET pass1 == RehashPass1(old_hp, old)
      aside == pass1.alternate_items
      after[n \in 0 .. Len(aside)] ==
        IF n = 0 THEN pass1 ELSE rehash_place_item(old_hp + 1, after[n - 1], aside[n])
  IN  after[Len(aside)]
-----------------------------------------------------------------------------
(***************************************************************************)
(* What a lookup relies on: each item is in a bucket of its key, and no    *)
(* key is in two cells.                                                    *)
(***************************************************************************)
HomesOf(hp, k) == {Bucket1(hp, k), Bucket2(hp, k)}

AllHome(tab, hp) ==
  \A b \in DOMAIN tab, s \in Slot : occupied(tab, b, s) => b \in HomesOf(hp, tab[b][s].key)

HasKey(tab, k) == \E b \in DOMAIN tab : KeySlots(tab, b, k) # {}

KeysUnique(tab) ==
  \A b, c \in DOMAIN tab, r, s \in Slot :
    occupied(tab, b, r) /\ occupied(tab, c, s) /\ tab[b][r].key = tab[c][s].key
      => b = c /\ r = s

Legal(hp, tab) == AllHome(tab, hp) /\ KeysUnique(tab)
=============================================================================

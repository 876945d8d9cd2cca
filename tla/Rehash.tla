-------------------------------- MODULE Rehash --------------------------------
(***************************************************************************)
(* cuckoo_fast_double's copying of one container into the next, on its     *)
(* own: whatever legal table is doubled, what becomes of its items?  The   *)
(* rest of the map is replaced by the most general sequential client: it   *)
(* puts an absent item in any free slot of its key's two buckets and takes *)
(* items out, so that every table an insert, a displacement or a remove    *)
(* can leave is doubled.                                                   *)
(***************************************************************************)
EXTENDS CuckooTable

CONSTANTS
  InitHashpower,
  MaxHashpower     \* no doubling beyond (bounds the model)

ASSUME HashpowerAssumption ==
  InitHashpower \in Nat /\ MaxHashpower \in Nat

VARIABLES
  hashpower, buckets,
  panicked          \* a rehash has panicked

rehashVars == <<hashpower, buckets, panicked>>

Present == {i.key : i \in ItemsOf(buckets)}

Init ==
  /\ hashpower = InitHashpower
  /\ buckets = BucketContainer(InitHashpower)
  /\ panicked = FALSE

Place ==
  /\ \E item \in Item, s \in Slot :
       /\ item.key \notin Present
       /\ \E b \in {Bucket1(hashpower, item.key), Bucket2(hashpower, item.key)} :
            /\ ~occupied(buckets, b, s)
            /\ buckets' = set_kv(buckets, b, s, item)
  /\ UNCHANGED <<hashpower, panicked>>

Erase ==
  /\ \E b \in DOMAIN buckets, s \in Slot :
       occupied(buckets, b, s) /\ buckets' = erase_kv(buckets, b, s)
  /\ UNCHANGED <<hashpower, panicked>>

cuckoo_fast_double ==
  /\ hashpower < MaxHashpower
  /\ LET result == rehash(hashpower, buckets) IN
       buckets' = result.tab /\ panicked' = result.panic
  /\ hashpower' = hashpower + 1

Next == ~panicked /\ (Place \/ Erase \/ cuckoo_fast_double)

Spec == Init /\ [][Next]_rehashVars

-----------------------------------------------------------------------------
Holds(tab, items) ==
  /\ ItemsOf(tab) = items
  /\ Cardinality({c \in (DOMAIN tab) \X Slot : occupied(tab, c[1], c[2])}) = Cardinality(items)

\* Doubling moves every item and makes none up, each to one of the two
\* buckets of its key in the new table, unless the rehash panics.
DoubleKeepsItems ==
  [][hashpower' # hashpower /\ ~panicked' =>
       Holds(buckets', ItemsOf(buckets)) /\ AllHome(buckets', hashpower')]_rehashVars

\* Why pass 1 goes first: the items of one primary bucket are spread over
\* two new ones that nothing else fills, so each goes to its new primary
\* bucket and the first panic! is unreachable.
PrimaryPassHasRoom ==
  LET pass1 == RehashPass1(hashpower, buckets) IN
  /\ ~pass1.panic
  /\ \A b \in DOMAIN pass1.tab, s \in Slot :
       occupied(pass1.tab, b, s) => b = Bucket1(hashpower + 1, pass1.tab[b][s].key)

\* The search of rehash_place_item is complete for its depth: it places an
\* item exactly when one of the buckets within MAX_BFS_PATH_LEN - 1 moves
\* has a free slot, and shifting the path loses no item and moves each to
\* its other bucket.
PlaceItemExact ==
  \A item \in Item : item.key \notin Present =>
    LET i1     == Bucket1(hashpower, item.key)
        i2     == Bucket2(hashpower, item.key)
        placed == rehash_place_item(hashpower,
                    [tab |-> buckets, alternate_items |-> <<>>, panic |-> FALSE], item)
        room   == {b \in Reachable(hashpower, buckets, MAX_BFS_PATH_LEN - 1, {i1, i2}) : FreeSlots(buckets, b) # {}}
    IN  /\ placed.panic <=> room = {}
        /\ ~placed.panic => /\ Holds(placed.tab, ItemsOf(buckets) \cup {item})
                            /\ AllHome(placed.tab, hashpower)
=============================================================================

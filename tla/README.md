# A verification of the concurrent cuckoo hash map

TLA+ models of the map in `src/src/`, TLC runs over small instances of them, and
TLAPS proofs, for every size, of what its locks, its index arithmetic and its
lock discipline guarantee, of where its items are and how they are counted, and
of what a rehash computes.  `PROJECT.json` says which lines each definition
stands for, and lists the hazards the properties are aimed at.

## 1. The system

The map is a bucketised cuckoo hash table after libcuckoo.  A key has two
buckets, `i1 = index_hash(hp, hash)` and `i2 = alt_index(hp, partial, i1)`, and
sits in a slot of one of them.  `2^hp` buckets share at most `MAX_NUM_LOCKS`
striped spinlocks: bucket `b` belongs to stripe `b mod locks.len()`.  Lookups
first read without locks and validate with version counters.

| part | source | state | operations |
|---|---|---|---|
| striped locks and guards | `lock.rs` | per stripe: lock word, version, element counter, `is_migrated` | `lock`, `unlock`, the two version increments; construction and destruction of the read and write guards over two buckets and over all locks |
| index arithmetic | `hash.rs`, `config.rs` | none | `hashsize`, `index_hash`, `alt_index`, `reserve_calc`, `lock_ind_for` |
| bucket container | `bucket.rs` | slots: empty, or key, value and partial | `occupied`, `find_empty_slot`, `set_kv`, `erase_kv`, `clear` |
| concurrent map | `map.rs` | container, `resize_counter`, `maximum_hashpower`, `minimum_load_factor` | `get`, `contains_key`, `get_key_value`, `insert`, `remove`, `clear`, `len`, `is_empty`, the two settings; within `insert`, the search for a cuckoo path, displacement along it, and doubling |
| rehash | `map.rs`, `cuckoo_fast_double` | the old and the new container | two passes; a breadth-first search when both buckets are full |
| iterators | `iter.rs` | a guard over all locks and a position | `iter`, `keys`, `values`, `into_iter` |
| lazy rehashing | `map.rs` | `is_migrated`, `old_buckets` | dead code: `is_migrated` starts true and nothing stores false |
| wrappers, errors | `lib.rs`, `error.rs` | none | `Clone`, `FromIterator`, `Extend`, `Debug`; the errors of `insert` |
| demos, tests | `demo/`, `tests/` | none | clients |

How the parts interact: every call of the map runs in the caller's thread.
`get` and `contains_key` read `hashpower`, `resize_counter` and the versions,
then slots, then versions and counter again; after three attempts they lock.
Updates compute their two buckets, lock the two stripes, and check
`resize_counter` again.  An insert without room drops its locks, searches for a
path in the live table with none, moves items one hop at a time under the two
stripes of each hop, and takes its own two stripes again.  If there is no path,
it takes all locks and doubles the container; the locks stay.  An iterator holds
a read guard on every stripe while the caller's loop runs, and the loop may call
the map again.  `clone` iterates over one map and inserts into another.

What is hard about it: reads without locks against writers that are in the
middle of something; indices computed under one size and used under another; a
path that is stale by the time it is walked; retry loops without bounds; the
same-stripe case of every two-bucket guard; a rehash that fails half way.

What makes each part correct:

- locks: a stripe has one owner, a version is odd exactly while it is written
  under, and no set of threads waits in a circle;
- arithmetic: the alternate of the alternate is the bucket itself, and doubling
  never moves a bucket to another stripe;
- iterators: what an iteration yields is what the table holds when it ends, and a
  lookup from its body does not wait for the iterator's own lock;
- rehash: no item is lost, made up or put where no lookup looks;
- map: every call looks as if it took effect at one instant, each slot is
  written under its own stripe, the counters sum to the number of items, and
  every call ends.

## 2. The modules

    BucketIndex --- Doubling                      hash.rs
        |
    CuckooTable --- Rehash --- MCRehash           bucket.rs, rehash in map.rs
        |
    CuckooMap --- StripedLocks                    map.rs, iter.rs over lock.rs
        |    |       |
        |    |    StripedGuards                   the guards stripe by stripe, for any client
        |    |
        |    +-- CuckooMapInv                     what holds of a thread at each label
        |          |
        |        CuckooMapHome                    where the items are
        |          |
        |        CuckooMapBody                    lookups in the body of a loop
        |          |
        |        CuckooMapItems                   how the items are counted
        |
        +-- CuckooMapClone                        clone in lib.rs, over the map
        |
    CuckooMapSequential --- (INSTANCE) AtomicMap  the promise, and its refinement
        |                       |                 by one caller and by many
    CuckooMapAtomic ------------+
        |
    MCCuckooMap, MCCuckooMapAtomic,
    MCCuckooMapClone                              instances of the map

    ReadOrdering                                  one lookup and one hop under
                                                  the orderings of lock.rs

The proofs are in modules of their own, each over the module it is about and
the proofs before it:

    BucketIndexProofs --- DoublingProofs
        |
    CuckooTableProofs --- RehashProofs            RehashInv; what a whole rehash computes
            \
             \            StripedLocksProofs
              \           /
               CuckooMapInvProofs                 the locks' theorems in the map; MapInv,
                       |                          action by action
               CuckooMapHomeProofs                HomeInv and then BodyInv, action by action
                       |
               CuckooMapItemsProofs               ItemsInv, action by action

**StripedLocks.**  `locked`, `version`, and a `guard` per thread: its kind, the
stripes it wants, has locked and has made odd, and the phase of its life
(`lock`, `bump`, `held`, `unbump`, `unlock`).  One step is one access to a
shared word: `AcquireNext` is a successful compare-and-swap, `BumpNext` and
`UnbumpNext` are one `fetch_add`, `ReleaseNext` is one store.  A failed
compare-and-swap changes nothing and is a stutter.  Two buckets under one
stripe want a set of one: that is `lock2_idx = None`.  `LocksNext` is the most
general client; `CuckooMap` uses the same guards for its own calls.

**StripedGuards.**  With sets, a stripe cannot be locked or bumped twice.  Here the
constructors and destructors go through `lock1_idx` and `lock2_idx` (`Pair`), or
through the array, in the order of `lock.rs`, and could; the sets are kept as
history.  `ImplementsStripedLocks` says that every step is one of `StripedLocks`.

**BucketIndex, Doubling.**  The arithmetic, with masks as remainders and the
exclusive or bit by bit.  `alt_index` keeps only the low 16 bits of the 64-bit
constant, which determine the result for `hp <= 16`.  The bits are recursive
functions, so that they can be proved about.  `Doubling` follows one key through
`with_capacity_and_hasher` and every doubling after it.

**CuckooTable, Rehash.**  A container is a function from buckets to slots to
cells.  The two passes of `cuckoo_fast_double` and `rehash_place_item` with its
queue, visited set and backward shift are recursive functions over positions.
`Rehash`
doubles any table that inserts, displacements and removals can leave.

**CuckooMap.**  One label `pc[t]` for each point where a thread touches memory
that others may touch at the same time: an atomic load, an unlocked slot read,
a slot write, a counter write.  Labels inside a critical section run when the
thread's guard is held, the others when it has none, and the guard's own steps
run in between.  Local variables are the record `loc[t]`.  A hop of
`cuckoopath_move` is two writes (`move`, `move_set`), an insert or remove a slot
write and a counter write.  `clear` empties one slot a step and then one counter
a step.  A doubling replaces the container by an empty one (`resize`,
`resize_load`), copies one item a step in each of the two passes (`rehash_one`,
`rehash_two`) and then counts itself (`resize_count`), so that optimistic
readers and path searches, which hold no lock, meet half-filled tables.  The
displacement that `rehash_place_item` may need for an item is one step.  The two
path searches look at a slot twice, `occupied` and then its partial or key
(`search_slot`, `search_partial`; `path_occupied`, `path_key`), through a reference
they took at the first look.  A doubling leaves that reference on the container it
copies from, and then on one that is gone, of which `Reads` allows any content.  The
settings are variables; `set_minimum_load_factor` panics outside of 0 to 100%, as
its `assert!` does.  `is_migrated` is always true, so `maybe_rehash_lock` is a
no-op.

An iteration yields one bucket a step.  The caller may leave it early
(`iter_drop`), or call the map from the body of the loop (`iter_body`,
`body_return`); `outer[t]` keeps the iteration meanwhile.  A thread has one
guard in the model, so a body call that needs a lock never gets on, as in the
code, where it spins on a stripe of its own thread.  A panic in the body, that of
the setter's `assert!`, unwinds the loop and drops the iterator's guard
(`Unwind`).

`loc[t].old` is the old container during a rehash, as in the code.  During a
`clear` it is a history variable: what the map still stands for until the last
slot is empty.

**CuckooMapInv.**  `MapInv`, the inductive invariant of the map: for each thread
and label, the guard it has, and what its indices, its path and its copies of
shared values still say about the table.  It adds no variable and no step.

**CuckooMapHome.**  `HomeInv`: each item is in a bucket of its key and each key in
one slot, with what a rehash has put aside, what a hop carries and the slot that
displacement has freed.  `NoStaleIndices` is its condition: no call enters its
critical section with indices of an earlier size, and no insert starts to
displace from such.

**CuckooMapBody.**  `BodyInv`: nothing that a lookup in the body of a loop has read
changes until it answers.

**CuckooMapItems.**  `ItemsInv`: the counters add up to the items, with what the
calls in progress owe them (`CountersAgree`), and each item of a container that is
being replaced or emptied is in somebody's hands.  Its condition, `LosesNothing`,
is `NoStaleIndices`, that a hop sets its item in an empty slot (`HopsIntoRoom`), and
that a rehash finds room for each item it comes to (`RehashFindsRoom`).

**AtomicMap, CuckooMapSequential, CuckooMapAtomic.**  `AtomicMap` is a dictionary
on which each call takes effect in one step between `Invoke` and `Return`.  A
lookup may answer any value its key has had since it was invoked, which `seen`
records as a history variable.  `len` and `is_empty` must answer a size the
dictionary has had since the invocation, unless an update overlapped the call:
then any number will do, since they add up the counters without a lock and
nothing in the code says more.  An iteration collects exactly the entries, one
that is left early a part of them.  An insert may fail with either error at any
time, and has then changed nothing.  The refinement mapping takes the dictionary
from the slots, counting in the item that a hop carries and the old container
during a rehash; a call is done from its slot write or, for a lookup, from its
validation.

**CuckooMapClone.**  `clone` after any calls: a table of default size with the
default settings, into which the items are inserted in the order of the
iterator, each insert with every step it has in `CuckooMap`, its error
discarded.  `FromIterator` and `Extend` are the same loop over items of the
caller's.

**ReadOrdering.**  `CuckooMap` is sequentially consistent.  Here one optimistic
lookup meets one hop, and an access may take effect before an earlier one of its
thread unless the orderings in the source forbid it: an `Acquire` access stays
before what follows it, a `Release` access after what precedes it, and accesses
of one location keep their order.

## 3. What TLC checks

Mutants: for each property, `PROJECT.json` names a plausible bug (an operator
commented "Mutant") that the same run finds.

| run | instance | what it shows |
|---|---|---|
| `locks` | 3 threads, any two buckets of 2 stripes, one write guard per stripe | each stripe of a guard is locked, bumped, unbumped and released once, in the order of `StripedLocks`, also where both buckets share one; exclusion, parity of versions, guards that are complete once held, ascending acquisition, no deadlock, versions moving by one under their lock; and, under fairness, that some guard completes while some constructor spins |
| `doubling` | six capacities, 12 hashes, 10 partials, hashpower up to 8 | `alt_index` is an involution (the "critical property" of its comment), also where both buckets coincide; a bucket stays under its stripe at every later size; a doubling splits buckets and never merges two; the capacity asked for is there |
| `rehash` | 6 crowded keys, one slot a bucket, hashpower 2 to 4 | a doubling keeps every item, once, at home; pass 1 always finds room in the new primary bucket, so the first `panic!` is unreachable; the search of pass 2 finds room exactly when it exists within its depth |
| `sequential` | one thread, any five calls with four keys from hashpower 1 up, among them changes of both settings, `clear`, `len`, `is_empty` and an iteration with a lookup in its body | the map is a dictionary; every item is in a bucket of its key; an insert doubles the table, or is refused, only when no sequence of moves within the depth frees a slot for it.  Reaches displacements over one and two hops, doublings, both errors, and the panic of the setter |
| `atomic` | two buckets of two slots that never double; three scenarios (below) | calls take effect atomically, no key is in two slots, the counters agree with the items, an iterator sees the table as it is when it ends, and a lookup from its body is answered from the table without a lock; the inductive invariant behind that (`BodyInv`) holds |
| `contended` | two threads that displace and double; five scenarios (below) | each size is doubled once, however many inserts find it full (`OneDoublingPerSize`); every slot, counter and container is written under its own stripes, also by a thread whose indices are stale; a hop keeps an item in its own two buckets although the path was read without locks; no step makes the counters differ from the items, except by the three ways that `LosesNothing` names; the inductive invariants behind this (`MapInv`, `HomeInv` with `KeptHome`, `ItemsInv` with `KeptCounted`) hold; under fairness every call returns or panics |

The initial state picks one of the scenarios of the run's instance (`scenario`):
a preloaded table (`Preload[s]`), and for each thread the set that it chooses its
n-th call from (`Script[s][t][n]`).

- `atomic`: in *WriterReader* one thread inserts and removes so that items are
  displaced, while another makes two lookups; in *Writers* two threads write,
  `clear` among their calls, and a third makes a `get`, an iteration or a `len`;
  in *Iterating* a loop with lookups in its body, which may be left early, runs
  against a displacing insert or a remove and a `clear`.
- `contended`: in *Displacing* both threads insert and remove in a table of single
  slots, with displacements, path searches and doublings; in *Retrying* one of
  them inserts and looks up while the other one inserts and overwrites; in
  *Growing* an insert begins before the other thread's insert doubles the table
  and ends after it; in *Emptying* a `clear` meets an insert that displaces or
  doubles; in *Refusing* an insert displaces an item, loses the slot it has freed,
  and is refused the doubling by a limit that the other thread has set meanwhile.

`atomic` is on a table of fixed size, and no second writer fills the slots of a
path that is being walked, since otherwise the map is not atomic.  The next runs
show what the code does against what its docs say, each with the shortest
counterexample of one property.

| run | property | what the code does |
|---|---|---|
| `path_unwrap` | `NoPanic` | `cuckoopath_search` asks `occupied(slot)` and then unwraps `key(slot)`, both without locks.  Another thread empties the slot in between, and the insert panics (`map.rs:841-848`).  `demo/concurrent_operations.rs:140` counts on concurrent reads and writes |
| `slot_overwritten` | `NothingLost` | the last slot of a path was empty for `slot_search`, and is filled before `cuckoopath_search` reads it again; that read records it as occupied, `cuckoopath_move` finds it as recorded, and `set_kv` overwrites the item (`map.rs:943-963`).  A key is lost that nobody removed |
| `stale_write` | `ItemsFindable` | the snapshot loads `hashpower` before `resize_counter` (`map.rs:525-526`).  A doubling in between leaves indices of the old size with a counter that will compare equal, and the item goes to a bucket where no lookup looks |
| `stale_read` | `Linearizable` | the same order in `try_get_optimistic` (`map.rs:212-213`): a lookup answers "absent" for a key that is in the map |
| `read_ordering` | `AcceptedMeansSeen` | `increment_version_start` is a `Release` increment, which does not hold back the slot writes after it, and the `Acquire` load that closes a lookup does not hold back the slot reads before it.  Both versions are even and unchanged, and the item was in neither bucket when the lookup read it (`lock.rs:32-33` promises consistent data).  With the accesses in program order the property holds |
| `clone_drops` | `DeepCopy` | a map that doubled under a lowered `minimum_load_factor` is cloned into one with the default: the copy refuses an item with `LoadFactorTooLow`, and `clone` discards the error (`lib.rs:55-57`; `README.md:88` says "Deep copy") |

`ItemsFindable` has a second cause besides the one that `stale_write` shows:
`i1` and `i2` of the first guard outlive it, and `run_cuckoo` searches from them
after reading `hashpower` again (`map.rs:629`).

Two comments of the source are wrong in a way the model makes plain and no run
is spent on.  `lock.rs:18` calls `elem_counter` the count of elements under its
lock, but displacement and rehash move items between stripes and leave the
counters alone; only the sum counts (`CountersAgree`).  `iter.rs:11-12` says
iteration blocks all other operations, but it takes read guards, which leave
the versions even, so optimistic lookups and `len` go on.

### Bounds, and why they are enough

- *Threads and scripts.*  Two threads suffice for each hazard listed except
  that of an observer of two writers, for which `atomic` has three.  The scripts
  are chosen so that displacement, doubling and retries occur: each action fires
  in some passing run.
- *Table.*  Two buckets of one slot are the smallest table in which an insert
  displaces; depth 3 in `sequential` gives paths of two hops.  `atomic` has two
  slots a bucket, so that a bucket holds items of different keys.  Hashes are
  chosen so that the keys' buckets coincide, differ, and part on doubling.
- *Load factor.*  A table of two or four slots whose search for room failed is
  never as empty as the default of 5%, which takes a large table with a few
  crowded buckets.  `sequential` and `clone_drops` start from 60% (`MinimumLoad`)
  instead, so that the refusal occurs.
- *Stripes.*  Two: buckets that share one and buckets that do not both occur,
  and after a doubling two buckets share each stripe.
- *Versions.*  `MaxVersion` bounds the clients of `StripedGuards` and
  `StripedLocks` only.  In the map the scripts bound everything.
- *Retries.*  Unbounded in the code and in the model.
- *Depth.*  `MAX_BFS_PATH_LEN` is 2 or 3 instead of 5, and `MAX_CUCKOO_COUNT` is
  computed from it as in `config.rs`, so the queue's bound bites the same way.

### Fairness

`FairSpec` and `GuardsFairSpec` assume that each thread, as long as its next step
stays possible, takes it: weak fairness of the thread, which any scheduler with
time slices gives.  Acquiring a spinlock is only weakly fair, as nothing queues
the contenders; a thread that keeps locking and unlocking could starve another,
so `SomeGuardCompletes` promises progress to some thread, not to each, and
`EveryCallEnds` is stated for threads that make finitely many calls.

## 4. What is proved

TLAPS checks every proof to the last leaf, for any threads, keys, hashes,
scripts, slots per bucket and sizes that satisfy the assumptions: at least one
stripe (`NumLocksAssumption`), a number of stripes that divides the buckets
(`StripesAssumption`: both are powers of two in the code), a hash per key that
determines its partial (`HashKeyAssumption`), finitely many threads
(`ThreadsAssumption`, where their debts to the counters are summed), at least
one slot and one level of search (`TableAssumption`), a `None` that is neither a
key nor an item (`TableAssumption`) nor the answer of a path search
(`NoneAssumption`), settings of their types (`SettingsAssumption`), scripts that
hold calls (`ScriptAssumption`), and an initial table with each key once, in one
of its buckets (`PreloadAssumption`).  TLC evaluates all of them on the
instances.

### The locks

The invariants are not inductive alone: exclusion, for one, needs that a lock
word is set exactly while somebody has it, and deadlock freedom needs the order
of acquisition.  The inductive invariant `IInv` has the types, what each phase
implies for a guard's three sets (`GuardOK`), `Disjoint`, `LockedByHolder`,
`AscendingWait`, and `OddWhileWriting`.  There is a lemma for each action, and from
`IInv` follow `TypeCorrect`, `MutualExclusion`, `OddIffWriting`,
`HeldMeansComplete`, `OrderedAcquisition`, `VersionsUnderLock` and
`DeadlockFreedom`.  The last argues by climbing: if all active threads were
blocked, the one that waits for the highest stripe waits for a stripe whose
owner waits for a higher one (`NoEndlessClimb`).

### The index arithmetic

`CapacityIsReserved`, `AlternateOfAlternate`, `StaleIndexNamesStripe` and
`DoublingSplits` state the four properties of `doubling` for every hash, capacity
and size up to the model's 16 bits.  The exclusive or and the powers of two are
functions that recurse on the number of bits; what they compute follows by
induction, put as the least element of the set of counterexamples, since the
library's induction theorems cannot be used with the installed provers.

### A whole rehash: `RehashInv`

`Rehash` doubles every table that a sequential client can make.  `RehashInv` is
that the table is a container of `2^hashpower` buckets with each key once and at
home, as long as no rehash has panicked (`RehashInvHolds`).  From it follow, for
every number of slots, size, hash and depth of search:

- `PrimaryPassAlwaysHasRoom`: pass 1 never panics.  After `n` slots of the old
  container an occupied slot of the new one is in its item's new primary bucket,
  and the slot with the same number in the old primary bucket has been passed
  (`Primary`, `Roomy`).  So the slot with the number of the next one is free: an old
  bucket has as many slots as each of the two it is split into.
- `DoublingKeepsItems`: the items of the passed slots are in the new container or
  aside (`Kept`), and those aside are of different keys, none of them in the
  container (`AsideOnly`), from slot to slot of pass 1 and then from item to item of
  pass 2 (`Placed`), displacements included.
- `PlacingIsExact`: the breadth-first search of `rehash_place_item` finds room
  exactly when a sequence of at most `MAX_BFS_PATH_LEN - 1` moves makes some, and
  the shift along its path loses no item.  The search is compared with
  `Reachable`, whose definition has no queue, visited set or order: at depth `d`
  everything within `d` moves has been visited, and the neighbours of those buckets
  of that depth that have been looked into (`AtLevel`, `Looking`); if it ends in
  vain, everything within reach is full (`InVain`).  That `hashsize + 1` steps are
  enough for it follows by counting what is visited and what is queued
  (`Counted`).

### The map: `MapInv`

Every action of `CuckooMap` is a `LockStep`: it leaves the lock variables alone or
is one step of a guard's life, also while the body of an iteration calls the
map.  So `IInv` is an invariant of the map too, and `MapExclusion`, `MapVersions`
and `MapDeadlockFreedom` follow.

What a thread writes, it writes relying on what it read earlier.  `MapInv` says
at each label what is left of that, in the form of seven parts:

- `TypeFits`, `CallFits`: the types of its variables, and that it is at a label of
  the operation it was called for;
- `GuardFits`: the kind and the stripes of its guard, from the first lock to the
  last unlock.  In the body of an iteration that is the iterator's;
- `IndexFits`: its indices are those of its key at some size from the initial one
  to the current one, not more: an insert may have slept through a doubling;
- `WalkFits`: its path consists of buckets of the current or a smaller table, and
  two records of which the first holds an item are alternates of each other, as
  far as the hops have not moved that item yet;
- `HoldFits`: what its complete guard lets it rely on, such as the size during a
  rehash, and the items that an iterator has passed;
- `OuterFits`: the same for the iteration in whose body it is.

`ThreadsFit` proves it inductive, together with `IInv`.  The step of one thread
can disturb another's part only by changing the table; where it does, the two
hold different stripes, or one holds all of them.  Indices of an earlier size
are harmless to the locking since such an index names the stripe of the bucket
it has become (the lemma behind `StaleIndexNamesStripe`).  From it follow

- `TypesHold`: the table has `2^hashpower` buckets of items at every instant, also
  in the middle of a rehash;
- `WritesAreLocked`: each write of a slot, of a counter or of the container is under
  the writer's own stripes, with odd versions;
- `IteratorsSeeTheTable`: what an iterator has yielded is what is in the buckets it
  has passed;
- `HopsKeepItemsHome`: a hop puts its item into the other bucket of its key although
  the path was read without locks.

### Where the items are: `HomeInv`

`ItemsFindable` and `NoDuplicateKeys` are false in general: `stale_write` shows an
insert that misplaces an item.  The theorems say that this is the only way.
`HomeInv` is the two properties (`Legal`), with what is needed while an item is in
no slot: the items that a rehash has put aside or has not copied are of
different keys, none of which is in the new container (`RehashApart`); the item
that a hop carries is in no slot and comes from one of its buckets
(`CarryApart`); the slot that displacement freed is a slot of the key at the size
that the insert compares with the current one (`SpotFresh`).

- `HomeIsKept`: every step keeps `HomeInv`, unless some thread is about to use
  indices of an earlier size (`NoStaleIndices`).
- `FreshIndicesSuffice`: a behaviour in which no thread ever is has every item
  where lookups look, and each key once.
- `FixedSizeSuffices`: so has one in which the table keeps its size, with any number
  of threads.
- `OneCallerSuffices`: so has one of a single thread, whatever it calls.

The last two discharge `NoStaleIndices`, so the condition is not an empty one.

`DoublingsAreCounted` needs no condition: two inserts may find the same table full,
but the second one to get all the locks sees that the size is not the one it
searched (`map.rs:983`).  So `OneDoublingPerSize` holds whatever the indices: each
counted doubling has raised `hashpower` by one, and so has one that is still to be
counted, of which there is at most one (`OneUncounted`).

On `rehash_place_item` the proofs use that each record of its path is in the other
bucket of the item that moves there (`PlaceItemLegal`, `MoveLegal`), again by
induction over the queue and the path.

### How the items are counted: `ItemsInv`

An insert or remove writes its slot and its counter in two steps, hops and
doublings move items between stripes without touching a counter, and `clear`
empties the slots before the counters.  `CountersAgree` says what is true all the
same at every instant (but between the two halves of a `clear`): the sum of all
counters, plus one for each insert and less one for each remove that is between
its two writes, is the number of items, those that hops carry and rehashes have
still to copy included.

It is false in general: `slot_overwritten` loses an item and not its count.  The
theorems say what the losses can be.

- `CountsAreKept`: a step under `LosesNothing` keeps `ItemsInv`.
- `LosingNothingSuffices`: a behaviour under `LosesNothing` has `CountersAgree`.

The items are those in the table, those the stepping thread has away from it
(`Away`) and those of the others (`Elsewhere`).  A step leaves the last as they are;
and since whoever has an item away holds its two stripes (or all), none of them
has the key the thread works on (`ElsewhereLacks`).  So an insert adds exactly one
item, an overwriting one exchanges one, a remove takes one away, and all else
keeps the set.  In a rehash the items of the old container are those in the new
one, aside, or still to come (`Moving`), whatever the order they are placed in.  The
end of a `clear` needs that nobody else has an item away or owes a count then
(`WholeAlone`).  `SumFunction` folds over a set in the order of a `CHOOSE`; that a
sum changes by what one of its terms changes by follows by induction over the
finite sets, put as a set of subsets closed under adding (`SubsetInduction`).

### Lookups from the body of a loop: `BodyInv`

A lookup that fell back to the locks would wait for its own thread.  `BodyInv`
says that none does: the stripes keep the writers out and the versions even, so
each value a lookup has read is still there when it compares, and the slots it
has passed still do not have its key.  Its parts are `BodyCalls`, `OldFits` (an old
container is only kept under all stripes) and `Undisturbed`.

- `BodiesUndisturbed`: `BodyInv` holds, whatever the other threads do.
- `BodyLookupsAnswered`: with `NoStaleIndices`, the answer is what the map contains.

Both assume `UnlockedBodies`: bodies make lookups, `len`, `is_empty` and settings.
Any other call waits for its own thread, by the design of the guard.

### Model-checked only

- Liveness (`SomeGuardCompletes`, `EveryCallEnds`): fairness and ENABLED are out of
  the prover's reach.
- `ImplementsStripedLocks`: the theorems about the locks are those of
  `StripedLocks`; that the guards' loops do what it says is checked on two stripes,
  where a guard has one stripe, two, or all.
- `Linearizable` and `ActsAsDictionary`: false without conditions (`stale_read`,
  `slot_overwritten`), and their conditional form needs the promise's step for
  each action.  `MapInv`, `HomeInv` and `ItemsInv` are the invariants such a proof
  would start from.
- That the code keeps to `HopsIntoRoom` and `RehashFindsRoom`: it does not
  (`slot_overwritten`, and the `panic!` of a rehash without room), so both stay
  conditions.  `FixedSizeSuffices` and `OneCallerSuffices` discharge
  `NoStaleIndices` for maps that keep their size or have one caller.
- `ResizesOnlyWhenCrowded`: that the search of `slot_search`, spread over many
  steps and coded into pathcodes, misses no sequence of moves.  The same of the
  search within `rehash_place_item` is proved (`PlacingIsExact`).

## 5. What is not modelled

- Lazy rehashing (`maybe_rehash_lock` past its first test, `move_bucket`,
  `old_buckets`), `try_lock`, `TwoBucketGuard::unlock`, `TableFull`: nothing
  reaches them.
- Torn values and freed memory.  Slots are single words.  A slot that is read
  while it is written, and an old container that a reader still looks into when
  the end of a doubling drops it, have no outcome in Rust that a model could show.
  Path searches read anything there (`Reads`); an optimistic lookup reads the new
  container at once (its versions no longer compare equal then).  `ReadOrdering`
  shows the weaker fact that the versions do not order whole-word accesses either.
- Weak memory beyond one lookup and one hop.  The retry loops, the resize
  counter and the displacement search run with sequentially consistent atomics.
- Values that no property tells apart: the folding of a hash into a partial (a
  key's hash and partial are data), the partial stored beside a key (always the
  key's own), the 16-bit width of `pathcode` (below `2 * 4^5`), the bit casts of
  `AtomicF64`, version and counter overflow.
- `capacity`, `load_factor`, `hashpower` and the getters of the settings are plain
  reads.  `IntoIter` owns the map and visits the positions of `iter` without a
  lock; `keys` and `values` wrap `iter`; `FromIterator` and `Extend` are the loop of
  `clone`; `Debug` formats.
- Calls from the body of an iteration that need a lock: they wait for their own
  thread, by the design of the guard (`iter.rs:117-118`), and the scripts make
  lookups and change settings only.
- What a thread does after a panic of its insert: it stops.

## 6. Plan

Done, in this order: the locks with their proofs; the table and the map over
them; `AtomicMap` and the refinement; the arithmetic and the rehash on their
own; the proofs that carry the locks' theorems to the map; `clear` and the rehash
item by item; the settings; iterations that are left early or call the map;
`clone`; the memory orderings; the proofs of the index arithmetic, of `MapInv`,
`HomeInv` and `BodyInv`; `RehashInv` and what a whole rehash computes; `ItemsInv`;
the guards stripe by stripe.

Next, to prove: the steps of the refinement of `AtomicMap`, one action at a time,
under `LosesNothing` and the absence of stale lookups.

To model, if the code changes: a variant that loads `resize_counter` before
`hashpower`, to see what remains of `stale_read` and `stale_write`.

------------------------------ MODULE CuckooMap ------------------------------
(***************************************************************************)
(* The concurrent map of map.rs, over the striped locks of lock.rs.  Each  *)
(* access to memory that another thread may touch at the same time is a    *)
(* step: an atomic load, a slot read outside the locks, a slot or counter  *)
(* written inside them.  What a thread does to memory that its locks       *)
(* protect is merged with its next visible write.                          *)
(*                                                                         *)
(* A thread is at a label pc[t].  Labels outside a critical section run    *)
(* with no guard, labels inside one with a held guard; in between, the     *)
(* guard's own steps run (GuardStep).                                      *)
(*                                                                         *)
(* Atomics are modelled as sequentially consistent and slots as single     *)
(* words.  is_migrated is always true (nothing stores false), so lazy      *)
(* rehashing never runs and maybe_rehash_lock returns at once.             *)
(***************************************************************************)
EXTENDS StripedLocks, CuckooTable

CONSTANTS
  InitHashpower,    \* hashpower of the container the map is created with
  InitMaximum,      \* maximum_hashpower when the calls start
  MinimumLoad,      \* minimum_load_factor then, in percent
  Preload,          \* Preload[s]: in scenario s, items inserted before the calls
  Script            \* Script[s][t][n]: the calls thread t may choose as its nth

\* There are at most as many locks as buckets, and both are powers of two.
ASSUME StripesAssumption ==
  InitHashpower \in Nat /\ hashsize(InitHashpower) % NumLocks = 0

ASSUME SettingsAssumption ==
  InitMaximum \in Nat /\ MinimumLoad \in 0 .. 100

(***************************************************************************)
(* The calls: of a lookup, of insert, of an operation without arguments,   *)
(* of a setter and of an iterator, whose body may make any of the others.  *)
(***************************************************************************)
BodyCall ==
  [op : {"get", "contains_key", "get_key_value", "remove"}, key : Key, value : {None}]
  \cup [op : {"insert"}, key : Key, value : Value]
  \cup [op : {"clear", "len", "is_empty"}, key : {None}, value : {None}]
  \cup [op : {"set_maximum_hashpower", "set_minimum_load_factor"}, key : {None}, value : Nat]

IterCall == [op : {"iter"}, key : {None}, value : SUBSET BodyCall]

ASSUME ScriptAssumption ==
  /\ \A s \in DOMAIN Script : \A t \in Thread : Script[s][t] \in Seq(SUBSET (BodyCall \cup IterCall))
  /\ \A s \in DOMAIN Script : Preload[s] \in Seq(Item)

VARIABLES
  buckets, hashpower,    \* the current BucketContainer
  resize_counter,
  elem_counter,          \* per stripe
  maximum_hashpower, minimum_load_factor,
  pc, call, ret,         \* where each thread is, its call, the result
  loc,                   \* its local variables
  outer,                 \* the iteration it is in the body of: one frame, or none
  calls,                 \* how many calls it has started
  scenario               \* index into Preload and Script, never changed

settings == <<maximum_hashpower, minimum_load_factor>>
tableVars == <<buckets, hashpower, resize_counter, elem_counter, settings>>
callVars == <<call, outer, calls, scenario>>
threadVars == <<callVars, ret>>
vars == <<lockVars, tableVars, threadVars, pc, loc>>

lock_ind(b) == lock_ind_for(b, NumLocks)

NoCall == [op |-> "none", key |-> None, value |-> None]

(***************************************************************************)
(* run_cuckoo's locals: the hashpower and resize counter it started from,  *)
(* slot_search's queue, and the path of records built from its answer.     *)
(* queue[1] is the bucket being scanned, offset the slots scanned in it    *)
(* (-1: resize_counter not yet checked), last the number of entries ever   *)
(* queued, seen the size of the container that the reference to a bucket   *)
(* points into, at the index cuckoopath_search or cuckoopath_move has      *)
(* reached.                                                                *)
(***************************************************************************)
NoWalk == [hp |-> 0, counter |-> 0, queue |-> <<>>, last |-> 0, offset |-> -1,
           seen |-> 0, path |-> <<>>, at |-> 0, carry |-> None]

NoLocals ==
  [hp |-> 0, counter |-> 0, i1 |-> 0, i2 |-> 0, then |-> "idle",
   tries |-> 0, v1 |-> 0, v2 |-> 0, same |-> TRUE, cur |-> 0, hit |-> None,
   hp0 |-> 0, cuckoo_hp |-> 0, spot |-> <<0, 0>>, old |-> None, aside |-> <<>>,
   walk |-> NoWalk]

MAX_CUCKOO_COUNT ==
  2 * MapThenSumSet(LAMBDA d : SLOT_PER_BUCKET ^ d, 0 .. MAX_BFS_PATH_LEN - 1)

-----------------------------------------------------------------------------
(***************************************************************************)
(* Control.  A step at a label runs when no guard of the thread is under   *)
(* construction or destruction.                                            *)
(***************************************************************************)
At(t, label) == pc[t] = label /\ guard[t].phase \in {"none", "held"}

InBody(t) == outer[t] # <<>>

Goto(t, label) == pc' = [pc EXCEPT ![t] = label]

Enter(t, kind, stripes, label) == new(t, kind, stripes) /\ Goto(t, label)

Leave(t, label) == drop(t) /\ Goto(t, label)

Jump(t, label) == Goto(t, label) /\ UNCHANGED lockVars

Answer(t, r) == ret' = [ret EXCEPT ![t] = r] /\ UNCHANGED callVars

Local(t, l) == loc' = [loc EXCEPT ![t] = l]

Ok(old)  == [kind |-> "Ok", value |-> old]
Err(why) == [kind |-> why, value |-> None]

TwoStripes(b1, b2) == {l \in Lock : l = lock_ind(b1) \/ l = lock_ind(b2)}

-----------------------------------------------------------------------------
(***************************************************************************)
(* Calls and returns.                                                      *)
(***************************************************************************)
EntryLabel(op) ==
  CASE op \in {"get", "contains_key"}          -> "read_hp"
    [] op \in {"get_key_value", "remove"}     -> "snapshot_hp"
    [] op = "insert"                          -> "insert_hp"
    [] op = "clear"                           -> "clear_lock"
    [] op = "iter"                            -> "iter_lock"
    [] op \in {"len", "is_empty"}             -> "len"
    [] op = "set_maximum_hashpower"           -> "set_maximum"
    [] op = "set_minimum_load_factor"         -> "set_minimum"

Start(t, c) ==
  /\ call' = [call EXCEPT ![t] = c]
  /\ Local(t, [NoLocals EXCEPT !.then = IF c.op = "get_key_value" THEN "find" ELSE c.op])
  /\ Jump(t, EntryLabel(c.op))

Calls(t) == Script[scenario][t]

Invoke(t) ==
  /\ At(t, "idle")
  /\ calls[t] < Len(Calls(t))
  /\ \E c \in Calls(t)[calls[t] + 1] : Start(t, c)
  /\ calls' = [calls EXCEPT ![t] = calls[t] + 1]
  /\ UNCHANGED <<tableVars, ret, outer, scenario>>

Return(t) ==
  /\ At(t, "return") /\ ~InBody(t)
  /\ call' = [call EXCEPT ![t] = NoCall]
  /\ ret' = [ret EXCEPT ![t] = Ok(None)]
  /\ Local(t, NoLocals)
  /\ Jump(t, "idle")
  /\ UNCHANGED <<tableVars, outer, calls, scenario>>

-----------------------------------------------------------------------------
(***************************************************************************)
(* snapshot_and_lock_two and snapshot_and_lock_two_write: both indices are *)
(* computed before the locks are taken, and the resize counter compared    *)
(* under them.  loc.then is the label that follows.                        *)
(***************************************************************************)
GuardKind(op) == IF op \in {"insert", "remove"} THEN "TwoBucketWriteGuard"
                 ELSE "TwoBucketGuard"

ReadHashpower(t, here, next) ==
  /\ At(t, here)
  /\ Local(t, [loc[t] EXCEPT !.hp = hashpower])
  /\ Jump(t, next)
  /\ UNCHANGED <<tableVars, threadVars>>

WithIndices(t) ==
  LET k == call[t].key IN
  [loc[t] EXCEPT !.counter = resize_counter,
                 !.i1 = Bucket1(loc[t].hp, k), !.i2 = Bucket2(loc[t].hp, k)]

snapshot_hp(t) == ReadHashpower(t, "snapshot_hp", "snapshot_counter")

snapshot_counter(t) ==
  /\ At(t, "snapshot_counter")
  /\ LET l == WithIndices(t) IN
       /\ Local(t, l)
       /\ Enter(t, GuardKind(call[t].op), TwoStripes(l.i1, l.i2), l.then)
  /\ UNCHANGED <<tableVars, threadVars>>

SnapshotLabels == {"find", "remove", "insert", "recheck"}

snapshot_retry(t) ==
  /\ \E label \in SnapshotLabels : At(t, label)
  /\ resize_counter # loc[t].counter
  /\ Leave(t, "snapshot_hp")
  /\ UNCHANGED <<tableVars, threadVars, loc>>

Locked(t, label) == At(t, label) /\ resize_counter = loc[t].counter

Found(t) == cuckoo_find(buckets, call[t].key, loc[t].i1, loc[t].i2)

\* What a lookup answers if it finds value x.
Hit(c, x) == IF c.op = "contains_key" THEN [kind |-> "Contains", value |-> x # None]
             ELSE Ok(x)

ValueAt(cells) ==
  IF cells = {} THEN None
  ELSE LET c == CHOOSE c \in cells : TRUE IN buckets[c[1]][c[2]].value

-----------------------------------------------------------------------------
(***************************************************************************)
(* get and contains_key: three optimistic attempts, then get_locked.       *)
(***************************************************************************)
read_hp(t) == ReadHashpower(t, "read_hp", "read_counter")

read_counter(t) ==
  /\ At(t, "read_counter")
  /\ Local(t, WithIndices(t))
  /\ Jump(t, "read_v1")
  /\ UNCHANGED <<tableVars, threadVars>>

TwoLocks(t) == lock_ind(loc[t].i1) # lock_ind(loc[t].i2)

Retry(t, l) ==
  LET fresh == [NoLocals EXCEPT !.tries = l.tries + 1, !.then = "find"] IN
  /\ Local(t, fresh)
  /\ Jump(t, IF fresh.tries < 3 THEN "read_hp" ELSE "snapshot_hp")

\* Mutant: does not look at the parity of the versions it reads.
StartWithoutParity(t, l) == Local(t, l) /\ Jump(t, "read_cells")

StartReading(t, l) ==
  IF l.v1 % 2 = 1 \/ l.v2 % 2 = 1 THEN Retry(t, l)
  ELSE Local(t, l) /\ Jump(t, "read_cells")

read_v1(t) ==
  /\ At(t, "read_v1")
  /\ LET v == version[lock_ind(loc[t].i1)]
         l == [loc[t] EXCEPT !.v1 = v, !.v2 = v]
     IN  IF TwoLocks(t) THEN Local(t, l) /\ Jump(t, "read_v2") ELSE StartReading(t, l)
  /\ UNCHANGED <<tableVars, threadVars>>

read_v2(t) ==
  /\ At(t, "read_v2")
  /\ StartReading(t, [loc[t] EXCEPT !.v2 = version[lock_ind(loc[t].i2)]])
  /\ UNCHANGED <<tableVars, threadVars>>

read_cells(t) ==
  /\ At(t, "read_cells")
  /\ LET n    == loc[t].cur
         b    == IF n < SLOT_PER_BUCKET THEN loc[t].i1 ELSE loc[t].i2
         cell == buckets[b][n % SLOT_PER_BUCKET]
         mine == cell # None /\ cell.key = call[t].key
     IN  /\ Local(t, [loc[t] EXCEPT !.cur = n + 1,
                                    !.hit = IF mine THEN cell.value ELSE None])
         /\ Jump(t, IF mine \/ n + 1 = 2 * SLOT_PER_BUCKET THEN "after_v1"
                    ELSE "read_cells")
  /\ UNCHANGED <<tableVars, threadVars>>

after_v1(t) ==
  /\ At(t, "after_v1")
  /\ Local(t, [loc[t] EXCEPT !.same = version[lock_ind(loc[t].i1)] = loc[t].v1])
  /\ Jump(t, IF TwoLocks(t) THEN "after_v2" ELSE "after_counter")
  /\ UNCHANGED <<tableVars, threadVars>>

after_v2(t) ==
  /\ At(t, "after_v2")
  /\ Local(t, [loc[t] EXCEPT !.same = loc[t].same
                                      /\ version[lock_ind(loc[t].i2)] = loc[t].v2])
  /\ Jump(t, "after_counter")
  /\ UNCHANGED <<tableVars, threadVars>>

after_counter(t) ==
  /\ At(t, "after_counter")
  /\ IF resize_counter = loc[t].counter /\ loc[t].same
     THEN Answer(t, Hit(call[t], loc[t].hit)) /\ Jump(t, "return") /\ UNCHANGED loc
     ELSE Retry(t, loc[t]) /\ UNCHANGED threadVars
  /\ UNCHANGED tableVars

\* get_locked, contains_key_locked and get_key_value.
find(t) ==
  /\ Locked(t, "find")
  /\ Answer(t, Hit(call[t], ValueAt(Found(t))))
  /\ Leave(t, "return")
  /\ UNCHANGED <<tableVars, loc>>

-----------------------------------------------------------------------------
(***************************************************************************)
(* remove                                                                  *)
(***************************************************************************)
Count(b, delta) ==
  elem_counter' = [elem_counter EXCEPT ![lock_ind(b)] = elem_counter[lock_ind(b)] + delta]

remove(t) ==
  /\ Locked(t, "remove")
  /\ Answer(t, Ok(ValueAt(Found(t))))
  /\ \/ \E c \in Found(t) :
          /\ buckets' = erase_kv(buckets, c[1], c[2])
          /\ Local(t, [loc[t] EXCEPT !.spot = c])
          /\ Jump(t, "remove_count")
     \/ /\ Found(t) = {}
        /\ Leave(t, "return")
        /\ UNCHANGED <<buckets, loc>>
  /\ UNCHANGED <<hashpower, resize_counter, elem_counter, settings>>

\* Mutant: forgets to count the removal.
RemoveUncounted(t) ==
  /\ At(t, "remove_count")
  /\ Leave(t, "return")
  /\ UNCHANGED <<tableVars, threadVars, loc>>

remove_count(t) ==
  /\ At(t, "remove_count")
  /\ Count(loc[t].spot[1], -1)
  /\ Leave(t, "return")
  /\ UNCHANGED <<buckets, hashpower, resize_counter, settings, threadVars, loc>>

-----------------------------------------------------------------------------
(***************************************************************************)
(* insert: cuckoo_insert_loop and cuckoo_insert.                           *)
(***************************************************************************)
insert_hp(t) ==
  /\ At(t, "insert_hp")
  /\ Local(t, [NoLocals EXCEPT !.hp0 = hashpower, !.then = "insert"])
  /\ Jump(t, "snapshot_hp")
  /\ UNCHANGED <<tableVars, threadVars>>

MyItem(t) == [key |-> call[t].key, value |-> call[t].value]

Put(t, c) ==
  /\ buckets' = set_kv(buckets, c[1], c[2], MyItem(t))
  /\ Local(t, [loc[t] EXCEPT !.spot = c])
  /\ Answer(t, Ok(None))
  /\ Jump(t, "insert_count")

insert(t) ==
  /\ Locked(t, "insert")
  /\ LET room == free_cell(buckets, loc[t].i1, loc[t].i2) IN
       \/ /\ Found(t) # {}
          /\ \E c \in Found(t) : buckets' = set_kv(buckets, c[1], c[2], MyItem(t))
          /\ Answer(t, Ok(ValueAt(Found(t))))
          /\ Leave(t, "return")
          /\ UNCHANGED loc
       \/ /\ Found(t) = {}
          /\ \E c \in room : Put(t, c)
       \/ /\ Found(t) = {} /\ room = {}
          /\ Leave(t, "cuckoo_hp")
          /\ UNCHANGED <<buckets, threadVars, loc>>
  /\ UNCHANGED <<hashpower, resize_counter, elem_counter, settings>>

insert_count(t) ==
  /\ At(t, "insert_count")
  /\ Count(loc[t].spot[1], 1)
  /\ Leave(t, "return")
  /\ UNCHANGED <<buckets, hashpower, resize_counter, settings, threadVars, loc>>

cuckoo_hp(t) ==
  /\ At(t, "cuckoo_hp")
  /\ Local(t, [loc[t] EXCEPT !.cuckoo_hp = hashpower])
  /\ Jump(t, "run_hp")
  /\ UNCHANGED <<tableVars, threadVars>>

recheck_hp(t) ==
  /\ At(t, "recheck_hp")
  /\ IF hashpower # loc[t].cuckoo_hp THEN Jump(t, "insert_hp") /\ UNCHANGED loc
     ELSE Local(t, [loc[t] EXCEPT !.then = "recheck"]) /\ Jump(t, "snapshot_hp")
  /\ UNCHANGED <<tableVars, threadVars>>

\* Mutant: does not look whether the key has been inserted meanwhile.
RecheckWithoutFind(t) ==
  /\ Locked(t, "recheck")
  /\ LET spot == loc[t].spot IN
       IF hashpower # loc[t].cuckoo_hp
       THEN Leave(t, "insert_hp") /\ UNCHANGED <<buckets, loc, threadVars>>
       ELSE IF occupied(buckets, spot[1], spot[2])
       THEN Leave(t, "double") /\ UNCHANGED <<buckets, loc, threadVars>>
       ELSE Put(t, spot)
  /\ UNCHANGED <<hashpower, resize_counter, elem_counter, settings>>

recheck(t) ==
  /\ Locked(t, "recheck")
  /\ LET spot == loc[t].spot IN
       IF hashpower # loc[t].cuckoo_hp \/ Found(t) # {}
       THEN Leave(t, "insert_hp") /\ UNCHANGED <<buckets, loc, threadVars>>
       ELSE IF occupied(buckets, spot[1], spot[2])
       THEN Leave(t, "double") /\ UNCHANGED <<buckets, loc, threadVars>>
       ELSE Put(t, spot)
  /\ UNCHANGED <<hashpower, resize_counter, elem_counter, settings>>

-----------------------------------------------------------------------------
(***************************************************************************)
(* run_cuckoo: look for a path with no lock held (slot_search), read it    *)
(* again record by record (cuckoopath_search), then move its items one by  *)
(* one under the two locks of each hop (cuckoopath_move).  A None from     *)
(* either search makes run_cuckoo return None, and the caller doubles.     *)
(***************************************************************************)
Walk(t, w) == Local(t, [loc[t] EXCEPT !.walk = w])

run_hp(t) ==
  /\ At(t, "run_hp")
  /\ Walk(t, [NoWalk EXCEPT !.hp = hashpower])
  /\ Jump(t, "run_counter")
  /\ UNCHANGED <<tableVars, threadVars>>

run_counter(t) ==
  /\ At(t, "run_counter")
  /\ Walk(t, [loc[t].walk EXCEPT
       !.counter = resize_counter,
       !.queue = <<[bucket |-> loc[t].i1, pathcode |-> 0, depth |-> 0],
                   [bucket |-> loc[t].i2, pathcode |-> 1, depth |-> 0]>>,
       !.last = 2])
  /\ Jump(t, "slot_search")
  /\ UNCHANGED <<tableVars, threadVars>>

(***************************************************************************)
(* Both searches take a reference to a bucket and read its slots one by    *)
(* one, with no lock.  The reference goes on pointing into the container   *)
(* it was taken from (with the first read through it): the current one,    *)
(* one that a doubling is copying from, or one that has been dropped since *)
(* (map.rs:1059).  A read of freed memory may find anything.               *)
(***************************************************************************)
Reads(hp, b, s, cell) ==
  IF hp = hashpower THEN cell = buckets[b][s]
  ELSE \A u \in Thread : pc[u] \in {"rehash_one", "rehash_two"} /\ loc[u].hp0 = hp =>
         cell = loc[u].old[b][s]

\* Mutant: a search that finds no path starts again.
SearchAgain(t) == Jump(t, "run_hp")

\* The ? of run_cuckoo: the caller doubles.
GiveUp(t) == Jump(t, "double")

search_counter(t) ==
  /\ At(t, "slot_search") /\ loc[t].walk.offset = -1
  /\ IF resize_counter # loc[t].walk.counter
     THEN GiveUp(t) /\ UNCHANGED loc
     ELSE Walk(t, [loc[t].walk EXCEPT !.offset = 0]) /\ Jump(t, "slot_search")
  /\ UNCHANGED <<tableVars, threadVars>>

(***************************************************************************)
(* The records that a BSlot stands for: the slots are the digits of the    *)
(* pathcode, the last one first, and what is left above them says which of *)
(* the two buckets the path starts from.                                   *)
(***************************************************************************)
PathOf(t, bslot) ==
  LET left[n \in Nat] == IF n = 0 THEN bslot.pathcode ELSE left[n - 1] \div SLOT_PER_BUCKET
      start == IF left[bslot.depth + 1] = 0 THEN loc[t].i1 ELSE loc[t].i2
  IN  [i \in 0 .. bslot.depth |->
         [bucket |-> start, slot |-> left[bslot.depth - i] % SLOT_PER_BUCKET,
          hv |-> None, version |-> None]]

\* Mutant: does not look into the buckets of the last step.
SearchShallow(x) == x.depth + 1 < MAX_BFS_PATH_LEN - 1

SearchDeeper(x) == x.depth < MAX_BFS_PATH_LEN - 1

\* The slot that is being scanned, of the bucket at the head of the queue.
ScannedSlot(w) == (Head(w.queue).pathcode + w.offset) % SLOT_PER_BUCKET

Extended(w) == Head(w.queue).pathcode * SLOT_PER_BUCKET + ScannedSlot(w)

\* On to the next slot, the next bucket, or the end of a search in vain.
ScanOn(t, w) ==
  IF w.offset + 1 < SLOT_PER_BUCKET
  THEN Walk(t, [w EXCEPT !.offset = w.offset + 1]) /\ Jump(t, "slot_search")
  ELSE IF Len(w.queue) > 1
  THEN Walk(t, [w EXCEPT !.queue = Tail(w.queue), !.offset = -1]) /\ Jump(t, "slot_search")
  ELSE UNCHANGED loc /\ GiveUp(t)

search_slot(t) ==
  /\ At(t, "slot_search") /\ loc[t].walk.offset >= 0
  /\ LET w0 == loc[t].walk
         w  == [w0 EXCEPT !.seen = IF w0.offset = 0 THEN hashpower ELSE w0.seen]
         x  == Head(w.queue)
     IN  \E cell \in Cell :
           /\ Reads(w.seen, x.bucket, ScannedSlot(w), cell)
           /\ IF cell = None
              THEN /\ Walk(t, [NoWalk EXCEPT !.hp = w.hp, !.counter = w.counter,
                        !.path = PathOf(t, [x EXCEPT !.pathcode = Extended(w)])])
                   /\ Jump(t, "path_counter")
              ELSE IF SearchDeeper(x) THEN Walk(t, w) /\ Jump(t, "search_partial")
              ELSE ScanOn(t, w)
  /\ UNCHANGED <<tableVars, threadVars>>

\* The partial is read by a second access: a slot that has been emptied in
\* between leads nowhere.
search_partial(t) ==
  /\ At(t, "search_partial")
  /\ LET w == loc[t].walk
         x == Head(w.queue)
     IN  \E cell \in Cell :
           /\ Reads(w.seen, x.bucket, ScannedSlot(w), cell)
           /\ LET alt == [bucket   |-> alt_index(w.hp, hash_key[cell.key].partial, x.bucket),
                          pathcode |-> Extended(w), depth |-> x.depth + 1]
              IN  ScanOn(t, IF cell # None /\ w.last < MAX_CUCKOO_COUNT
                            THEN [w EXCEPT !.queue = Append(w.queue, alt), !.last = w.last + 1]
                            ELSE w)
  /\ UNCHANGED <<tableVars, threadVars>>

path_counter(t) ==
  /\ At(t, "path_counter")
  /\ IF resize_counter # loc[t].walk.counter THEN GiveUp(t) ELSE Jump(t, "path_version")
  /\ UNCHANGED <<tableVars, threadVars, loc>>

path_version(t) ==
  /\ At(t, "path_version")
  /\ LET w == loc[t].walk IN
       Walk(t, [w EXCEPT !.path = [w.path EXCEPT ![w.at] =
                  [w.path[w.at] EXCEPT !.version = version[lock_ind(w.path[w.at].bucket)]]]])
  /\ Jump(t, "path_occupied")
  /\ UNCHANGED <<tableVars, threadVars>>

Record(t) == loc[t].walk.path[loc[t].walk.at]

StartMove(t) == IF loc[t].walk.at = 0 THEN "claim_version" ELSE "from_version"

path_occupied(t) ==
  /\ At(t, "path_occupied")
  /\ Walk(t, [loc[t].walk EXCEPT !.seen = hashpower])
  /\ Jump(t, IF occupied(buckets, Record(t).bucket, Record(t).slot) THEN "path_key"
             ELSE StartMove(t))
  /\ UNCHANGED <<tableVars, threadVars>>

\* The key is read by a second access; if the slot has been emptied in
\* between, Option::unwrap panics (no guard is held).
path_key(t) ==
  /\ At(t, "path_key")
  /\ LET w == loc[t].walk IN
     \E cell \in Cell :
       /\ Reads(w.seen, Record(t).bucket, Record(t).slot, cell)
       /\ LET hv   == hash_key[cell.key]
              here == [w.path EXCEPT ![w.at] = [w.path[w.at] EXCEPT !.hv = hv]]
              next == alt_index(w.hp, hv.partial, Record(t).bucket)
          IN  IF cell = None THEN Jump(t, "panicked") /\ UNCHANGED loc
              ELSE IF w.at + 1 \in DOMAIN w.path
              THEN /\ Walk(t, [w EXCEPT !.at = w.at + 1, !.path =
                        [here EXCEPT ![w.at + 1] = [here[w.at + 1] EXCEPT !.bucket = next]]])
                   /\ Jump(t, "path_counter")
              ELSE Walk(t, [w EXCEPT !.path = here]) /\ Jump(t, StartMove(t))
  /\ UNCHANGED <<tableVars, threadVars>>

\* A path of one record: its slot was seen empty.
Stale(t, i) ==
  LET r == loc[t].walk.path[i] IN
  r.version # None /\ version[lock_ind(r.bucket)] # r.version

claim_version(t) ==
  /\ At(t, "claim_version")
  /\ IF Stale(t, 0) THEN Jump(t, "run_hp")
     ELSE Enter(t, "TwoBucketWriteGuard", TwoStripes(loc[t].i1, loc[t].i2), "claim")
  /\ UNCHANGED <<tableVars, threadVars, loc>>

SameTable(t) ==
  hashpower = loc[t].walk.hp /\ resize_counter = loc[t].walk.counter

claim(t) ==
  /\ At(t, "claim")
  /\ LET r == loc[t].walk.path[0] IN
       IF SameTable(t) /\ ~occupied(buckets, r.bucket, r.slot)
       THEN /\ Local(t, [loc[t] EXCEPT !.spot = <<r.bucket, r.slot>>, !.walk = NoWalk])
            /\ Leave(t, "recheck_hp")
       ELSE Leave(t, "run_hp") /\ UNCHANGED loc
  /\ UNCHANGED <<tableVars, threadVars>>

\* One hop, from record at - 1 to record at.
from_version(t) ==
  /\ At(t, "from_version")
  /\ Jump(t, IF Stale(t, loc[t].walk.at - 1) THEN "run_hp" ELSE "to_version")
  /\ UNCHANGED <<tableVars, threadVars, loc>>

\* Mutant: locks the bucket it moves from only.
LockFromOnly(t) ==
  /\ At(t, "to_version")
  /\ LET w == loc[t].walk IN
       IF Stale(t, w.at) THEN Jump(t, "run_hp")
       ELSE Enter(t, "TwoBucketWriteGuard",
                  TwoStripes(w.path[w.at - 1].bucket, w.path[w.at - 1].bucket), "move")
  /\ UNCHANGED <<tableVars, threadVars, loc>>

to_version(t) ==
  /\ At(t, "to_version")
  /\ LET w == loc[t].walk IN
       IF Stale(t, w.at) THEN Jump(t, "run_hp")
       ELSE Enter(t, "TwoBucketWriteGuard",
                  TwoStripes(w.path[w.at - 1].bucket, w.path[w.at].bucket), "move")
  /\ UNCHANGED <<tableVars, threadVars, loc>>

\* Mutant: only compares the occupancy of the slot.
OccupancyOnly(r) ==
  (r.hv = None) <=> (buckets[r.bucket][r.slot] = None)

\* A record that holds an item expects the same hash in the slot, one that
\* was empty expects it empty.
AsExpected(r) ==
  LET cell == buckets[r.bucket][r.slot] IN
  IF r.hv = None THEN cell = None
  ELSE cell # None /\ hash_key[cell.key].hash = r.hv.hash

move(t) ==
  /\ At(t, "move")
  /\ LET w    == loc[t].walk
         from == w.path[w.at - 1]
         to   == w.path[w.at]
     IN  IF SameTable(t) /\ from.hv # None /\ AsExpected(from) /\ AsExpected(to)
         THEN /\ Walk(t, [w EXCEPT !.carry = buckets[from.bucket][from.slot]])
              /\ buckets' = erase_kv(buckets, from.bucket, from.slot)
              /\ Jump(t, "move_set")
         ELSE Leave(t, "run_hp") /\ UNCHANGED <<buckets, loc>>
  /\ UNCHANGED <<hashpower, resize_counter, elem_counter, settings, threadVars>>

move_set(t) ==
  /\ At(t, "move_set")
  /\ LET w    == loc[t].walk
         from == w.path[w.at - 1]
         to   == w.path[w.at]
         done == [w EXCEPT !.carry = None, !.at = w.at - 1,
                    !.path = [w.path EXCEPT
                      ![w.at]     = [to EXCEPT !.hv = from.hv, !.version = None],
                      ![w.at - 1] = [from EXCEPT !.hv = None, !.version = None]]]
     IN  /\ buckets' = set_kv(buckets, to.bucket, to.slot, w.carry)
         /\ IF done.at = 0
            THEN /\ Local(t, [loc[t] EXCEPT !.spot = <<from.bucket, from.slot>>,
                                            !.walk = NoWalk])
                 /\ Leave(t, "recheck_hp")
            ELSE Walk(t, done) /\ Leave(t, "from_version")
  /\ UNCHANGED <<hashpower, resize_counter, elem_counter, settings, threadVars>>

-----------------------------------------------------------------------------
(***************************************************************************)
(* cuckoo_fast_double(hp0): under all locks, the container is replaced by  *)
(* an empty one of twice the size and filled item by item from the old     *)
(* one, which stays as it was until the end (keys and values are cloned).  *)
(* The resize counter is incremented last, so a path search that runs      *)
(* meanwhile sees a table that is half filled.                             *)
(***************************************************************************)
double(t) ==
  /\ At(t, "double")
  /\ Enter(t, "AllLocksWriteGuard", Lock, "resize")
  /\ UNCHANGED <<tableVars, threadVars, loc>>

len_of(counter) == LET n == SumFunction(counter) IN IF n > 0 THEN n ELSE 0

LoadTooLow ==
  100 * len_of(elem_counter) < minimum_load_factor * hashsize(hashpower) * SLOT_PER_BUCKET

Refuse(t, why) ==
  Answer(t, Err(why)) /\ Leave(t, "return") /\ UNCHANGED <<tableVars, loc>>

\* Mutant: does not look whether another thread has doubled meanwhile.
ResizeAnyway(t) ==
  /\ At(t, "resize")
  /\ IF loc[t].hp0 + 1 > maximum_hashpower THEN Refuse(t, "MaximumHashpowerExceeded")
     ELSE Jump(t, "resize_load") /\ UNCHANGED <<tableVars, threadVars, loc>>

resize(t) ==
  /\ At(t, "resize")
  /\ IF hashpower # loc[t].hp0
     THEN Leave(t, "insert_hp") /\ UNCHANGED <<tableVars, threadVars, loc>>
     ELSE IF loc[t].hp0 + 1 > maximum_hashpower THEN Refuse(t, "MaximumHashpowerExceeded")
     ELSE Jump(t, "resize_load") /\ UNCHANGED <<tableVars, threadVars, loc>>

resize_load(t) ==
  /\ At(t, "resize_load")
  /\ IF LoadTooLow THEN Refuse(t, "LoadFactorTooLow")
     ELSE /\ Local(t, [loc[t] EXCEPT !.old = buckets, !.cur = 0, !.aside = <<>>])
          /\ buckets' = BucketContainer(loc[t].hp0 + 1)
          /\ hashpower' = loc[t].hp0 + 1
          /\ Jump(t, "rehash_one")
          /\ UNCHANGED <<resize_counter, elem_counter, settings, threadVars>>

\* Where a rehash stands: the new container and the items put aside.
Rehashing(t) == [tab |-> buckets, alternate_items |-> loc[t].aside, panic |-> FALSE]

\* Pass 1, one slot of the old container.
rehash_one(t) ==
  /\ At(t, "rehash_one")
  /\ LET n  == loc[t].cur + 1
         st == rehash_move(loc[t].hp0, loc[t].old, Rehashing(t), Positions(loc[t].hp0)[n])
     IN  /\ buckets' = st.tab
         /\ IF st.panic
            THEN Leave(t, "panicked") /\ Local(t, [loc[t] EXCEPT !.old = None])
            ELSE /\ Local(t, [loc[t] EXCEPT !.cur = n, !.aside = st.alternate_items])
                 /\ Jump(t, IF n < Len(Positions(loc[t].hp0)) THEN "rehash_one"
                            ELSE "rehash_two")
  /\ UNCHANGED <<hashpower, resize_counter, elem_counter, settings, threadVars>>

\* Mutant: pass 2 computes indices for the old size.
RehashTwoAtOldSize(t) ==
  /\ At(t, "rehash_two")
  /\ IF loc[t].aside = <<>>
     THEN Local(t, [loc[t] EXCEPT !.old = None]) /\ Jump(t, "resize_count") /\ UNCHANGED buckets
     ELSE LET st == rehash_place_item(loc[t].hp0, Rehashing(t), Head(loc[t].aside))
          IN  /\ buckets' = st.tab
              /\ Local(t, [loc[t] EXCEPT !.aside = Tail(loc[t].aside)])
              /\ Jump(t, "rehash_two")
  /\ UNCHANGED <<hashpower, resize_counter, elem_counter, settings, threadVars>>

\* Pass 2, one item with the items it displaces.  On a panic the unwinding
\* drops the guard, the old container and the items put aside.
rehash_two(t) ==
  /\ At(t, "rehash_two")
  /\ IF loc[t].aside = <<>>
     THEN Local(t, [loc[t] EXCEPT !.old = None]) /\ Jump(t, "resize_count") /\ UNCHANGED buckets
     ELSE LET st == rehash_place_item(loc[t].hp0 + 1, Rehashing(t), Head(loc[t].aside))
          IN  /\ buckets' = st.tab
              /\ IF st.panic
                 THEN /\ Local(t, [loc[t] EXCEPT !.old = None, !.aside = <<>>])
                      /\ Leave(t, "panicked")
                 ELSE /\ Local(t, [loc[t] EXCEPT !.aside = Tail(loc[t].aside)])
                      /\ Jump(t, "rehash_two")
  /\ UNCHANGED <<hashpower, resize_counter, elem_counter, settings, threadVars>>

resize_count(t) ==
  /\ At(t, "resize_count")
  /\ resize_counter' = resize_counter + 1
  /\ Leave(t, "insert_hp")
  /\ UNCHANGED <<buckets, hashpower, elem_counter, settings, threadVars, loc>>

-----------------------------------------------------------------------------
(***************************************************************************)
(* clear: every slot, then every counter.  loc.old is what the container   *)
(* held when clear began; the code keeps no such copy, and no step reads   *)
(* it: it says what the map still holds, for callers, until the last slot. *)
(***************************************************************************)
clear_lock(t) ==
  /\ At(t, "clear_lock")
  /\ Enter(t, "AllLocksWriteGuard", Lock, "clear")
  /\ UNCHANGED <<tableVars, threadVars, loc>>

clear(t) ==
  /\ At(t, "clear")
  /\ LET n    == loc[t].cur + 1
         pos  == Positions(hashpower)[n]
         was  == IF loc[t].cur = 0 THEN buckets ELSE loc[t].old
         last == n = Len(Positions(hashpower))
     IN  /\ buckets' = erase_kv(buckets, pos[1], pos[2])
         /\ Local(t, IF last THEN [loc[t] EXCEPT !.cur = 0, !.old = None]
                     ELSE [loc[t] EXCEPT !.cur = n, !.old = was])
         /\ Jump(t, IF last THEN "clear_count" ELSE "clear")
  /\ UNCHANGED <<hashpower, resize_counter, elem_counter, settings, threadVars>>

clear_count(t) ==
  /\ At(t, "clear_count")
  /\ LET l == loc[t].cur IN
       /\ elem_counter' = [elem_counter EXCEPT ![l] = 0]
       /\ Local(t, [loc[t] EXCEPT !.cur = l + 1])
       /\ IF l + 1 = NumLocks THEN Leave(t, "return") ELSE Jump(t, "clear_count")
  /\ UNCHANGED <<buckets, hashpower, resize_counter, settings, threadVars>>

-----------------------------------------------------------------------------
(***************************************************************************)
(* iter, keys and values.  The loop over an iterator is code of the        *)
(* caller: it may call the map, or leave early, which drops the guard.     *)
(* While it runs, call[t] is the call of the body and outer[t] holds the   *)
(* iteration.  A body that needs a lock waits for its own thread for ever: *)
(* its guard has no step.                                                  *)
(***************************************************************************)
Collected(items) == [kind |-> "Items", value |-> items]

\* Mutant: leaves the first stripe out.
IterSkipsFirst(t) ==
  /\ At(t, "iter_lock")
  /\ Enter(t, "AllLocksGuard", Lock \ {0}, "iter")
  /\ Answer(t, Collected({}))
  /\ UNCHANGED <<tableVars, loc>>

\* Mutant: takes the guard that makes the versions odd.
IterLocksForWriting(t) ==
  /\ At(t, "iter_lock")
  /\ Enter(t, "AllLocksWriteGuard", Lock, "iter")
  /\ Answer(t, Collected({}))
  /\ UNCHANGED <<tableVars, loc>>

iter_lock(t) ==
  /\ At(t, "iter_lock")
  /\ Enter(t, "AllLocksGuard", Lock, "iter")
  /\ Answer(t, Collected({}))
  /\ UNCHANGED <<tableVars, loc>>

\* Iter::next for one bucket, or at the end.  loc.same: the body may run.
iter(t) ==
  /\ At(t, "iter")
  /\ LET b     == loc[t].cur
         slots == {buckets[b][s] : s \in Slot} \ {None}
     IN  IF b = hashsize(hashpower)
         THEN Leave(t, "return") /\ UNCHANGED <<ret, callVars, loc>>
         ELSE /\ Answer(t, Collected(ret[t].value \cup slots))
              /\ Local(t, [loc[t] EXCEPT !.cur = b + 1, !.same = TRUE])
              /\ Jump(t, "iter")
  /\ UNCHANGED tableVars

iter_drop(t) ==
  /\ At(t, "iter")
  /\ Answer(t, [kind |-> "Dropped", value |-> ret[t].value])
  /\ Leave(t, "return")
  /\ UNCHANGED <<tableVars, loc>>

\* One call of the body, once a bucket (call.value: the calls it may make).
iter_body(t) ==
  /\ At(t, "iter") /\ loc[t].cur > 0 /\ loc[t].same
  /\ \E c \in call[t].value : Start(t, c)
  /\ outer' = [outer EXCEPT ![t] = <<[call |-> call[t], ret |-> ret[t],
                                      loc |-> [loc[t] EXCEPT !.same = FALSE]]>>]
  /\ UNCHANGED <<tableVars, ret, calls, scenario>>

body_return(t) ==
  /\ At(t, "return") /\ InBody(t)
  /\ call' = [call EXCEPT ![t] = Head(outer[t]).call]
  /\ ret' = [ret EXCEPT ![t] = Head(outer[t]).ret]
  /\ Local(t, Head(outer[t]).loc)
  /\ outer' = [outer EXCEPT ![t] = <<>>]
  /\ Jump(t, "iter")
  /\ UNCHANGED <<tableVars, calls, scenario>>

-----------------------------------------------------------------------------
(***************************************************************************)
(* len, is_empty and the settings.                                         *)
(***************************************************************************)
\* The counters are loaded one after the other, with no lock.
len(t) ==
  /\ At(t, "len")
  /\ LET l     == loc[t].cur
         count == loc[t].v1 + elem_counter[l]
     IN  IF l + 1 < NumLocks
         THEN /\ Local(t, [loc[t] EXCEPT !.cur = l + 1, !.v1 = count])
              /\ Jump(t, "len")
              /\ UNCHANGED threadVars
         ELSE /\ Answer(t, IF call[t].op = "is_empty"
                           THEN [kind |-> "IsEmpty", value |-> count <= 0]
                           ELSE [kind |-> "Len", value |-> IF count > 0 THEN count ELSE 0])
              /\ Jump(t, "return")
              /\ UNCHANGED loc
  /\ UNCHANGED tableVars

set_maximum(t) ==
  /\ At(t, "set_maximum")
  /\ maximum_hashpower' = call[t].value
  /\ Jump(t, "return")
  /\ UNCHANGED <<buckets, hashpower, resize_counter, elem_counter, minimum_load_factor,
                 threadVars, loc>>

\* Mutant: without the assert!.
SetUnchecked(t) ==
  /\ At(t, "set_minimum")
  /\ minimum_load_factor' = call[t].value
  /\ Jump(t, "return")
  /\ UNCHANGED <<buckets, hashpower, resize_counter, elem_counter, maximum_hashpower,
                 threadVars, loc>>

\* A panic ends the iteration whose body the call is in, and drops its guard.
Unwind(t) ==
  IF InBody(t)
  THEN /\ call' = [call EXCEPT ![t] = Head(outer[t]).call]
       /\ ret' = [ret EXCEPT ![t] = Ok(None)]
       /\ outer' = [outer EXCEPT ![t] = <<>>]
       /\ Leave(t, "panicked")
       /\ UNCHANGED <<calls, scenario>>
  ELSE Jump(t, "panicked") /\ UNCHANGED threadVars

\* In percent; the assert! panics outside of 0 .. 100.
set_minimum(t) ==
  /\ At(t, "set_minimum")
  /\ IF call[t].value \in 0 .. 100
     THEN minimum_load_factor' = call[t].value /\ Jump(t, "return") /\ UNCHANGED threadVars
     ELSE UNCHANGED minimum_load_factor /\ Unwind(t)
  /\ UNCHANGED <<buckets, hashpower, resize_counter, elem_counter, maximum_hashpower, loc>>

-----------------------------------------------------------------------------
(***************************************************************************)
(* The whole map.  Preload is inserted before the threads start, each item *)
(* where a call of insert on a table with room puts it.                    *)
(***************************************************************************)
Preloaded(items) ==
  LET Add(tab, item) ==
        LET c == CHOOSE c \in free_cell(tab, Bucket1(InitHashpower, item.key),
                                             Bucket2(InitHashpower, item.key)) : TRUE
        IN  set_kv(tab, c[1], c[2], item)
      after[n \in 0 .. Len(items)] == IF n = 0 THEN BucketContainer(InitHashpower)
                                      ELSE Add(after[n - 1], items[n])
  IN  after[Len(items)]

ItemsUnder(tab, l) ==
  {c \in (DOMAIN tab) \X Slot : lock_ind(c[1]) = l /\ occupied(tab, c[1], c[2])}

TableInit ==
  /\ scenario \in DOMAIN Script
  /\ buckets = Preloaded(Preload[scenario])
  /\ hashpower = InitHashpower
  /\ resize_counter = 0
  /\ elem_counter = [l \in Lock |-> Cardinality(ItemsUnder(Preloaded(Preload[scenario]), l))]
  /\ maximum_hashpower = InitMaximum
  /\ minimum_load_factor = MinimumLoad

Init ==
  /\ LocksInit
  /\ TableInit
  /\ pc    = [t \in Thread |-> "idle"]
  /\ call  = [t \in Thread |-> NoCall]
  /\ ret   = [t \in Thread |-> Ok(None)]
  /\ loc   = [t \in Thread |-> NoLocals]
  /\ outer = [t \in Thread |-> <<>>]
  /\ calls = [t \in Thread |-> 0]

Lookup(t) ==
  \/ read_hp(t)  \/ read_counter(t) \/ read_v1(t)  \/ read_v2(t) \/ read_cells(t)
  \/ after_v1(t) \/ after_v2(t)     \/ after_counter(t) \/ find(t)

Snapshot(t) == snapshot_hp(t) \/ snapshot_counter(t) \/ snapshot_retry(t)

Update(t) ==
  \/ insert_hp(t) \/ insert(t) \/ insert_count(t) \/ remove(t) \/ remove_count(t)
  \/ cuckoo_hp(t) \/ recheck_hp(t) \/ recheck(t)

RunCuckoo(t) ==
  \/ run_hp(t) \/ run_counter(t) \/ search_counter(t) \/ search_slot(t) \/ search_partial(t)
  \/ path_counter(t) \/ path_version(t) \/ path_occupied(t) \/ path_key(t)
  \/ claim_version(t) \/ claim(t)
  \/ from_version(t) \/ to_version(t) \/ move(t) \/ move_set(t)

Resize(t) ==
  \/ double(t) \/ resize(t) \/ resize_load(t) \/ rehash_one(t) \/ rehash_two(t)
  \/ resize_count(t)

WholeTable(t) ==
  \/ clear_lock(t) \/ clear(t) \/ clear_count(t)
  \/ iter_lock(t)  \/ iter(t)  \/ iter_drop(t) \/ iter_body(t) \/ body_return(t)
  \/ len(t) \/ set_maximum(t) \/ set_minimum(t)

\* A step of a call in progress.
Continue(t) ==
  \/ Lookup(t) \/ Snapshot(t) \/ Update(t) \/ RunCuckoo(t) \/ Resize(t)
  \/ WholeTable(t) \/ Return(t)
  \/ GuardStep(t) /\ UNCHANGED <<tableVars, threadVars, pc, loc>>

Stopped(t) == pc[t] = "panicked" \/ (pc[t] = "idle" /\ calls[t] = Len(Calls(t)))

AllStopped ==
  /\ \A t \in Thread : Stopped(t) /\ guard[t].phase = "none"
  /\ UNCHANGED vars

Next == (\E t \in Thread : Invoke(t) \/ Continue(t)) \/ AllStopped

Spec == Init /\ [][Next]_vars

\* Each thread keeps running; locks give no fairness between contenders.
FairSpec == Spec /\ \A t \in Thread : WF_vars(Invoke(t) \/ Continue(t))

-----------------------------------------------------------------------------
(***************************************************************************)
(* Items that no cell holds for the moment: the one a hop carries from its *)
(* old cell to its new one, and those of the old container during a rehash *)
(* or, until its last slot, a clear.                                       *)
(***************************************************************************)
Carried == {loc[t].walk.carry : t \in Thread} \ {None}

Replacing ==
  {t \in Thread : pc[t] \in {"rehash_one", "rehash_two"} \/ (pc[t] = "clear" /\ loc[t].cur > 0)}

OldItems == UNION {ItemsOf(loc[t].old) : t \in Replacing}

Items == ItemsOf(buckets) \cup Carried \cup OldItems

\* The map's contents: a key is absent (None) or has a value.
Contents ==
  [k \in Key |-> IF \E i \in Items : i.key = k
                 THEN (CHOOSE i \in Items : i.key = k).value ELSE None]

TypeOK ==
  /\ LocksTypeOK
  /\ hashpower \in Nat /\ resize_counter \in Nat /\ maximum_hashpower \in Nat
  /\ minimum_load_factor \in 0 .. 100
  /\ buckets \in TabType(hashpower)
  /\ elem_counter \in [Lock -> Int]
  /\ \A t \in Thread : calls[t] \in 0 .. Len(Calls(t))

\* Every slot is written under its own stripe: whoever changes a slot has
\* that slot's stripe locked with an odd version, and whoever replaces the
\* container or counts a resize has all of them.  The index a writer uses
\* may be stale, the stripe never is.
Writing(t, l) ==
  guard[t].phase = "held" /\ guard[t].kind \in Write /\ l \in guard[t].odd

Changed(b) == b \notin DOMAIN buckets' \/ buckets'[b] # buckets[b]

WritesUnderLock ==
  [][\E t \in Thread :
       /\ (hashpower' # hashpower \/ resize_counter' # resize_counter)
            => \A l \in Lock : Writing(t, l)
       /\ hashpower' = hashpower
            => \A b \in DOMAIN buckets : Changed(b) => Writing(t, lock_ind(b))
       /\ \A l \in Lock : elem_counter'[l] # elem_counter[l] => Writing(t, l)]_vars

\* However many inserts find the same table full, they double it once: every
\* doubling that was counted has raised hashpower by one, and so has one that
\* is still to be counted.  (One that panicked is never counted.)
Doublers == {t \in Thread : pc[t] \in {"rehash_one", "rehash_two", "resize_count"}}

OneDoublingPerSize ==
  /\ InitHashpower + resize_counter <= hashpower
  /\ Doublers # {} => InitHashpower + resize_counter < hashpower

Homes(k) == {Bucket1(hashpower, k), Bucket2(hashpower, k)}

\* Every item sits in one of the two buckets its key hashes to under the
\* current hashpower, the only ones a search looks into.
ItemsFindable ==
  \A b \in DOMAIN buckets, s \in Slot :
    occupied(buckets, b, s) => b \in Homes(buckets[b][s].key)

\* No key is in the map twice.
CellsOf(k) == {c \in (DOMAIN buckets) \X Slot : c[2] \in KeySlots(buckets, c[1], k)}

NoDuplicateKeys ==
  \A k \in Key :
    Cardinality(CellsOf(k))
      + Cardinality({t \in Thread : loc[t].walk.carry # None /\ loc[t].walk.carry.key = k})
      <= 1

\* The sum of the stripe counters, with the increments still owed by calls
\* between their slot write and their counter write, is the number of items.
Owed == [t \in Thread |-> CASE pc[t] = "insert_count" -> 1
                              [] pc[t] = "remove_count" -> -1
                              [] OTHER -> 0]

Clearing == \E t \in Thread : pc[t] = "clear_count"

CountersAgree ==
  ~Clearing =>
    SumFunction(elem_counter) + SumFunction(Owed) = Cardinality(Items)

\* A hop keeps an item at home: what is carried out of one of its key's two
\* buckets is about to be set in one of them too, although the path was read
\* before the locks were taken and the slots may hold other items since.
HopsStayHome ==
  \A t \in Thread : loc[t].walk.carry # None =>
    LET w == loc[t].walk IN
    w.path[w.at - 1].bucket \in Homes(w.carry.key) => w.path[w.at].bucket \in Homes(w.carry.key)

\* No call panics.
NoPanic == \A t \in Thread : pc[t] # "panicked"

\* An iterator sees the table as it is when the iteration ends: what it has
\* collected so far is exactly what the buckets it has passed still hold.
IterSeesTable ==
  \A t \in Thread : At(t, "iter") =>
    ret[t].value = {buckets[b][s] : b \in 0 .. loc[t].cur - 1, s \in Slot} \ {None}

\* A lookup in the body of an iteration is answered without a lock, with what
\* the table holds: the iterator's guard leaves the versions even and keeps
\* the writers out.  If it fell back to the locks it would wait for the stripe
\* that its own thread has.
BodyLookupsNeedNoLock ==
  \A t \in Thread : InBody(t) =>
    /\ pc[t] # "snapshot_hp"
    /\ pc[t] = "return" /\ call[t].key \in Key =>
         ret[t] = Hit(call[t], Contents[call[t].key])

\* An insert doubles the table, or is refused, only when no sequence of moves
\* of the allowed length frees a slot of its key: the search, the reading of
\* its path and the hops along it miss none.
ResizesOnlyWhenCrowded ==
  \A t \in Thread : At(t, "resize") /\ hashpower = loc[t].hp0 =>
    \A b \in Reachable(hashpower, buckets, MAX_BFS_PATH_LEN - 1, Homes(call[t].key)) :
      FreeSlots(buckets, b) = {}

\* Every call ends, by returning or by a panic: neither the retries of the
\* lookups and of run_cuckoo nor the insert loop go on for ever, and no
\* thread waits for ever on the others.
EveryCallEnds ==
  \A t \in Thread : (pc[t] \notin {"idle", "panicked"}) ~> (pc[t] \in {"idle", "panicked"})
=============================================================================

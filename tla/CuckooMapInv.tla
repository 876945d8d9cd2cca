----------------------------- MODULE CuckooMapInv -----------------------------
(***************************************************************************)
(* The inductive invariant of CuckooMap: what holds of a thread at each of *)
(* its labels.  Which guard it has there, what its indices, its path and   *)
(* its copies of shared values still say about the table, although other   *)
(* threads have moved on since it took them.                               *)
(***************************************************************************)
EXTENDS CuckooMap

(***************************************************************************)
(* Labels.                                                                 *)
(***************************************************************************)
Validating == {"read_v1", "read_v2", "read_cells", "after_v1", "after_v2", "after_counter"}
Optimistic == {"read_hp", "read_counter"} \cup Validating
Snapshots  == {"snapshot_hp", "snapshot_counter"}

Hopping == {"from_version", "to_version", "move", "move_set"}
OnPath  == {"path_counter", "path_version", "path_occupied", "path_key",
            "claim_version", "claim"} \cup Hopping
Cuckoo  == {"cuckoo_hp", "run_hp", "run_counter", "slot_search", "search_partial",
            "recheck_hp"} \cup OnPath

RehashLabels == {"rehash_one", "rehash_two"}
Resizing   == {"double", "resize", "resize_load", "resize_count"} \cup RehashLabels
Inserting  == {"insert_hp", "insert", "insert_count", "recheck"} \cup Cuckoo \cup Resizing
ClearLabels  == {"clear_lock", "clear", "clear_count"}
IterLabels == {"iter_lock", "iter"}

Label ==
  {"idle", "return", "panicked", "find", "remove", "remove_count",
   "len", "set_maximum", "set_minimum"}
  \cup Optimistic \cup Snapshots \cup Inserting \cup ClearLabels \cup IterLabels

\* Labels at which the thread has a guard, or is building it: of two stripes
\* for the key's buckets or for a hop, of all stripes.  Late ones are only
\* reached with the guard complete.
InPair  == SnapshotLabels \cup {"remove_count", "insert_count", "claim"}
InHop   == {"move", "move_set"}
InWhole == {"resize", "resize_load", "resize_count", "clear", "clear_count", "iter"}
           \cup RehashLabels
Inside  == InPair \cup InHop \cup InWhole
Late    == {"remove_count", "insert_count", "move_set", "resize_load", "resize_count",
            "clear_count"} \cup RehashLabels

\* Labels in the body of an iteration: a call that needs a guard does not get
\* past the one that its own thread holds.
InBodies == Optimistic \cup Snapshots
            \cup {"insert_hp", "clear_lock", "len", "set_maximum", "set_minimum",
                  "return", "panicked"}

Indexed == Validating \cup SnapshotLabels \cup {"remove_count", "insert_count"} \cup Cuckoo

Spotted(t) ==
  \/ pc[t] \in {"remove_count", "insert_count", "recheck_hp", "recheck"}
  \/ pc[t] \in Snapshots /\ loc[t].then = "recheck"

-----------------------------------------------------------------------------
(***************************************************************************)
(* Types.                                                                  *)
(***************************************************************************)
Hashes == {hash_key[k] : k \in Key}

Entry == [bucket : Nat, pathcode : Nat, depth : 0 .. MAX_BFS_PATH_LEN - 1]

PathRecord == [bucket : Nat, slot : Slot, hv : Hashes \cup {None}, version : Nat \cup {None}]

LocalsFit(l) ==
  /\ DOMAIN l = DOMAIN NoLocals /\ DOMAIN l.walk = DOMAIN NoWalk
  /\ l.cur \in Nat /\ l.hp0 \in Nat /\ l.aside \in Seq(Item)
  /\ l.walk.queue \in Seq(Entry) /\ l.walk.offset \in Int /\ l.walk.at \in Nat

TableTypes ==
  /\ hashpower \in Nat /\ InitHashpower <= hashpower
  /\ resize_counter \in Nat
  /\ maximum_hashpower \in Nat
  /\ minimum_load_factor \in 0 .. 100
  /\ buckets \in TabType(hashpower)
  /\ elem_counter \in [Lock -> Int]

Domains ==
  /\ DOMAIN pc = Thread /\ DOMAIN call = Thread /\ DOMAIN ret = Thread
  /\ DOMAIN loc = Thread /\ DOMAIN outer = Thread /\ DOMAIN calls = Thread
  /\ scenario \in DOMAIN Script

TypeFits(t) ==
  /\ pc[t] \in Label
  /\ call[t] \in BodyCall \cup IterCall \cup {NoCall}
  /\ LocalsFit(loc[t])
  /\ calls[t] \in 0 .. Len(Calls(t))

-----------------------------------------------------------------------------
(***************************************************************************)
(* A thread is only at labels of the operation it was called for.          *)
(***************************************************************************)
LabelFits(p, op, then) ==
  /\ p \in Optimistic => op \in {"get", "contains_key"}
  /\ p \in Snapshots \cup SnapshotLabels =>
       \/ then = "find" /\ op \in {"get", "contains_key", "get_key_value"}
       \/ then = "remove" /\ op = "remove"
       \/ then \in {"insert", "recheck"} /\ op = "insert"
  /\ p \in SnapshotLabels => then = p
  /\ p = "remove_count" => op = "remove"
  /\ p \in Inserting => op = "insert"
  /\ p \in ClearLabels => op = "clear"
  /\ p \in IterLabels => op = "iter"
  /\ p = "len" => op \in {"len", "is_empty"}
  /\ p = "set_maximum" => op = "set_maximum_hashpower"
  /\ p = "set_minimum" => op = "set_minimum_load_factor"

CallFits(t) ==
  /\ pc[t] # "idle" => call[t] \in BodyCall \cup IterCall
  /\ LabelFits(pc[t], call[t].op, loc[t].then)

(***************************************************************************)
(* Its guard.                                                              *)
(***************************************************************************)
KindAt(t) ==
  CASE pc[t] \in InPair -> GuardKind(call[t].op)
    [] pc[t] \in InHop  -> "TwoBucketWriteGuard"
    [] pc[t] = "iter"   -> "AllLocksGuard"
    [] OTHER            -> "AllLocksWriteGuard"

WantAt(t) ==
  LET w == loc[t].walk IN
  CASE pc[t] \in InPair -> TwoStripes(loc[t].i1, loc[t].i2)
    [] pc[t] \in InHop  -> TwoStripes(w.path[w.at - 1].bucket, w.path[w.at].bucket)
    [] OTHER            -> Lock

GuardFits(t) ==
  /\ InBody(t) => /\ pc[t] \in InBodies
                  /\ guard[t].phase = "held" /\ guard[t].kind = "AllLocksGuard"
                  /\ guard[t].want = Lock
  /\ ~InBody(t) /\ pc[t] \in Inside =>
       /\ guard[t].phase \in {"lock", "bump", "held"}
       /\ guard[t].kind = KindAt(t) /\ guard[t].want = WantAt(t)
       /\ pc[t] \in Late => guard[t].phase = "held"
  /\ ~InBody(t) /\ pc[t] \notin Inside => guard[t].phase \in {"none", "unbump", "unlock"}

(***************************************************************************)
(* Its indices: those its key has, or had at some earlier size.            *)
(***************************************************************************)
AtHome(k, b, hp) ==
  \E n \in InitHashpower .. hp : b = Bucket1(n, k) \/ b = Bucket2(n, k)

IndexFits(t) ==
  /\ pc[t] \in Indexed \cup {"read_counter", "snapshot_counter"} =>
       loc[t].hp \in InitHashpower .. hashpower
  /\ pc[t] \in Indexed => /\ loc[t].i1 = Bucket1(loc[t].hp, call[t].key)
                          /\ loc[t].i2 = Bucket2(loc[t].hp, call[t].key)
  /\ Spotted(t) => /\ loc[t].spot[2] \in Slot
                   /\ AtHome(call[t].key, loc[t].spot[1], hashpower)

(***************************************************************************)
(* Its path: a record that holds an item names the bucket of the next one, *)
(* as far as the hops have not yet moved that item.                        *)
(***************************************************************************)
Linked(w) ==
  \A i \in DOMAIN w.path : i < w.at /\ w.path[i].hv # None =>
    w.path[i + 1].bucket = alt_index(w.hp, w.path[i].hv.partial, w.path[i].bucket)

PathFits(t) ==
  LET w == loc[t].walk IN
  /\ \E d \in 0 .. MAX_BFS_PATH_LEN - 1 : w.path \in [0 .. d -> PathRecord] /\ w.at <= d
  /\ \A i \in DOMAIN w.path : w.path[i].bucket \in Index(hashpower)
  /\ w.path[0].bucket \in {loc[t].i1, loc[t].i2}
  /\ Linked(w)

WalkFits(t) ==
  LET w == loc[t].walk IN
  /\ pc[t] \in {"run_counter", "slot_search", "search_partial"} \cup OnPath =>
       w.hp \in InitHashpower .. hashpower
  /\ pc[t] \in {"slot_search", "search_partial"} =>
       w.queue # <<>> /\ \A i \in 1 .. Len(w.queue) : w.queue[i].bucket \in Index(hashpower)
  /\ pc[t] = "search_partial" => w.offset >= 0 /\ SearchDeeper(Head(w.queue))
  /\ pc[t] \in OnPath => PathFits(t)
  /\ pc[t] \in Hopping => w.at # 0
  /\ pc[t] = "move_set" =>
       /\ w.carry \in Item
       /\ w.path[w.at - 1].hv # None
       /\ w.path[w.at - 1].hv.partial = hash_key[w.carry.key].partial
  /\ pc[t] # "move_set" => w.carry = None

(***************************************************************************)
(* What its guard lets it rely on until it drops the guard.                *)
(***************************************************************************)
Passed(n) == {buckets[b][s] : b \in 0 .. n - 1, s \in Slot} \ {None}

HoldFits(t) ==
  /\ pc[t] = "resize_load" => hashpower = loc[t].hp0
  /\ pc[t] \in RehashLabels => hashpower = loc[t].hp0 + 1
  /\ pc[t] = "rehash_one" => /\ loc[t].old \in TabType(loc[t].hp0)
                             /\ loc[t].cur < hashsize(loc[t].hp0) * SLOT_PER_BUCKET
  /\ pc[t] = "move_set" => hashpower = loc[t].walk.hp
  /\ pc[t] = "clear" => /\ loc[t].cur < hashsize(hashpower) * SLOT_PER_BUCKET
                        /\ guard[t].phase # "held" => loc[t].cur = 0
  /\ pc[t] \in {"clear_count", "len"} => loc[t].cur \in Lock
  /\ pc[t] \in {"clear_lock", "iter_lock"} => loc[t].cur = 0
  /\ pc[t] = "iter" => /\ loc[t].cur <= hashsize(hashpower)
                       /\ guard[t].phase # "held" => loc[t].cur = 0
                       /\ ret[t].value = Passed(loc[t].cur)

OuterFits(t) ==
  InBody(t) =>
    LET o == Head(outer[t]) IN
    /\ o.call \in IterCall /\ LocalsFit(o.loc)
    /\ call[t] \in BodyCall
    /\ o.loc.cur <= hashsize(hashpower)
    /\ o.loc.walk.carry = None
    /\ o.ret.value = Passed(o.loc.cur)

ThreadFits(t) ==
  /\ TypeFits(t) /\ CallFits(t) /\ GuardFits(t) /\ IndexFits(t)
  /\ WalkFits(t) /\ HoldFits(t) /\ OuterFits(t)

MapInv == TableTypes /\ Domains /\ \A t \in Thread : ThreadFits(t)
=============================================================================

---------------------------- MODULE CuckooMapBody ----------------------------
(***************************************************************************)
(* Lookups from the body of an iteration.  The iterator of the same thread *)
(* has every stripe, so a lookup that fell back to the locks would wait    *)
(* for itself.  None does: the stripes keep the writers out and the        *)
(* versions even, so what the first attempt reads is what it validates.    *)
(***************************************************************************)
EXTENDS CuckooMapHome

\* The calls that never ask for a lock, unless a lookup falls back to it.
Unlocked == {"get", "contains_key", "len", "is_empty",
             "set_maximum_hashpower", "set_minimum_load_factor"}

UnlockedBody(c) == c.op = "iter" => \A b \in c.value : b.op \in Unlocked

UnlockedBodies ==
  \A s \in DOMAIN Script : \A t \in Thread : \A n \in DOMAIN Script[s][t] :
    \A c \in Script[s][t][n] : UnlockedBody(c)

BodyCalls(t) ==
  /\ UnlockedBody(call[t])
  /\ InBody(t) => call[t].op \in Unlocked /\ UnlockedBody(Head(outer[t]).call)

(***************************************************************************)
(* What a thread keeps of an old container, it keeps under all stripes.    *)
(***************************************************************************)
OldFits(t) ==
  /\ loc[t].old # None => \/ pc[t] \in RehashLabels
                          \/ pc[t] = "clear" /\ guard[t].phase = "held"
  /\ InBody(t) => Head(outer[t]).loc.old = None

-----------------------------------------------------------------------------
(***************************************************************************)
(* A lookup that nobody disturbs: n counts the slots of its two buckets in *)
(* the order it reads them.                                                *)
(***************************************************************************)
CellRead(l, n) ==
  buckets[IF n < SLOT_PER_BUCKET THEN l.i1 ELSE l.i2][n % SLOT_PER_BUCKET]

Holds(b, s, k, x) == buckets[b][s] # None /\ buckets[b][s].key = k /\ buckets[b][s].value = x

\* x is the value of k in its buckets, or None and k is in neither.
Says(k, x) ==
  \/ \E b \in Homes(k), s \in Slot : Holds(b, s, k, x)
  \/ x = None /\ \A b \in Homes(k), s \in Slot : buckets[b][s] # None => buckets[b][s].key # k

Compared == {"after_v1", "after_v2", "after_counter"}

Undisturbed(t) ==
  LET l == loc[t] IN
  /\ pc[t] \notin Snapshots
  /\ pc[t] \in Optimistic \ ({"read_cells"} \cup Compared) => l.cur = 0
  /\ pc[t] \in Optimistic \ Compared => l.hit = None
  /\ pc[t] \in Validating \cup {"read_counter"} => l.hp = hashpower
  /\ pc[t] \in Validating => l.counter = resize_counter
  /\ pc[t] \in Optimistic => l.same
  /\ pc[t] \in {"read_v2", "read_cells"} \cup Compared => l.v1 = version[lock_ind(l.i1)]
  /\ pc[t] \in {"read_cells"} \cup Compared => l.v2 = version[lock_ind(l.i2)]
  /\ pc[t] = "read_cells" =>
       /\ l.cur < 2 * SLOT_PER_BUCKET
       /\ \A n \in 0 .. l.cur - 1 :
            CellRead(l, n) # None => CellRead(l, n).key # call[t].key
  /\ pc[t] \in Compared => Says(call[t].key, l.hit)
  /\ pc[t] = "return" /\ call[t].key \in Key =>
       \E x \in Value \cup {None} : Says(call[t].key, x) /\ ret[t] = Hit(call[t], x)

BodyFits(t) == BodyCalls(t) /\ OldFits(t) /\ (InBody(t) => Undisturbed(t))

BodyInv == \A t \in Thread : BodyFits(t)
=============================================================================

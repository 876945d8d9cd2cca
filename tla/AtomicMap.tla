------------------------------ MODULE AtomicMap ------------------------------
(***************************************************************************)
(* What the map promises its callers: a dictionary on which every call     *)
(* takes effect at one instant between its invocation and its return.      *)
(*                                                                         *)
(* A lookup changes nothing, so it is enough that its answer is the        *)
(* dictionary's value for the key at some instant since its invocation:    *)
(* seen[t] collects those values.  For a len it collects the sizes the     *)
(* dictionary has had, and None if an update overlapped: the answer may    *)
(* then be any number.                                                     *)
(***************************************************************************)
EXTENDS Integers, FiniteSets

CONSTANTS Thread, Key, Value, None

VARIABLES
  map,     \* Key -> Value or None
  phase,   \* of each thread's call: "idle", "pending" or "done"
  call,    \* [op, key, value]
  ret,     \* [kind, value], the answer of a call that is done
  seen     \* what a pending lookup or len has had to see

mapVars == <<map, phase, call, ret, seen>>

Lookups == {"get", "contains_key", "get_key_value"}
Counts  == {"len", "is_empty"}
Updates == {"insert", "remove", "clear"}

Entries == {[key |-> k, value |-> map[k]] : k \in {k \in Key : map[k] # None}}

Init ==
  /\ map \in [Key -> Value \cup {None}]
  /\ phase = [t \in Thread |-> "idle"]
  /\ seen  = [t \in Thread |-> {}]
  /\ \A t \in Thread : call[t].op = "none"
  /\ ret \in [Thread -> {[kind |-> "Ok", value |-> None]}]

Updating == {u \in Thread : phase[u] # "idle" /\ call[u].op \in Updates}

Glimpse(t) ==
  CASE call[t].op \in Lookups -> {map[call[t].key]}
    [] call[t].op \in Counts  -> {Cardinality(Entries)} \cup {None : u \in Updating}
    [] OTHER                  -> {}

Observe ==
  seen' = [t \in Thread |-> IF phase'[t] = "pending" THEN seen[t] \cup Glimpse(t)' ELSE {}]

Invoke(t) ==
  /\ phase[t] = "idle"
  /\ phase' = [phase EXCEPT ![t] = "pending"]
  /\ call'[t].op # "none"
  /\ \A u \in Thread \ {t} : call'[u] = call[u]
  /\ UNCHANGED <<map, ret>>

Finish(t, kind, value) ==
  /\ phase[t] = "pending"
  /\ phase' = [phase EXCEPT ![t] = "done"]
  /\ ret' = [ret EXCEPT ![t] = [kind |-> kind, value |-> value]]
  /\ UNCHANGED call

Insert(t) ==
  LET k == call[t].key IN
  /\ call[t].op = "insert"
  /\ map' = [map EXCEPT ![k] = call[t].value]
  /\ Finish(t, "Ok", map[k])

InsertFails(t) ==
  /\ call[t].op = "insert"
  /\ \E why \in {"MaximumHashpowerExceeded", "LoadFactorTooLow"} : Finish(t, why, None)
  /\ UNCHANGED map

Remove(t) ==
  LET k == call[t].key IN
  /\ call[t].op = "remove"
  /\ map' = [map EXCEPT ![k] = None]
  /\ Finish(t, "Ok", map[k])

Lookup(t) ==
  /\ call[t].op \in Lookups
  /\ \E x \in seen[t] :
       IF call[t].op = "contains_key" THEN Finish(t, "Contains", x # None)
       ELSE Finish(t, "Ok", x)
  /\ UNCHANGED map

Clear(t) ==
  /\ call[t].op = "clear"
  /\ map' = [k \in Key |-> None]
  /\ Finish(t, ret[t].kind, ret[t].value)

Iterate(t) ==
  /\ call[t].op = "iter"
  /\ Finish(t, "Items", Entries)
  /\ UNCHANGED map

\* An iteration that is left early has seen some of the entries.
Abandon(t) ==
  /\ call[t].op = "iter"
  /\ ret'[t].kind = "Dropped" /\ ret'[t].value \subseteq Entries
  /\ Finish(t, "Dropped", ret'[t].value)
  /\ UNCHANGED map

Size(t, n) == n \in Nat /\ (n \in seen[t] \/ None \in seen[t])

Length(t) ==
  /\ \/ /\ call[t].op = "len"
        /\ Size(t, ret'[t].value)
        /\ Finish(t, "Len", ret'[t].value)
     \/ /\ call[t].op = "is_empty"
        /\ \E n \in {0, 1} \cup (seen[t] \ {None}) :
             Size(t, n) /\ Finish(t, "IsEmpty", n = 0)
  /\ UNCHANGED map

Configure(t) ==
  /\ call[t].op \in {"set_maximum_hashpower", "set_minimum_load_factor"}
  /\ Finish(t, ret[t].kind, ret[t].value)
  /\ UNCHANGED map

Return(t) ==
  /\ phase[t] = "done"
  /\ phase' = [phase EXCEPT ![t] = "idle"]
  /\ call'[t].op = "none"
  /\ \A u \in Thread \ {t} : call'[u] = call[u] /\ ret'[u] = ret[u]
  /\ UNCHANGED map

Next ==
  /\ \E t \in Thread :
       \/ Invoke(t) \/ Insert(t) \/ InsertFails(t) \/ Remove(t) \/ Lookup(t)
       \/ Clear(t) \/ Iterate(t) \/ Abandon(t) \/ Length(t) \/ Configure(t) \/ Return(t)
  /\ Observe

Spec == Init /\ [][Next]_mapVars
=============================================================================

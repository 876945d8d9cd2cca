------------------------- MODULE CuckooMapSequential -------------------------
(***************************************************************************)
(* How CuckooMap implements AtomicMap when calls do not overlap: lookups   *)
(* and len then see one state of the map from their invocation to their    *)
(* return, and AtomicMap's seen needs no history.                          *)
(*                                                                         *)
(* A call is done, in AtomicMap's sense, from the step that decides it:    *)
(* the slot write of an insert or remove, the last slot of a clear, the    *)
(* validation of an optimistic read.  An iteration is one call: what its   *)
(* body calls is not the dictionary's concern (see BodyLookupsNeedNoLock). *)
(***************************************************************************)
EXTENDS CuckooMap

PhaseOf(t) ==
  CASE InBody(t)                                                              -> "pending"
    [] pc[t] = "idle"                                                         -> "idle"
    [] pc[t] \in {"return", "insert_count", "remove_count", "clear_count"}
         /\ ~InBody(t)                                                        -> "done"
    [] OTHER                                                                  -> "pending"

OuterCall(t) == IF InBody(t) THEN Head(outer[t]).call ELSE call[t]

\* What an iterator has collected so far is not yet its answer.
Answered(t) == IF pc[t] = "iter" \/ InBody(t) THEN Ok(None) ELSE ret[t]

SeenNow(t) ==
  CASE PhaseOf(t) # "pending"                                    -> {}
    [] call[t].op \in {"get", "contains_key", "get_key_value"}
         /\ ~InBody(t)                                          -> {Contents[call[t].key]}
    [] call[t].op \in {"len", "is_empty"} /\ ~InBody(t)         ->
         {Cardinality({k \in Key : Contents[k] # None})}
    [] OTHER                                                     -> {}

Sequential == INSTANCE AtomicMap WITH
  map   <- Contents,
  phase <- [t \in Thread |-> PhaseOf(t)],
  call  <- [t \in Thread |-> OuterCall(t)],
  ret   <- [t \in Thread |-> Answered(t)],
  seen  <- [t \in Thread |-> SeenNow(t)]

\* Called by one thread, the map is a dictionary, through displacements,
\* doublings and refused inserts: each call returns what the key had, changes
\* that key only, and a refused insert changes nothing.
ActsAsDictionary == Sequential!Spec
=============================================================================

--------------------------- MODULE CuckooMapAtomic ---------------------------
(***************************************************************************)
(* CuckooMap implements AtomicMap.  A history variable, seen, records what *)
(* AtomicMap lets calls in progress observe: the values that a lookup's    *)
(* key has had since the call, the sizes that the map has had since a len. *)
(* No step of CuckooMap depends on it.                                     *)
(***************************************************************************)
EXTENDS CuckooMapSequential

VARIABLE seen

Atomic == INSTANCE AtomicMap WITH
  map   <- Contents,
  phase <- [t \in Thread |-> PhaseOf(t)],
  call  <- [t \in Thread |-> OuterCall(t)],
  ret   <- [t \in Thread |-> Answered(t)]

SeenInit == Init /\ seen = [t \in Thread |-> {}]

SeenNext == Next /\ Atomic!Observe

SeenSpec == SeenInit /\ [][SeenNext]_<<vars, seen>>

-----------------------------------------------------------------------------
\* Every call on the map takes effect at one instant between its invocation
\* and its return, lookups answer with a value the key had meanwhile, and len
\* and is_empty are exact unless an update overlaps them.
Linearizable == Atomic!Spec

\* A key leaves the map only by a remove of that key or by a clear.
NothingLost ==
  [][\A k \in Key : Contents[k] # None /\ Contents'[k] = None =>
       \E t \in Thread : call[t].op = "clear" \/ (call[t].op = "remove" /\ call[t].key = k)]_vars
=============================================================================

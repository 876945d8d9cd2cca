---------------------------- MODULE CuckooMapClone ----------------------------
(***************************************************************************)
(* Clone for CuckooHashMap: a map of default size and default settings     *)
(* that the items of the original are inserted into, one by one, in the    *)
(* order of its iterator.  The iterator keeps the original as it was.      *)
(*                                                                         *)
(* The variables of CuckooMap are the original until clone, the copy from  *)
(* then on; one thread makes the calls on both.                            *)
(***************************************************************************)
EXTENDS CuckooMap

VARIABLES
  original,    \* what the original holds, from clone on; None before
  rest         \* the items that the loop has not inserted yet

cloneVars == <<original, rest>>

CloneInit == Init /\ original = None /\ rest = <<>>

\* What the iterator yields, in its order.
InOrder ==
  FoldLeft(LAMBDA seq, pos : IF occupied(buckets, pos[1], pos[2])
                             THEN Append(seq, buckets[pos[1]][pos[2]]) ELSE seq,
           <<>>, Positions(hashpower))

\* with_hasher: DEFAULT_CAPACITY and the default settings, not the original's.
clone(t) ==
  /\ At(t, "idle") /\ original = None
  /\ original' = Contents
  /\ rest' = InOrder
  /\ buckets' = BucketContainer(InitHashpower) /\ hashpower' = InitHashpower
  /\ resize_counter' = 0
  /\ elem_counter' = [l \in Lock |-> 0]
  /\ maximum_hashpower' = InitMaximum /\ minimum_load_factor' = MinimumLoad
  /\ version' = [l \in Lock |-> 0]
  /\ UNCHANGED <<locked, guard, threadVars, pc, loc>>

\* let _ = new_map.insert(k, v): the result is dropped when the call returns.
insert_next(t) ==
  /\ At(t, "idle") /\ rest # <<>>
  /\ Start(t, [op |-> "insert", key |-> Head(rest).key, value |-> Head(rest).value])
  /\ rest' = Tail(rest)
  /\ UNCHANGED <<tableVars, ret, outer, calls, scenario, original>>

Copied == original # None /\ rest = <<>> /\ \A t \in Thread : pc[t] = "idle"

CloneNext ==
  \/ \E t \in Thread :
       \/ original = None /\ Invoke(t) /\ UNCHANGED cloneVars
       \/ Continue(t) /\ UNCHANGED cloneVars
       \/ clone(t)
       \/ insert_next(t)
  \/ Copied /\ UNCHANGED <<vars, cloneVars>>

CloneSpec == CloneInit /\ [][CloneNext]_<<vars, cloneVars>>

-----------------------------------------------------------------------------
\* A clone holds what the original held: no item is refused by the copy,
\* which starts smaller than the original may be and with other settings.
DeepCopy == Copied => Contents = original
=============================================================================

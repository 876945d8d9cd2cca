---------------------------- MODULE StripedGuards ----------------------------
(***************************************************************************)
(* The constructors and destructors of the four guards of lock.rs, word by *)
(* word.  A guard goes through its stripes one after the other: a guard of *)
(* two buckets through lock1_idx and, unless that is None, lock2_idx; one  *)
(* of all locks through the array.  Nothing but this order keeps it from   *)
(* locking, bumping or releasing a stripe twice.                           *)
(*                                                                         *)
(* The set-valued guard of StripedLocks is here a history variable: what   *)
(* the guard has locked and made odd so far.  That each step does to it    *)
(* what StripedLocks says is ImplementsStripedLocks; CuckooMap builds on   *)
(* StripedLocks.                                                           *)
(***************************************************************************)
EXTENDS StripedLocks, Sequences

VARIABLES
  stripes,  \* the stripes of each thread's guard, in the order it locks them
  at        \* which of them the current loop of its life has reached

guardVars == <<lockVars, stripes, at>>

GuardsInit ==
  /\ LocksInit
  /\ stripes = [t \in Thread |-> <<>>]
  /\ at      = [t \in Thread |-> 1]

-----------------------------------------------------------------------------
\* Mutant: Some(second) where the code has None.
PairWithoutNone(l1, l2) == IF l1 <= l2 THEN <<l1, l2>> ELSE <<l2, l1>>

\* Mutant: the order of the arguments.
PairUnsorted(l1, l2) == IF l1 # l2 THEN <<l1, l2>> ELSE <<l1>>

\* lock1_idx and lock2_idx: the lower stripe first, and None for the second
\* one if it is the same.
Pair(l1, l2) == CASE l1 < l2 -> <<l1, l2>> [] l1 > l2 -> <<l2, l1>> [] OTHER -> <<l1>>

AllStripes == [n \in 1 .. NumLocks |-> n - 1]

NewGuard(t, k, order) ==
  /\ new(t, k, {order[n] : n \in DOMAIN order})
  /\ stripes' = [stripes EXCEPT ![t] = order]
  /\ UNCHANGED at

NewPair(t) ==
  \E l1, l2 \in Lock, k \in Kind \ All :
    /\ k \in Write => \A l \in {l1, l2} : version[l] < MaxVersion
    /\ NewGuard(t, k, Pair(l1, l2))

NewWhole(t) ==
  \E k \in All :
    /\ k \in Write => \A l \in Lock : version[l] < MaxVersion
    /\ NewGuard(t, k, AllStripes)

-----------------------------------------------------------------------------
(***************************************************************************)
(* The loops.  A guard of two buckets is released from its last stripe to  *)
(* its first; everything else goes from the first to the last.             *)
(***************************************************************************)
This(t) ==
  IF guard[t].phase = "unlock" /\ guard[t].kind \notin All
  THEN stripes[t][Len(stripes[t]) + 1 - at[t]] ELSE stripes[t][at[t]]

AtLast(t) == at[t] = Len(stripes[t])

\* The next stripe of the same loop, or the first one of the next loop.
Advance(t) ==
  /\ at' = [at EXCEPT ![t] = IF AtLast(t) THEN 1 ELSE at[t] + 1]
  /\ UNCHANGED stripes

\* Mutant: locks the first stripe only.
LockFirstOnly(t) ==
  /\ guard[t].phase = "lock"
  /\ lock(This(t))
  /\ guard' = [guard EXCEPT ![t].got = @ \cup {This(t)},
                 ![t].phase = AfterLocking(guard[t].kind)]
  /\ UNCHANGED <<version, stripes, at>>

LockNext(t) ==
  /\ guard[t].phase = "lock"
  /\ lock(This(t))
  /\ guard' = [guard EXCEPT ![t].got = @ \cup {This(t)},
                 ![t].phase = IF AtLast(t) THEN AfterLocking(guard[t].kind) ELSE "lock"]
  /\ Advance(t) /\ UNCHANGED version

\* Mutant: bumps the second stripe also where it is the first one.
StartTwice(t) ==
  /\ guard[t].phase = "bump"
  /\ version' = [version EXCEPT ![This(t)] =
       @ + IF guard[t].kind \notin All /\ Len(stripes[t]) = 1 THEN 2 ELSE 1]
  /\ guard' = [guard EXCEPT ![t].odd = @ \cup {This(t)},
                 ![t].phase = IF AtLast(t) THEN "held" ELSE "bump"]
  /\ Advance(t) /\ UNCHANGED locked

StartNext(t) ==
  /\ guard[t].phase = "bump"
  /\ increment_version_start(This(t))
  /\ guard' = [guard EXCEPT ![t].odd = @ \cup {This(t)},
                 ![t].phase = IF AtLast(t) THEN "held" ELSE "bump"]
  /\ Advance(t) /\ UNCHANGED locked

Drop(t) == drop(t) /\ UNCHANGED <<stripes, at>>

EndNext(t) ==
  /\ guard[t].phase = "unbump"
  /\ increment_version_end(This(t))
  /\ guard' = [guard EXCEPT ![t].odd = @ \ {This(t)},
                 ![t].phase = IF AtLast(t) THEN "unlock" ELSE "unbump"]
  /\ Advance(t) /\ UNCHANGED locked

\* Mutant: releases the second stripe also where it is the first one.
UnlockTwice(t) ==
  /\ guard[t].phase = "unlock"
  /\ LET twice == guard[t].kind \notin All /\ Len(stripes[t]) = 1
         l     == IF twice THEN stripes[t][1] ELSE This(t)
         last  == IF twice THEN at[t] = 2 ELSE AtLast(t)
     IN  /\ unlock(l)
         /\ guard' = [guard EXCEPT ![t] = IF last THEN NoGuard
                                          ELSE [@ EXCEPT !.got = @ \ {l}]]
         /\ at' = [at EXCEPT ![t] = IF last THEN 1 ELSE at[t] + 1]
         /\ stripes' = [stripes EXCEPT ![t] = IF last THEN <<>> ELSE @]
  /\ UNCHANGED version

UnlockNext(t) ==
  /\ guard[t].phase = "unlock"
  /\ unlock(This(t))
  /\ guard' = [guard EXCEPT ![t] = IF AtLast(t) THEN NoGuard
                                   ELSE [@ EXCEPT !.got = @ \ {This(t)}]]
  /\ IF AtLast(t)
     THEN stripes' = [stripes EXCEPT ![t] = <<>>] /\ at' = [at EXCEPT ![t] = 1]
     ELSE Advance(t)
  /\ UNCHANGED version

-----------------------------------------------------------------------------
(***************************************************************************)
(* Any client: threads build guards over any two buckets or over all       *)
(* locks, hold them for a while and drop them.  Each thread keeps running; *)
(* nothing makes it ask for a new guard, and a spinlock gives no fairness  *)
(* between contenders, so locking is only weakly fair.                     *)
(***************************************************************************)
Proceed(t) == LockNext(t) \/ StartNext(t) \/ Drop(t) \/ EndNext(t) \/ UnlockNext(t)

GuardsNext == \E t \in Thread : NewPair(t) \/ NewWhole(t) \/ Proceed(t)

GuardsSpec == GuardsInit /\ [][GuardsNext]_guardVars

GuardsFairSpec == GuardsSpec /\ \A t \in Thread : WF_guardVars(Proceed(t))

-----------------------------------------------------------------------------
\* A constructor and a destructor that go through lock1_idx and lock2_idx (or
\* through the array) do to the lock words, to the versions and to what they
\* own exactly what StripedLocks says of a set of stripes: each is locked,
\* bumped, unbumped and released once, in ascending order or, by the release
\* of two buckets, in descending order, also where both buckets have the same
\* stripe and lock2_idx is None.
ImplementsStripedLocks == LocksSpec
=============================================================================

---------------------------- MODULE StripedLocks ----------------------------
(***************************************************************************)
(* The striped spinlocks of lock.rs and the four RAII guards built on      *)
(* them.  A guard takes the locks it wants in ascending index order; a     *)
(* write guard then makes the version of each of its stripes odd, and      *)
(* even again when it is dropped, before it releases the locks.  Every     *)
(* access to a shared word (one compare-and-swap, one fetch_add, one       *)
(* store) is a step of its own, so that optimistic readers and other       *)
(* threads can observe every intermediate state.                           *)
(*                                                                         *)
(* A spinning thread changes nothing, so a failed compare_exchange_weak    *)
(* and the inner spin loop of Spinlock::lock are stuttering steps.         *)
(***************************************************************************)
EXTENDS Integers

CONSTANTS
  Thread,     \* the threads that share the map
  NumLocks,   \* locks.len(), fixed when the map is created
  MaxVersion  \* no new write guard on a stripe whose version is this large
              \* (bounds the model; the code's u64 bounds it by 2^64)

ASSUME NumLocksAssumption == NumLocks \in Nat \ {0}

ASSUME MaxVersionAssumption == MaxVersion \in Nat

Lock == 0 .. NumLocks - 1

VARIABLES
  locked,     \* Spinlock.locked of each stripe
  version,    \* Spinlock.version of each stripe
  guard       \* the guard each thread is building, holding or dropping

lockVars == <<locked, version, guard>>

Read  == {"TwoBucketGuard", "AllLocksGuard"}
Write == {"TwoBucketWriteGuard", "AllLocksWriteGuard"}
All   == {"AllLocksGuard", "AllLocksWriteGuard"}
Kind  == Read \cup Write

(***************************************************************************)
(* A guard that wants the stripes "want" has locked those in "got" and     *)
(* made odd the versions of those in "odd".  Two buckets under one stripe  *)
(* give want = {l}: the lock2_idx = None case.                             *)
(***************************************************************************)
NoGuard == [phase |-> "none", kind |-> "TwoBucketGuard",
            want |-> {}, got |-> {}, odd |-> {}]

Phase == {"none", "lock", "bump", "held", "unbump", "unlock"}

LocksInit ==
  /\ locked  = [l \in Lock |-> FALSE]
  /\ version = [l \in Lock |-> 0]
  /\ guard   = [t \in Thread |-> NoGuard]

Lowest(l, S)  == l \in S /\ \A m \in S : l <= m
Highest(l, S) == l \in S /\ \A m \in S : m <= l

-----------------------------------------------------------------------------
(***************************************************************************)
(* Spinlock operations.                                                    *)
(***************************************************************************)
lock(l)   == ~locked[l] /\ locked' = [locked EXCEPT ![l] = TRUE]
unlock(l) == locked' = [locked EXCEPT ![l] = FALSE]

\* Mutant: fetch_sub for fetch_add.
StartBySubtracting(l) == version' = [version EXCEPT ![l] = @ - 1]

increment_version_start(l) == version' = [version EXCEPT ![l] = @ + 1]

\* Mutant: puts the old version back instead of moving to the next even one.
EndByRestoring(l) == version' = [version EXCEPT ![l] = @ - 1]

increment_version_end(l) == version' = [version EXCEPT ![l] = @ + 1]

-----------------------------------------------------------------------------
(***************************************************************************)
(* Guard construction.  new(t, k, S) enters the constructor; AcquireNext   *)
(* and BumpNext are its loop bodies.                                       *)
(***************************************************************************)
new(t, k, S) ==
  /\ guard[t].phase = "none"
  /\ guard' = [guard EXCEPT ![t] = [NoGuard EXCEPT !.phase = "lock",
                                                   !.kind = k, !.want = S]]
  /\ UNCHANGED <<locked, version>>

AfterLocking(k) == IF k \in Write THEN "bump" ELSE "held"

AcquireNext(t) ==
  /\ guard[t].phase = "lock"
  /\ \E l \in Lock :
       /\ Lowest(l, guard[t].want \ guard[t].got)
       /\ lock(l)
       /\ guard' = [guard EXCEPT
            ![t].got = @ \cup {l},
            ![t].phase = IF guard[t].got \cup {l} = guard[t].want
                         THEN AfterLocking(guard[t].kind) ELSE "lock"]
  /\ UNCHANGED version

BumpNext(t) ==
  /\ guard[t].phase = "bump"
  /\ \E l \in Lock :
       /\ Lowest(l, guard[t].want \ guard[t].odd)
       /\ increment_version_start(l)
       /\ guard' = [guard EXCEPT
            ![t].odd = @ \cup {l},
            ![t].phase = IF guard[t].odd \cup {l} = guard[t].want
                         THEN "held" ELSE "bump"]
  /\ UNCHANGED locked

-----------------------------------------------------------------------------
(***************************************************************************)
(* Drop.  drop(t) starts the destructor; a write guard first makes its     *)
(* versions even, in index order, and only then releases its locks: the    *)
(* higher one first for two buckets, in index order for all locks.         *)
(***************************************************************************)
drop(t) ==
  /\ guard[t].phase = "held"
  /\ guard' = [guard EXCEPT ![t].phase =
                 IF guard[t].kind \in Write THEN "unbump" ELSE "unlock"]
  /\ UNCHANGED <<locked, version>>

UnbumpNext(t) ==
  /\ guard[t].phase = "unbump"
  /\ \E l \in Lock :
       /\ Lowest(l, guard[t].odd)
       /\ increment_version_end(l)
       /\ guard' = [guard EXCEPT
            ![t].odd = @ \ {l},
            ![t].phase = IF guard[t].odd = {l} THEN "unlock" ELSE "unbump"]
  /\ UNCHANGED locked

ReleaseNext(t) ==
  /\ guard[t].phase = "unlock"
  /\ \E l \in Lock :
       /\ IF guard[t].kind \in All THEN Lowest(l, guard[t].got)
                                   ELSE Highest(l, guard[t].got)
       /\ unlock(l)
       /\ guard' = [guard EXCEPT
            ![t] = IF guard[t].got = {l} THEN NoGuard
                   ELSE [guard[t] EXCEPT !.got = guard[t].got \ {l}]]
  /\ UNCHANGED version

GuardStep(t) ==
  AcquireNext(t) \/ BumpNext(t) \/ UnbumpNext(t) \/ ReleaseNext(t)

-----------------------------------------------------------------------------
(***************************************************************************)
(* Any client: threads build guards over any two stripes or over all of    *)
(* them, hold them for a while and drop them.                              *)
(***************************************************************************)
NewTwo(t) ==
  \E l1, l2 \in Lock, k \in Kind \ All :
    /\ k \in Write => \A l \in {l1, l2} : version[l] < MaxVersion
    /\ new(t, k, {l1, l2})

NewAll(t) ==
  \E k \in All :
    /\ k \in Write => \A l \in Lock : version[l] < MaxVersion
    /\ new(t, k, Lock)

LocksNext ==
  \E t \in Thread : NewTwo(t) \/ NewAll(t) \/ GuardStep(t) \/ drop(t)

LocksSpec == LocksInit /\ [][LocksNext]_lockVars

-----------------------------------------------------------------------------
(***************************************************************************)
(* The types of the three variables.                                       *)
(***************************************************************************)
GuardRecord == [phase : Phase, kind : Kind, want : SUBSET Lock,
                got : SUBSET Lock, odd : SUBSET Lock]

LocksTypeOK ==
  /\ locked  \in [Lock -> BOOLEAN]
  /\ version \in [Lock -> Nat]
  /\ guard   \in [Thread -> GuardRecord]

\* Mutual exclusion of stripes: no stripe is in the hands of two guards, and
\* the lock word of a stripe is set exactly while some guard has it
\* (Spinlock::lock, Spinlock::unlock and the guards' bookkeeping agree).
StripeExclusion ==
  /\ \A t, u \in Thread : t # u => guard[t].got \cap guard[u].got = {}
  /\ \A l \in Lock : locked[l] <=> \E t \in Thread : l \in guard[t].got

\* What the version counters promise optimistic readers: a version is odd
\* exactly while a write guard that still has the stripe locked is between
\* its two increments, whatever the order in which guards come and go.
VersionParity ==
  \A l \in Lock :
    version[l] % 2 = 1 <=>
      \E t \in Thread : l \in guard[t].odd /\ l \in guard[t].got
                        /\ guard[t].kind \in Write

\* A finished constructor owns all it asked for: a held guard has every
\* wanted stripe locked, and a held write guard has made all of them odd.
GuardComplete ==
  \A t \in Thread : guard[t].phase = "held" =>
    /\ guard[t].got = guard[t].want
    /\ guard[t].kind \in Write => guard[t].odd = guard[t].want

\* A thread waits only for a stripe above all the stripes it has: the rule
\* "lower index first" of the two-bucket guards, which the all-locks guards
\* share.  It is what excludes a cycle of waiting threads.
AscendingWait ==
  \A t \in Thread : guard[t].phase = "lock" =>
    \A h \in guard[t].got, l \in guard[t].want \ guard[t].got : h < l

Active(t)  == guard[t].phase # "none"
Blocked(t) ==
  /\ guard[t].phase = "lock"
  /\ \E l \in Lock : Lowest(l, guard[t].want \ guard[t].got) /\ locked[l]

\* Whatever mix of two-bucket and all-locks guards the threads build, they
\* are never all waiting on each other: some thread with a guard can move.
NoDeadlock ==
  (\E t \in Thread : Active(t)) => \E t \in Thread : Active(t) /\ ~Blocked(t)

\* A stripe's version never goes back, and it moves only by the hand of the
\* one thread whose guard has the stripe locked before and after the step.
VersionMovesUnderLock ==
  [][\A l \in Lock : version'[l] # version[l] =>
       /\ version'[l] = version[l] + 1
       /\ \E t \in Thread : l \in guard[t].got /\ l \in guard'[t].got]_lockVars

\* Deadlock freedom as progress: as long as some constructor is spinning,
\* some thread eventually gets its guard (not necessarily the same one).
SomeGuardCompletes ==
  (\E t \in Thread : guard[t].phase = "lock")
    ~> (\E t \in Thread : guard[t].phase = "held")
=============================================================================

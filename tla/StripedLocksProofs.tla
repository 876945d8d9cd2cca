------------------------- MODULE StripedLocksProofs -------------------------
(***************************************************************************)
(* Proofs about StripedLocks, for any set of threads, any number of locks  *)
(* and any bound on versions.  Everything follows from one inductive       *)
(* invariant, IInv: the types, what each phase of a guard's life implies   *)
(* for its bookkeeping (GuardOK), exclusion, ascending acquisition, and    *)
(* the parity of versions.                                                 *)
(***************************************************************************)
EXTENDS StripedLocks, TLAPS, WellFoundedInduction

(***************************************************************************)
(* What the phase of a guard says about the stripes it wants, has locked   *)
(* and has made odd.                                                       *)
(***************************************************************************)
GuardOK(g) ==
  /\ g.odd \subseteq g.got /\ g.got \subseteq g.want
  /\ g.phase = "none"   => g.want = {}
  /\ g.phase = "lock"   => g.odd = {}
  /\ g.phase = "bump"   => g.kind \in Write /\ g.got = g.want
  /\ g.phase = "held"   => /\ g.got = g.want
                           /\ g.odd = IF g.kind \in Write THEN g.want ELSE {}
  /\ g.phase = "unbump" => g.kind \in Write /\ g.got = g.want
  /\ g.phase = "unlock" => g.odd = {}
  /\ g.odd # {} => g.kind \in Write

AllGuardsOK == \A t \in Thread : GuardOK(guard[t])

Disjoint == \A t, u \in Thread : t # u => guard[t].got \cap guard[u].got = {}

LockedByHolder == \A l \in Lock : locked[l] <=> \E t \in Thread : l \in guard[t].got

OddWhileWriting ==
  \A l \in Lock : version[l] % 2 = 1 <=> \E t \in Thread : l \in guard[t].odd

IInv == /\ LocksTypeOK
        /\ AllGuardsOK
        /\ Disjoint
        /\ LockedByHolder
        /\ AscendingWait
        /\ OddWhileWriting

LEMMA Parity == \A n \in Nat : (n + 1) % 2 = 1 <=> ~(n % 2 = 1)
  OBVIOUS

LEMMA NoGuardType == NoGuard \in GuardRecord
  BY DEF NoGuard, GuardRecord, Phase, Kind, Read, Write

LEMMA InitIInv == LocksInit => IInv
  <1> SUFFICES ASSUME LocksInit PROVE IInv
    OBVIOUS
  <1>1. LocksTypeOK
    BY NoGuardType DEF LocksInit, LocksTypeOK
  <1>2. AllGuardsOK
    BY DEF LocksInit, AllGuardsOK, GuardOK, NoGuard
  <1>3. Disjoint /\ LockedByHolder /\ AscendingWait
    BY DEF LocksInit, Disjoint, LockedByHolder, AscendingWait, NoGuard
  <1>4. OddWhileWriting
    BY DEF LocksInit, OddWhileWriting, NoGuard
  <1>. QED
    BY <1>1, <1>2, <1>3, <1>4 DEF IInv

(***************************************************************************)
(* A guard of phase "lock" gains its lowest missing stripe.                *)
(***************************************************************************)
LEMMA AcquireIInv ==
  ASSUME NEW t \in Thread, IInv, AcquireNext(t)
  PROVE  IInv'
  <1>1. PICK l \in Lock :
          /\ Lowest(l, guard[t].want \ guard[t].got)
          /\ ~locked[l] /\ locked' = [locked EXCEPT ![l] = TRUE]
          /\ guard' = [guard EXCEPT
               ![t].got = @ \cup {l},
               ![t].phase = IF guard[t].got \cup {l} = guard[t].want
                            THEN AfterLocking(guard[t].kind) ELSE "lock"]
    BY DEF AcquireNext, lock
  <1>2. guard[t].phase = "lock" /\ version' = version
    BY DEF AcquireNext
  <1>. DEFINE g == guard[t]  g2 == guard'[t]
  <1>3. g \in GuardRecord /\ GuardOK(g)
    BY DEF IInv, LocksTypeOK, AllGuardsOK
  <1>4. /\ g2.phase = IF g.got \cup {l} = g.want THEN AfterLocking(g.kind) ELSE "lock"
        /\ g2.got = g.got \cup {l}
        /\ g2.want = g.want /\ g2.odd = g.odd /\ g2.kind = g.kind
        /\ g2 \in GuardRecord
        /\ \A u \in Thread \ {t} : guard'[u] = guard[u]
    BY <1>1, <1>3 DEF IInv, LocksTypeOK, GuardRecord, AfterLocking, Phase
  <1>5. l \notin g.got /\ \A u \in Thread : l \notin guard[u].got
    BY <1>1 DEF IInv, LockedByHolder
  <1>6. LocksTypeOK'
    BY <1>1, <1>2, <1>4 DEF IInv, LocksTypeOK
  <1>7. GuardOK(g2)
    <2>1. l \in g.want /\ g.phase = "lock"
      BY <1>1, <1>2 DEF Lowest
    <2>2. g2.phase \in {"lock", "bump", "held"}
      BY <1>4 DEF AfterLocking
    <2>. QED
      BY <2>1, <2>2, <1>3, <1>4 DEF GuardOK, AfterLocking
  <1>8. AllGuardsOK'
    BY <1>4, <1>7 DEF IInv, AllGuardsOK
  <1>9. Disjoint'
    BY <1>4, <1>5 DEF IInv, Disjoint
  <1>10. LockedByHolder'
    BY <1>1, <1>4 DEF IInv, LockedByHolder, LocksTypeOK
  <1>11. AscendingWait'
    <2> SUFFICES ASSUME NEW u \in Thread, guard'[u].phase = "lock",
                        NEW h \in guard'[u].got,
                        NEW m \in guard'[u].want \ guard'[u].got
                 PROVE  h < m
      BY DEF AscendingWait
    <2>1. CASE u # t
      BY <2>1, <1>4 DEF IInv, AscendingWait
    <2>2. CASE u = t
      <3>1. m \in g.want \ g.got /\ m # l /\ l <= m
        BY <2>2, <1>1, <1>4 DEF Lowest
      <3>2. m \in Lock /\ h \in Lock
        BY <2>2, <1>4, <3>1 DEF GuardRecord
      <3>3. CASE h = l
        BY <3>1, <3>2, <3>3, NumLocksAssumption DEF Lock
      <3>4. CASE h # l
        BY <2>2, <3>1, <3>4, <1>2, <1>4 DEF IInv, AscendingWait
      <3>. QED BY <3>3, <3>4
    <2>. QED BY <2>1, <2>2
  <1>12. OddWhileWriting'
    BY <1>2, <1>4 DEF IInv, OddWhileWriting
  <1>. QED
    BY <1>6, <1>8, <1>9, <1>10, <1>11, <1>12 DEF IInv

(***************************************************************************)
(* Starting a constructor, and starting a destructor.                      *)
(***************************************************************************)
LEMMA NewIInv ==
  ASSUME NEW t \in Thread, NEW k \in Kind, NEW S \in SUBSET Lock,
         IInv, new(t, k, S)
  PROVE  IInv'
  <1>1. /\ guard[t].phase = "none"
        /\ guard' = [guard EXCEPT ![t] = [NoGuard EXCEPT !.phase = "lock",
                                             !.kind = k, !.want = S]]
        /\ UNCHANGED <<locked, version>>
    BY DEF new
  <1>. DEFINE g == guard[t]  g2 == guard'[t]
  <1>2. /\ g2.phase = "lock" /\ g2.kind = k /\ g2.want = S
        /\ g2.got = {} /\ g2.odd = {}
        /\ g2 \in GuardRecord
        /\ \A u \in Thread \ {t} : guard'[u] = guard[u]
    BY <1>1, NoGuardType DEF IInv, LocksTypeOK, GuardRecord, NoGuard, Phase
  <1>3. g.got = {} /\ g.odd = {}
    BY <1>1 DEF IInv, AllGuardsOK, GuardOK
  <1>4. LocksTypeOK'
    BY <1>1, <1>2 DEF IInv, LocksTypeOK
  <1>5. AllGuardsOK'
    BY <1>2 DEF IInv, AllGuardsOK, GuardOK
  <1>6. Disjoint' /\ AscendingWait'
    BY <1>2 DEF IInv, Disjoint, AscendingWait
  <1>7. LockedByHolder' /\ OddWhileWriting'
    BY <1>1, <1>2, <1>3 DEF IInv, LockedByHolder, OddWhileWriting
  <1>. QED
    BY <1>4, <1>5, <1>6, <1>7 DEF IInv

LEMMA DropIInv ==
  ASSUME NEW t \in Thread, IInv, drop(t)
  PROVE  IInv'
  <1>1. /\ guard[t].phase = "held"
        /\ guard' = [guard EXCEPT ![t].phase =
                        IF guard[t].kind \in Write THEN "unbump" ELSE "unlock"]
        /\ UNCHANGED <<locked, version>>
    BY DEF drop
  <1>. DEFINE g == guard[t]  g2 == guard'[t]
  <1>2. /\ g2.phase = IF g.kind \in Write THEN "unbump" ELSE "unlock"
        /\ g2.got = g.got /\ g2.want = g.want /\ g2.odd = g.odd /\ g2.kind = g.kind
        /\ g2 \in GuardRecord
        /\ \A u \in Thread \ {t} : guard'[u] = guard[u]
    BY <1>1 DEF IInv, LocksTypeOK, GuardRecord, Phase
  <1>3. LocksTypeOK'
    BY <1>1, <1>2 DEF IInv, LocksTypeOK
  <1>4. GuardOK(g2)
    BY <1>1, <1>2 DEF IInv, AllGuardsOK, GuardOK
  <1>5. AllGuardsOK'
    BY <1>2, <1>4 DEF IInv, AllGuardsOK
  <1>6. Disjoint' /\ AscendingWait'
    BY <1>2 DEF IInv, Disjoint, AscendingWait
  <1>7. LockedByHolder' /\ OddWhileWriting'
    BY <1>1, <1>2 DEF IInv, LockedByHolder, OddWhileWriting
  <1>. QED
    BY <1>3, <1>5, <1>6, <1>7 DEF IInv

(***************************************************************************)
(* A version moves: only the thread that has the stripe can have it odd,   *)
(* so adding or removing the stripe flips the right-hand side of the       *)
(* parity equivalence exactly when the increment flips the left.           *)
(***************************************************************************)
LEMMA BumpIInv ==
  ASSUME NEW t \in Thread, IInv, BumpNext(t)
  PROVE  IInv'
  <1>1. PICK l \in Lock :
          /\ Lowest(l, guard[t].want \ guard[t].odd)
          /\ version' = [version EXCEPT ![l] = version[l] + 1]
          /\ guard' = [guard EXCEPT
               ![t].odd = guard[t].odd \cup {l},
               ![t].phase = IF guard[t].odd \cup {l} = guard[t].want
                            THEN "held" ELSE "bump"]
    BY DEF BumpNext, increment_version_start
  <1>2. guard[t].phase = "bump" /\ locked' = locked
    BY DEF BumpNext
  <1>. DEFINE g == guard[t]  g2 == guard'[t]
  <1>3. g \in GuardRecord /\ GuardOK(g)
    BY DEF IInv, LocksTypeOK, AllGuardsOK
  <1>4. /\ g2.phase = IF g.odd \cup {l} = g.want THEN "held" ELSE "bump"
        /\ g2.odd = g.odd \cup {l}
        /\ g2.want = g.want /\ g2.got = g.got /\ g2.kind = g.kind
        /\ g2 \in GuardRecord
        /\ \A u \in Thread \ {t} : guard'[u] = guard[u]
    BY <1>1, <1>3 DEF IInv, LocksTypeOK, GuardRecord, Phase
  <1>5. l \in g.want /\ l \notin g.odd
    BY <1>1 DEF Lowest
  <1>6. g.got = g.want /\ g.kind \in Write
    BY <1>2, <1>3 DEF GuardOK
  <1>7. \A u \in Thread : l \notin guard[u].odd
    BY <1>5, <1>6 DEF IInv, Disjoint, AllGuardsOK, GuardOK
  <1>8. LocksTypeOK'
    BY <1>1, <1>2, <1>4 DEF IInv, LocksTypeOK
  <1>9. AllGuardsOK'
    <2>1. GuardOK(g2)
      BY <1>3, <1>4, <1>5, <1>6 DEF GuardOK
    <2>. QED
      BY <2>1, <1>4 DEF IInv, AllGuardsOK
  <1>10. Disjoint' /\ AscendingWait'
    BY <1>4 DEF IInv, Disjoint, AscendingWait
  <1>11. LockedByHolder'
    BY <1>2, <1>4 DEF IInv, LockedByHolder
  <1>12. OddWhileWriting'
    <2>1. version'[l] % 2 = 1
      BY <1>1, <1>7, Parity DEF IInv, LocksTypeOK, OddWhileWriting
    <2>2. \A m \in Lock \ {l} : version'[m] = version[m]
      BY <1>1 DEF IInv, LocksTypeOK
    <2>3. \A m \in Lock \ {l}, u \in Thread : m \in guard'[u].odd <=> m \in guard[u].odd
      BY <1>4
    <2>. QED
      BY <2>1, <2>2, <2>3, <1>4 DEF IInv, OddWhileWriting
  <1>. QED
    BY <1>8, <1>9, <1>10, <1>11, <1>12 DEF IInv

LEMMA UnbumpIInv ==
  ASSUME NEW t \in Thread, IInv, UnbumpNext(t)
  PROVE  IInv'
  <1>1. PICK l \in Lock :
          /\ Lowest(l, guard[t].odd)
          /\ version' = [version EXCEPT ![l] = version[l] + 1]
          /\ guard' = [guard EXCEPT
               ![t].odd = guard[t].odd \ {l},
               ![t].phase = IF guard[t].odd = {l} THEN "unlock" ELSE "unbump"]
    BY DEF UnbumpNext, increment_version_end
  <1>2. guard[t].phase = "unbump" /\ locked' = locked
    BY DEF UnbumpNext
  <1>. DEFINE g == guard[t]  g2 == guard'[t]
  <1>3. g \in GuardRecord /\ GuardOK(g)
    BY DEF IInv, LocksTypeOK, AllGuardsOK
  <1>4. /\ g2.phase = IF g.odd = {l} THEN "unlock" ELSE "unbump"
        /\ g2.odd = g.odd \ {l}
        /\ g2.want = g.want /\ g2.got = g.got /\ g2.kind = g.kind
        /\ g2 \in GuardRecord
        /\ \A u \in Thread \ {t} : guard'[u] = guard[u]
    BY <1>1, <1>3 DEF IInv, LocksTypeOK, GuardRecord, Phase
  <1>5. l \in g.odd /\ l \in g.got
    BY <1>1, <1>3 DEF Lowest, GuardOK
  <1>6. \A u \in Thread : l \notin guard'[u].odd
    BY <1>4, <1>5 DEF IInv, Disjoint, AllGuardsOK, GuardOK
  <1>7. LocksTypeOK'
    BY <1>1, <1>2, <1>4 DEF IInv, LocksTypeOK
  <1>8. AllGuardsOK'
    <2>1. GuardOK(g2)
      BY <1>2, <1>3, <1>4, <1>5 DEF GuardOK
    <2>. QED
      BY <2>1, <1>4 DEF IInv, AllGuardsOK
  <1>9. Disjoint' /\ AscendingWait'
    BY <1>4 DEF IInv, Disjoint, AscendingWait
  <1>10. LockedByHolder'
    BY <1>2, <1>4 DEF IInv, LockedByHolder
  <1>11. OddWhileWriting'
    <2>1. ~(version'[l] % 2 = 1)
      BY <1>1, <1>5, Parity DEF IInv, LocksTypeOK, OddWhileWriting
    <2>2. \A m \in Lock \ {l} : version'[m] = version[m]
      BY <1>1 DEF IInv, LocksTypeOK
    <2>3. \A m \in Lock \ {l}, u \in Thread : m \in guard'[u].odd <=> m \in guard[u].odd
      BY <1>4
    <2>. QED
      BY <2>1, <2>2, <2>3, <1>6 DEF IInv, OddWhileWriting
  <1>. QED
    BY <1>7, <1>8, <1>9, <1>10, <1>11 DEF IInv

LEMMA ReleaseIInv ==
  ASSUME NEW t \in Thread, IInv, ReleaseNext(t)
  PROVE  IInv'
  <1>1. PICK l \in Lock :
          /\ l \in guard[t].got
          /\ locked' = [locked EXCEPT ![l] = FALSE]
          /\ guard' = [guard EXCEPT
               ![t] = IF guard[t].got = {l} THEN NoGuard
                      ELSE [guard[t] EXCEPT !.got = guard[t].got \ {l}]]
    BY DEF ReleaseNext, unlock, Lowest, Highest
  <1>2. guard[t].phase = "unlock" /\ version' = version
    BY DEF ReleaseNext
  <1>. DEFINE g == guard[t]  g2 == guard'[t]
  <1>3. g \in GuardRecord /\ GuardOK(g)
    BY DEF IInv, LocksTypeOK, AllGuardsOK
  <1>4. \A u \in Thread \ {t} : guard'[u] = guard[u]
    BY <1>1 DEF IInv, LocksTypeOK
  <1>5. g2 = IF g.got = {l} THEN NoGuard ELSE [g EXCEPT !.got = g.got \ {l}]
    BY <1>1 DEF IInv, LocksTypeOK
  <1>6. g.odd = {}
    BY <1>2, <1>3 DEF GuardOK
  <1>7. g2 \in GuardRecord /\ g2.got = g.got \ {l} /\ g2.odd = {} /\ GuardOK(g2)
    <2>1. CASE g.got = {l}
      BY <2>1, <1>5, NoGuardType DEF NoGuard, GuardOK
    <2>2. CASE g.got # {l}
      BY <2>2, <1>2, <1>3, <1>5, <1>6 DEF GuardRecord, GuardOK
    <2>. QED BY <2>1, <2>2
  <1>8. g2.phase # "lock"
    BY <1>2, <1>3, <1>5 DEF NoGuard, GuardRecord
  <1>9. \A u \in Thread : l \notin guard'[u].got
    BY <1>1, <1>4, <1>7 DEF IInv, Disjoint
  <1>10. LocksTypeOK'
    BY <1>1, <1>2, <1>4, <1>7 DEF IInv, LocksTypeOK
  <1>11. AllGuardsOK'
    BY <1>4, <1>7 DEF IInv, AllGuardsOK
  <1>12. Disjoint' /\ AscendingWait'
    BY <1>4, <1>7, <1>8 DEF IInv, Disjoint, AscendingWait
  <1>13. LockedByHolder'
    <2>1. ~locked'[l] /\ \A m \in Lock \ {l} : locked'[m] = locked[m]
      BY <1>1 DEF IInv, LocksTypeOK
    <2>2. \A m \in Lock \ {l}, u \in Thread : m \in guard'[u].got <=> m \in guard[u].got
      BY <1>4, <1>7
    <2>. QED
      BY <2>1, <2>2, <1>9 DEF IInv, LockedByHolder
  <1>14. OddWhileWriting'
    BY <1>2, <1>4, <1>6, <1>7 DEF IInv, OddWhileWriting
  <1>. QED
    BY <1>10, <1>11, <1>12, <1>13, <1>14 DEF IInv

LEMMA StepIInv == IInv /\ [LocksNext]_lockVars => IInv'
  <1> SUFFICES ASSUME IInv, [LocksNext]_lockVars PROVE IInv'
    OBVIOUS
  <1>1. ASSUME NEW t \in Thread, NewTwo(t) PROVE IInv'
    <2>1. PICK l1 \in Lock, l2 \in Lock, k \in Kind : new(t, k, {l1, l2})
      BY <1>1 DEF NewTwo
    <2>. QED
      BY <2>1, NewIInv
  <1>2. ASSUME NEW t \in Thread, NewAll(t) PROVE IInv'
    <2>1. PICK k \in Kind : new(t, k, Lock)
      BY <1>2 DEF NewAll, All, Kind, Read, Write
    <2>2. Lock # {}
      BY NumLocksAssumption DEF Lock
    <2>. QED
      BY <2>1, <2>2, NewIInv
  <1>3. ASSUME NEW t \in Thread, GuardStep(t) PROVE IInv'
    BY <1>3, AcquireIInv, BumpIInv, UnbumpIInv, ReleaseIInv DEF GuardStep
  <1>4. ASSUME NEW t \in Thread, drop(t) PROVE IInv'
    BY <1>4, DropIInv
  <1>5. CASE UNCHANGED lockVars
    BY <1>5 DEF lockVars, IInv, LocksTypeOK, AllGuardsOK, Disjoint,
                LockedByHolder, AscendingWait, OddWhileWriting
  <1>. QED
    BY <1>1, <1>2, <1>3, <1>4, <1>5 DEF LocksNext

LEMMA Invariance == LocksSpec => []IInv
  <1>. QED
    BY InitIInv, StepIInv, PTL DEF LocksSpec

-----------------------------------------------------------------------------
(***************************************************************************)
(* A set of stripes in which every stripe has a higher one is empty: the   *)
(* distance to NumLocks would have no least value.                         *)
(***************************************************************************)
LEMMA NoEndlessClimb ==
  ASSUME NEW S \in SUBSET Lock, \A l \in S : \E m \in S : l < m
  PROVE  S = {}
  <1>. DEFINE D == {NumLocks - l : l \in S}
  <1>1. SUFFICES ASSUME S # {} PROVE FALSE
    OBVIOUS
  <1>2. D \subseteq Nat /\ D # {}
    <2>1. \A l \in Lock : NumLocks - l \in Nat
      BY NumLocksAssumption DEF Lock
    <2>2. PICK l \in S : TRUE
      BY <1>1
    <2>3. NumLocks - l \in D
      BY <2>2
    <2>4. ASSUME NEW d \in D PROVE d \in Nat
      <3>1. PICK m \in S : d = NumLocks - m
        BY <2>4
      <3>. QED
        BY <2>1, <3>1
    <2>. QED
      BY <2>3, <2>4
  <1>3. PICK d \in D : \A e \in D : ~(<<e, d>> \in OpToRel(<, Nat))
    BY <1>2, WFMin, NatLessThanWellFounded
  <1>4. PICK l \in S : d = NumLocks - l
    OBVIOUS
  <1>5. PICK m \in S : l < m
    OBVIOUS
  <1>6. NumLocks - m \in D /\ NumLocks - m \in Nat /\ NumLocks - m < d /\ d \in Nat
    BY <1>2, <1>4, <1>5, NumLocksAssumption DEF Lock
  <1>7. <<NumLocks - m, d>> \in OpToRel(<, Nat)
    BY <1>6 DEF OpToRel
  <1>. QED
    BY <1>3, <1>6, <1>7

(***************************************************************************)
(* A blocked thread waits for a stripe that another guard has; if that     *)
(* guard's thread is blocked too, it waits for a higher stripe.            *)
(***************************************************************************)
LEMMA IInvNoDeadlock == IInv => NoDeadlock
  <1>. DEFINE WaitsFor(t, l) == /\ Blocked(t)
                                /\ Lowest(l, guard[t].want \ guard[t].got)
                                /\ locked[l]
              S == {l \in Lock : \E t \in Thread : WaitsFor(t, l)}
  <1>1. SUFFICES ASSUME IInv, NEW t0 \in Thread, Active(t0),
                        \A t \in Thread : Active(t) => Blocked(t)
                 PROVE  FALSE
    BY DEF NoDeadlock
  <1>2. S # {}
    BY <1>1 DEF Blocked
  <1>3. ASSUME NEW l \in S PROVE \E m \in S : l < m
    <2>1. PICK u \in Thread : l \in guard[u].got
      BY <1>1, <1>3 DEF IInv, LockedByHolder
    <2>2. Blocked(u)
      BY <1>1, <2>1 DEF Active, IInv, AllGuardsOK, GuardOK
    <2>3. PICK m \in Lock : WaitsFor(u, m)
      BY <2>2 DEF Blocked
    <2>4. l < m
      BY <1>1, <2>1, <2>2, <2>3 DEF IInv, AscendingWait, Blocked, Lowest
    <2>. QED
      BY <2>3, <2>4
  <1>4. S \subseteq Lock
    OBVIOUS
  <1>. HIDE DEF S
  <1>. QED
    BY <1>2, <1>3, <1>4, NoEndlessClimb

-----------------------------------------------------------------------------
\* The state of locks, versions and guards is always well formed.
THEOREM TypeCorrect == LocksSpec => []LocksTypeOK
  <1>1. IInv => LocksTypeOK
    BY DEF IInv
  <1>. QED
    BY <1>1, Invariance, PTL

\* No stripe is ever in the hands of two guards, for any number of threads
\* and stripes (lock.rs: Spinlock and the four guards).
THEOREM MutualExclusion == LocksSpec => []StripeExclusion
  <1>1. IInv => StripeExclusion
    BY DEF IInv, Disjoint, LockedByHolder, StripeExclusion
  <1>. QED
    BY <1>1, Invariance, PTL

\* A version is odd exactly while a write guard has the stripe between its
\* two increments: what optimistic readers rely on.
THEOREM OddIffWriting == LocksSpec => []VersionParity
  <1>1. IInv => VersionParity
    BY DEF IInv, OddWhileWriting, AllGuardsOK, GuardOK, VersionParity
  <1>. QED
    BY <1>1, Invariance, PTL

\* A guard whose constructor has returned owns every stripe it asked for,
\* and a write guard has marked each of them.
THEOREM HeldMeansComplete == LocksSpec => []GuardComplete
  <1>1. IInv => GuardComplete
    BY DEF IInv, AllGuardsOK, GuardOK, GuardComplete
  <1>. QED
    BY <1>1, Invariance, PTL

\* Two-bucket and all-locks guards acquire in ascending order.
THEOREM OrderedAcquisition == LocksSpec => []AscendingWait
  <1>1. IInv => AscendingWait
    BY DEF IInv
  <1>. QED
    BY <1>1, Invariance, PTL

\* The locking protocol is free of deadlock, for any mix of guards.
THEOREM DeadlockFreedom == LocksSpec => []NoDeadlock
  <1>. QED
    BY IInvNoDeadlock, Invariance, PTL

(***************************************************************************)
(* Versions move only in BumpNext and UnbumpNext, where the thread has the *)
(* stripe locked before and after the step.                                *)
(***************************************************************************)
LEMMA StepVersions ==
  ASSUME IInv, [LocksNext]_lockVars, NEW l \in Lock, version'[l] # version[l]
  PROVE  /\ version'[l] = version[l] + 1
         /\ \E t \in Thread : l \in guard[t].got /\ l \in guard'[t].got
  <1>1. PICK t \in Thread : BumpNext(t) \/ UnbumpNext(t)
    BY DEF LocksNext, NewTwo, NewAll, new, drop, GuardStep, AcquireNext, ReleaseNext, lockVars
  <1>2. guard[t] \in GuardRecord /\ GuardOK(guard[t])
    BY DEF IInv, LocksTypeOK, AllGuardsOK
  <1>3. CASE BumpNext(t)
    <2>1. PICK m \in Lock :
            /\ m \in guard[t].want
            /\ version' = [version EXCEPT ![m] = version[m] + 1]
      BY <1>3 DEF BumpNext, increment_version_start, Lowest
    <2>2. m = l /\ version'[l] = version[l] + 1
      BY <2>1 DEF IInv, LocksTypeOK
    <2>3. guard'[t].got = guard[t].got
      BY <1>3, <1>2 DEF BumpNext, IInv, LocksTypeOK, GuardRecord
    <2>4. guard[t].got = guard[t].want
      BY <1>3, <1>2 DEF BumpNext, GuardOK
    <2>. QED
      BY <2>1, <2>2, <2>3, <2>4
  <1>4. CASE UnbumpNext(t)
    <2>1. PICK m \in Lock :
            /\ m \in guard[t].odd
            /\ version' = [version EXCEPT ![m] = version[m] + 1]
      BY <1>4 DEF UnbumpNext, increment_version_end, Lowest
    <2>2. m = l /\ version'[l] = version[l] + 1
      BY <2>1 DEF IInv, LocksTypeOK
    <2>3. guard'[t].got = guard[t].got
      BY <1>4, <1>2 DEF UnbumpNext, IInv, LocksTypeOK, GuardRecord
    <2>4. guard[t].odd \subseteq guard[t].got
      BY <1>2 DEF GuardOK
    <2>. QED
      BY <2>1, <2>2, <2>3, <2>4
  <1>. QED
    BY <1>1, <1>3, <1>4

\* A version only ever grows, one step at a time, under its own lock.
THEOREM VersionsUnderLock == LocksSpec => VersionMovesUnderLock
  <1>. DEFINE A == \A l \in Lock : version'[l] # version[l] =>
                     /\ version'[l] = version[l] + 1
                     /\ \E t \in Thread : l \in guard[t].got /\ l \in guard'[t].got
  <1>1. IInv /\ [LocksNext]_lockVars => [A]_lockVars
    BY StepVersions
  <1>. QED
    BY <1>1, Invariance, PTL DEF LocksSpec, VersionMovesUnderLock

=============================================================================

----------------------------- MODULE ReadOrdering -----------------------------
(***************************************************************************)
(* One optimistic lookup of a key against one hop that moves the key's     *)
(* item, under the memory orderings the code asks for.  CuckooMap performs *)
(* every thread's accesses in the order of the program; here an access may *)
(* take effect before an earlier one unless their orderings forbid it.     *)
(*                                                                         *)
(* The key's buckets are 1 and 2, each under its own stripe; the item      *)
(* starts in bucket `from` and the hop moves it to the other.  A cell says *)
(* whether the item is in the bucket.  The resize counter never changes.   *)
(***************************************************************************)
EXTENDS Integers, Sequences

Side == {1, 2}
Role == {"writer", "reader"}

VARIABLES
  from,
  version, cell,    \* shared: of each side
  done,             \* of each role, the accesses that have taken effect
  got               \* what the reader's loads have returned, by access

vars == <<from, version, cell, done, got>>

Access(op, order, side) == [op |-> op, order |-> order, side |-> side]

\* TwoBucketWriteGuard::new, the two slot writes of the hop, and drop.
Hop ==
  << Access("lock", "Acquire", 1),  Access("lock", "Acquire", 2),
     Access("bump", "Release", 1),  Access("bump", "Release", 2),
     Access("erase", "Plain", from), Access("set", "Plain", 3 - from),
     Access("bump", "Release", 1),  Access("bump", "Release", 2),
     Access("unlock", "Release", 2), Access("unlock", "Release", 1) >>

\* try_get_optimistic: versions, slots, versions.
Lookup ==
  << Access("version", "Acquire", 1), Access("version", "Acquire", 2),
     Access("cell", "Plain", 1),      Access("cell", "Plain", 2),
     Access("version", "Acquire", 1), Access("version", "Acquire", 2) >>

Program(r) == IF r = "writer" THEN Hop ELSE Lookup

Location(a) == <<CASE a.op \in {"lock", "unlock"}       -> "locked"
                   [] a.op \in {"bump", "version"}      -> "version"
                   [] a.op \in {"erase", "set", "cell"} -> "cell", a.side>>

\* Whether access a must take effect before a later access b of its thread:
\* they touch the same location, a acquires, or b releases.
StaysBefore(a, b) ==
  Location(a) = Location(b) \/ a.order = "Acquire" \/ b.order = "Release"

Init ==
  /\ from \in Side
  /\ version = [s \in Side |-> 0]
  /\ cell = [s \in Side |-> s = from]
  /\ done = [r \in Role |-> {}]
  /\ got = [i \in DOMAIN Lookup |-> 0]

Effect(a, i) ==
  \/ /\ a.op \in {"lock", "unlock"}
     /\ UNCHANGED <<version, cell, got>>
  \/ /\ a.op = "bump"
     /\ version' = [version EXCEPT ![a.side] = version[a.side] + 1]
     /\ UNCHANGED <<cell, got>>
  \/ /\ a.op \in {"erase", "set"}
     /\ cell' = [cell EXCEPT ![a.side] = a.op = "set"]
     /\ UNCHANGED <<version, got>>
  \/ /\ a.op = "version"
     /\ got' = [got EXCEPT ![i] = version[a.side]]
     /\ UNCHANGED <<version, cell>>
  \/ /\ a.op = "cell"
     /\ got' = [got EXCEPT ![i] = IF cell[a.side] THEN 1 ELSE 0]
     /\ UNCHANGED <<version, cell>>

Perform(r) ==
  \E i \in DOMAIN Program(r) \ done[r] :
    /\ \A j \in 1 .. i - 1 : StaysBefore(Program(r)[j], Program(r)[i]) => j \in done[r]
    /\ Effect(Program(r)[i], i)
    /\ done' = [done EXCEPT ![r] = done[r] \cup {i}]
    /\ UNCHANGED from

Next == \E r \in Role : Perform(r)

Spec == Init /\ [][Next]_vars

-----------------------------------------------------------------------------
Accepted ==
  /\ done["reader"] = DOMAIN Lookup
  /\ got[1] % 2 = 0 /\ got[2] % 2 = 0
  /\ got[5] = got[1] /\ got[6] = got[2]

\* A lookup that finds both versions even and unchanged has seen the item in
\* one of the two buckets: it was in the map all along.
AcceptedMeansSeen == Accepted => got[3] = 1 \/ got[4] = 1
=============================================================================

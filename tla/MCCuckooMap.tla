----------------------------- MODULE MCCuckooMap -----------------------------
(***************************************************************************)
(* Instances of CuckooMap for TLC: hashes, scripts and initial contents.   *)
(***************************************************************************)
EXTENDS CuckooMapSequential, CuckooMapItems

CONSTANTS t1, t2, t3, ka, kb, kc, kd, ke, kf, x1, x2

Ins(k, x)  == [op |-> "insert", key |-> k, value |-> x]
Get(k)     == [op |-> "get", key |-> k, value |-> None]
Has(k)     == [op |-> "contains_key", key |-> k, value |-> None]
GetKV(k)   == [op |-> "get_key_value", key |-> k, value |-> None]
Rem(k)     == [op |-> "remove", key |-> k, value |-> None]
Plain(op)  == [op |-> op, key |-> None, value |-> None]
SetMax(n)  == [op |-> "set_maximum_hashpower", key |-> None, value |-> n]
SetLoad(n) == [op |-> "set_minimum_load_factor", key |-> None, value |-> n]
Iter(body) == [op |-> "iter", key |-> None, value |-> body]

It(k, x)  == [key |-> k, value |-> x]

\* The hypothesis of the theorems about the body of a loop.
ASSUME BodiesAssumption == UnlockedBodies

(***************************************************************************)
(* Hashes.  Under hashpower 1, an even partial makes the two buckets 0 and *)
(* 1, an odd one makes them the same; under hashpower 2 the alternate of   *)
(* bucket i is i xor 1 for partial 0, i xor 2 for partial 1.               *)
(***************************************************************************)
MCHash == [k \in Key |-> CASE k = ka -> [hash |-> 0, partial |-> 0]
                            [] k = kb -> [hash |-> 4, partial |-> 1]
                            [] k = kc -> [hash |-> 1, partial |-> 0]
                            [] k = kd -> [hash |-> 2, partial |-> 0]
                            [] k = ke -> [hash |-> 8, partial |-> 1]
                            [] k = kf -> [hash |-> 3, partial |-> 1]]

-----------------------------------------------------------------------------
(***************************************************************************)
(* Calls that overlap, on two buckets of two slots that never double.  kb  *)
(* and ke fit bucket 0 only.                                               *)
(***************************************************************************)
\* One thread changes the map, displacing ka, while another one reads.
WriterReader ==
  [t \in Thread |->
     CASE t = t1 -> << {Ins(ke, x2), Ins(ka, x2), Rem(ka)}, {Ins(ke, x1), Rem(ka), Rem(ke)} >>
       [] t = t2 -> << {Get(ka), Has(ke)}, {GetKV(ka), Has(ka)} >>
       [] OTHER  -> << >>]

\* Two threads change the map and a third one looks at it; kb and ke fill
\* bucket 0, so that ka lands in its second bucket.
Writers ==
  [t \in Thread |->
     CASE t = t1 -> << {Ins(ka, x1), Rem(kb)}, {Rem(ka), Plain("clear")} >>
       [] t = t2 -> << {Ins(ka, x2), Ins(kb, x2)} >>
       [] t = t3 -> << {Get(ka), Iter({}), Plain("len")} >>]

\* An iteration whose body looks keys up, while another thread displaces one
\* of them and a third one clears the map.
Iterating ==
  [t \in Thread |->
     CASE t = t1 -> << {Ins(ke, x2), Rem(ka)} >>
       [] t = t2 -> << {Plain("clear"), Get(ka)} >>
       [] t = t3 -> << {Iter({Get(ka), Has(ke)})} >>]

AtomicPreload == << <<It(ka, x1), It(kb, x1)>>, <<It(kb, x1), It(ke, x2)>>,
                    <<It(ka, x1), It(kb, x1)>> >>
AtomicScript == <<WriterReader, Writers, Iterating>>

-----------------------------------------------------------------------------
\* One thread makes any sequence of calls, among them inserts that displace
\* over two hops, that double, and that are refused for both reasons.
SequentialPreload == << << >> >>
SequentialScript ==
  << [t \in Thread |->
        LET any == {Ins(k, x) : k \in Key, x \in Value} \cup {Rem(k) : k \in Key}
                   \cup {Get(k) : k \in Key}
                   \cup {GetKV(kd), Has(kd), Plain("clear"), Iter({Get(kd), SetLoad(101)}),
                         Plain("len"), Plain("is_empty"), SetMax(1), SetLoad(0), SetLoad(101)}
        IN  << any, any, any, any, any >>] >>

\* Two threads insert and remove in a table of single slots that displaces and
\* doubles.
Displacing ==
  [t \in Thread |->
     CASE t = t1 -> << {Ins(kb, x1), Rem(ka)}, {Rem(ka)} >>
       [] t = t2 -> << {Ins(kc, x2), Rem(ka)}, {Ins(ka, x2), Ins(kb, x2)} >>]

\* One of them looks up, after an insert that may double the table, what the
\* other one overwrites.
Retrying ==
  [t \in Thread |->
     CASE t = t1 -> << {Ins(kb, x1)}, {Get(ka)} >>
       [] t = t2 -> << {Ins(kc, x2)}, {Ins(ka, x2)} >>]

\* An insert begins before the other thread's insert doubles the table, and
\* ends after it.
Growing ==
  [t \in Thread |-> IF t = t1 THEN << {Ins(kb, x1)}, {Rem(kc)} >> ELSE << {Ins(kd, x1)} >>]

\* The table is cleared while an insert displaces or doubles.
Emptying ==
  [t \in Thread |-> IF t = t1 THEN << {Plain("clear")}, {Ins(ka, x2)} >> ELSE << {Ins(kb, x1)} >>]

\* An insert displaces ka, loses the slot that this freed and is refused the
\* doubling, whose limit the other thread sets at any time.
Refusing ==
  [t \in Thread |-> IF t = t1 THEN << {Ins(kb, x1)} >> ELSE << {SetMax(1)}, {Ins(kd, x1)} >>]

ContendedPreload ==
  << <<It(ka, x1)>>, <<It(ka, x1)>>, <<It(ka, x1), It(kc, x2)>>, <<It(ka, x1)>>,
     <<It(ka, x1)>> >>
ContendedScript == <<Displacing, Retrying, Growing, Emptying, Refusing>>

\* A lookup while one insert doubles the table.
StaleReadPreload == << <<It(kd, x1), It(kc, x2)>> >>
StaleReadScript ==
  << [t \in Thread |-> IF t = t1 THEN << {Ins(ka, x1)} >> ELSE << {Get(kd)} >>] >>
=============================================================================

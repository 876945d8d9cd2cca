--------------------------- MODULE MCCuckooMapClone ---------------------------
(***************************************************************************)
(* The instances of MCCuckooMap, with a clone.                             *)
(***************************************************************************)
EXTENDS MCCuckooMap, CuckooMapClone

\* One thread fills a map, which may double at any load, and clones it.
CloneScript ==
  << [t \in Thread |->
        LET any == {SetLoad(0), Rem(kb)} \cup {Ins(k, x1) : k \in Key}
        IN  << any, any, any, any >>] >>
=============================================================================

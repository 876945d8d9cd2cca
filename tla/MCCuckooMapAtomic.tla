-------------------------- MODULE MCCuckooMapAtomic --------------------------
(***************************************************************************)
(* The instances of MCCuckooMap, with the history variable that the        *)
(* refinement of AtomicMap needs.                                          *)
(***************************************************************************)
EXTENDS CuckooMapAtomic, MCCuckooMap
=============================================================================

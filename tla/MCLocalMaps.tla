---------------------------- MODULE MCLocalMaps ----------------------------
(* Model checking of update_local_maps on an address space of a few pages. *)
EXTENDS LocalMaps, FiniteSets, SequencesExt

CONSTANT Pages   (* the pages 0 .. Pages - 1                               *)

Ranges == {m \in [lo : 0 .. Pages - 1, hi : 1 .. Pages] : m.lo < m.hi}

Apart(S) == \A a, b \in S : a = b \/ a.hi <= b.lo \/ b.hi <= a.lo

(* Every list of mappings.                                                 *)
AllLists ==
  {SetToSortSeq(S, LAMBDA a, b : a.lo < b.lo) :
     S \in {R \in SUBSET Ranges : Apart(R)}}
=============================================================================

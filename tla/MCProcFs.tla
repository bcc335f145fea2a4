------------------------------ MODULE MCProcFs ------------------------------
(* Model checking of ProcFs on an address space of a few pages.            *)
EXTENDS ProcFs, SequencesExt

CONSTANT Pages   (* the pages 0 .. Pages - 1                               *)

Ranges == {m \in [lo : 0 .. Pages - 1, hi : 1 .. Pages] : m.lo < m.hi}

Apart(S) == \A a, b \in S : a = b \/ a.hi <= b.lo \/ b.hi <= a.lo

(* Every file of mappings.                                                 *)
AllFiles ==
  UNION {LET list == SetToSortSeq(S, LAMBDA a, b : a.lo < b.lo) IN
         {[i \in DOMAIN list |-> [lo |-> list[i].lo, hi |-> list[i].hi,
                                  r |-> perms[i][1], w |-> perms[i][2]]] :
            perms \in [DOMAIN list -> BOOLEAN \X BOOLEAN]} :
         S \in {R \in SUBSET Ranges : Apart(R)}}
=============================================================================

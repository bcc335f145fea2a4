----------------------------- MODULE MCWriteSet -----------------------------
(* Model checking of WriteSet on a handful of pages.                       *)
EXTENDS WriteSet, SequencesExt

Ranges == {m \in [lo : Pages, hi : {p + 1 : p \in Pages}] : m.lo < m.hi}

Apart(S) == \A a, b \in S : a = b \/ a.hi <= b.lo \/ b.hi <= a.lo

(* Every list of mappings.                                                 *)
AllLists ==
  {SetToSortSeq(S, LAMBDA a, b : a.lo < b.lo) :
     S \in {R \in SUBSET Ranges : Apart(R)}}

(* A living process has a writable mapping, its stack.                     *)
LivingLists == AllLists \ {<< >>}

(* The data segment stays, and grows and shrinks; above it a mapping comes *)
(* and goes, adjacent to it or not.  The highest end moves up and down.    *)
BaseLists ==
  {list \in LivingLists :
     /\ list[1].lo = 0
     /\ \/ list[1].hi = 1 /\ Len(list) <= 2
        \/ list = <<[lo |-> 0, hi |-> 2]>>}
=============================================================================

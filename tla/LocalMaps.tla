----------------------------- MODULE LocalMaps -----------------------------
(***************************************************************************)
(* update_local_maps of src/tracker.c: the tracker keeps a local copy of   *)
(* every writable mapping of the application.  When the mappings change,   *)
(* the list of the last snapshot (procinf, here old) and the new list      *)
(* (procinf2, here new) are walked together; a mapping that is the same in *)
(* both keeps its copy, any other gets a fresh one, filled with zeros and  *)
(* with what the old copies hold of its pages.                             *)
(*                                                                         *)
(* A copy is an allocation of its own: a function from page offsets to     *)
(* what the page holds, which is the page of the application it was copied *)
(* from, or Zero.  local is the allocation that local_vaddr_start points   *)
(* to, and mem, like the other pointers, an allocation and an offset.      *)
(* Nothing is mapped at the low addresses: a memcpy from Null ends the     *)
(* tracker.                                                                *)
(* local_vaddr_end is never read.                                          *)
(***************************************************************************)
EXTENDS Maps

CONSTANTS
  Null,   (* the value 0 of local_vaddr_start                              *)
  Zero    (* the contents of a page of zeros                               *)

ASSUME NullAssumption == Null \notin Nat
ASSUME ZeroAssumption == Zero \notin Nat

VARIABLES
  first,        (* procinf2 is NULL: the call before the main loop         *)
  old, new,     (* procinf->proc_mappings, procinf2->proc_mappings         *)
  oldLocal,     (* local_vaddr_start of the old mappings                   *)
  newLocal,     (* local_vaddr_start of the new mappings                   *)
  k, k2,        (* the positions in old and in new                         *)
  mem,          (* the variable mem, which survives an iteration           *)
  copies,       (* the allocations of the tracker                          *)
  crashed       (* the tracker has been killed by SIGSEGV                  *)

vars == <<first, old, new, oldLocal, newLocal, k, k2, mem, copies, crashed>>

Pointer == [at : Nat, off : Nat]
Zeros(m) == [o \in 0 .. Size(m) - 1 |-> Zero]

(* At the first call nothing is copied yet; later an old mapping has the   *)
(* copy that the last snapshot filled, or none when the last call left it  *)
(* without (and find_dirty_data could read none of its pages, or it had    *)
(* compared with address 0).                                               *)
Init ==
  /\ first \in BOOLEAN
  /\ old \in Lists
  /\ new \in IF first THEN {<< >>} ELSE Lists
  /\ oldLocal \in {f \in [DOMAIN old -> {Null} \cup DOMAIN old] :
                    \A i \in DOMAIN old : f[i] \in IF first THEN {Null} ELSE {i, Null}}
  /\ newLocal = [i \in DOMAIN new |-> Null]
  /\ k = 1 /\ k2 = 1
  /\ mem = Null
  /\ copies = IF first THEN << >>
                       ELSE [i \in DOMAIN old |->
                              [o \in 0 .. Size(old[i]) - 1 |-> old[i].lo + o]]
  /\ crashed = FALSE

Merging == ~first /\ ~crashed /\ k \in DOMAIN old /\ k2 \in DOMAIN new
Filling == first /\ k \in DOMAIN old
Done    == ~Merging /\ ~Filling /\ ~crashed

----------------------------------------------------------------------------
O == old[k]
N == new[k2]

SameStart == N.lo = O.lo
Same      == SameStart /\ N.hi = O.hi

(* xmmap_proc_mapping and memset: the copy of N, allocated when it has none.*)
Fresh     == newLocal[k2] = Null

(* Mutant: the old copy is used again, as the TODO proposes.               *)
BaseReused == IF Fresh THEN oldLocal[k] ELSE newLocal[k2]

Base      == IF Fresh THEN Len(copies) + 1 ELSE newLocal[k2]
Room      == IF Fresh THEN Append(copies, Zeros(N)) ELSE copies
Allocated == IF Fresh THEN [at |-> Base, off |-> 0] ELSE mem

(* Which of two overlapping mappings this iteration is finished with.      *)
NewShorter == N.hi < O.hi

Smaller(a, b) == IF a < b THEN a ELSE b

(* The memcpy of each branch: where to, where from, how many pages.        *)
Copying(dst, src, n) == [dst |-> dst, src |-> src, n |-> n]

(* Mutant: the old mapping is copied to the start of the new one.          *)
CopyInsideAtStart ==
  Copying([at |-> Base, off |-> 0],
          [at |-> oldLocal[k], off |-> 0],
          IF NewShorter THEN N.hi - O.lo ELSE Size(O))

CopySameStart ==
  Copying(Allocated,
          [at |-> oldLocal[k], off |-> 0],
          Smaller(Size(N), Size(O)))

CopyInside ==
  Copying([at |-> Base, off |-> O.lo - N.lo],
          [at |-> oldLocal[k], off |-> 0],
          IF NewShorter THEN N.hi - O.lo ELSE Size(O))

(* Mutant: the copy runs to the end of the new mapping.                    *)
CopyTailTooLong ==
  Copying([at |-> Base, off |-> 0],
          [at |-> oldLocal[k], off |-> N.lo - O.lo],
          Size(N))

CopyTail ==
  Copying([at |-> Base, off |-> 0],
          [at |-> oldLocal[k], off |-> N.lo - O.lo],
          IF NewShorter THEN Size(N) ELSE O.hi - N.lo)

Overlap == N.lo < O.hi /\ O.lo < N.hi

Transfer ==
  IF SameStart THEN CopySameStart
  ELSE IF N.lo < O.lo THEN CopyInside
  ELSE CopyTail

Memcpy(t) ==
  [Room EXCEPT ![t.dst.at] =
    [o \in DOMAIN @ |-> IF o - t.dst.off \in 0 .. t.n - 1
                          THEN Room[t.src.at][t.src.off + (o - t.dst.off)]
                          ELSE @[o]]]

----------------------------------------------------------------------------
(* Mutant: the copy of an unchanged mapping is not taken over.             *)
SameMappingNotKept ==
  /\ Merging /\ Same
  /\ k' = k + 1 /\ k2' = k2 + 1
  /\ UNCHANGED <<first, old, new, oldLocal, newLocal, mem, copies, crashed>>

SameMapping ==
  /\ Merging /\ Same
  /\ newLocal' = [newLocal EXCEPT ![k2] = oldLocal[k]]
  /\ k' = k + 1 /\ k2' = k2 + 1
  /\ UNCHANGED <<first, old, new, oldLocal, mem, copies, crashed>>

(* Mutant: both of them are taken for finished.                            *)
AdvanceBoth == k' = k + 1 /\ k2' = k2 + 1

(* The shorter of two overlapping mappings is finished.                    *)
AdvanceShorter ==
  IF NewShorter THEN k2' = k2 + 1 /\ k' = k ELSE k' = k + 1 /\ k2' = k2

(* The two mappings share pages, which keep their data.  mem points to the *)
(* allocation or, when the copy is cut at either end, into the source or   *)
(* the destination of the memcpy.                                          *)
OverlappingMapping ==
  /\ Merging /\ ~Same /\ Overlap /\ oldLocal[k] # Null
  /\ newLocal' = [newLocal EXCEPT ![k2] = Base]
  /\ copies' = Memcpy(Transfer)
  /\ mem' = IF SameStart THEN Allocated
            ELSE IF N.lo < O.lo THEN Transfer.dst
            ELSE Transfer.src
  /\ AdvanceShorter
  /\ UNCHANGED <<first, old, new, oldLocal, crashed>>

(* The memcpy is from Null: the tracker does not survive it.               *)
NullSource ==
  /\ Merging /\ ~Same /\ Overlap /\ oldLocal[k] = Null
  /\ crashed' = TRUE
  /\ UNCHANGED <<first, old, new, oldLocal, newLocal, k, k2, mem, copies>>

(* Mutant: nothing moves on behind a mapping that has disappeared.         *)
DisjointMappingStays ==
  /\ Merging /\ ~Overlap
  /\ newLocal' = [newLocal EXCEPT ![k2] = Base]
  /\ copies' = Room
  /\ mem' = Allocated
  /\ IF N.lo < O.lo THEN k2' = k2 + 1 /\ k' = k ELSE UNCHANGED <<k, k2>>
  /\ UNCHANGED <<first, old, new, oldLocal, crashed>>

(* The lower of two disjoint mappings is finished.                         *)
DisjointMapping ==
  /\ Merging /\ ~Overlap
  /\ newLocal' = [newLocal EXCEPT ![k2] = Base]
  /\ copies' = Room
  /\ mem' = Allocated
  /\ IF N.lo < O.lo THEN k2' = k2 + 1 /\ k' = k ELSE k' = k + 1 /\ k2' = k2
  /\ UNCHANGED <<first, old, new, oldLocal, crashed>>

(* Mutant: the local address is taken before anything is allocated.        *)
FirstCopyDangling ==
  /\ Filling
  /\ oldLocal' = [oldLocal EXCEPT ![k] = Len(copies) + 1]
  /\ mem' = [at |-> Len(copies) + 1, off |-> 0]
  /\ k' = k + 1
  /\ UNCHANGED <<first, old, new, newLocal, k2, copies, crashed>>

(* The first call: a copy of zeros for every mapping.                      *)
FirstCopy ==
  /\ Filling
  /\ copies' = Append(copies, Zeros(O))
  /\ oldLocal' = [oldLocal EXCEPT ![k] = Len(copies) + 1]
  /\ mem' = [at |-> Len(copies) + 1, off |-> 0]
  /\ k' = k + 1
  /\ UNCHANGED <<first, old, new, newLocal, k2, crashed>>

Return == (Done \/ crashed) /\ UNCHANGED vars

Next ==
  \/ SameMapping \/ OverlappingMapping \/ NullSource \/ DisjointMapping
  \/ FirstCopy \/ Return

Spec     == Init /\ [][Next]_vars
FairSpec == Spec /\ WF_vars(Next)

----------------------------------------------------------------------------
(* The list that find_dirty_data is given, and its copies.                 *)
Result      == IF first THEN old ELSE new
ResultLocal == IF first THEN oldLocal ELSE newLocal

(* The positions stay inside the two lists, and every local address points *)
(* to an allocation as large as a mapping.                                 *)
TypeOK ==
  /\ first \in BOOLEAN
  /\ k \in 1 .. Len(old) + 1
  /\ k2 \in 1 .. Len(new) + 1
  /\ oldLocal \in [DOMAIN old -> {Null} \cup DOMAIN copies]
  /\ newLocal \in [DOMAIN new -> {Null} \cup DOMAIN copies]
  /\ mem \in {Null} \cup Pointer
  /\ \A c \in DOMAIN copies :
       \E m \in {old[i] : i \in DOMAIN old} \cup {new[i] : i \in DOMAIN new} :
         copies[c] \in [0 .. Size(m) - 1 -> Nat \cup {Zero}]
  /\ crashed \in BOOLEAN

(* Every memcpy of update_local_maps stays inside its two allocations,     *)
(* whichever way the mappings of the application grew, shrank or moved.    *)
InBounds ==
  Merging /\ ~Same /\ Overlap /\ oldLocal[k] # Null =>
    LET t == Transfer IN
    /\ t.dst.at \in DOMAIN Room /\ t.src.at \in DOMAIN copies
    /\ t.dst.at # t.src.at
    /\ \A o \in 0 .. t.n - 1 :
         /\ t.dst.off + o \in DOMAIN Room[t.dst.at]
         /\ t.src.off + o \in DOMAIN copies[t.src.at]

(* After the merge a copy holds for each page what the last snapshot had   *)
(* of it, and zeros for a page that was not in the last snapshot.          *)
PagesKept ==
  Done =>
    \A i \in DOMAIN Result : ResultLocal[i] # Null =>
      LET copy == copies[ResultLocal[i]] IN
      /\ DOMAIN copy = 0 .. Size(Result[i]) - 1
      /\ \A p \in PagesOf(Result[i]) :
           copy[p - Result[i].lo] =
             IF ~first /\ p \in Covered(old) THEN p ELSE Zero

(* No two mappings share a copy, in which find_dirty_data would mix the    *)
(* pages of the one with those of the other.                               *)
Unshared ==
  Done =>
    \A i, j \in DOMAIN Result :
      ResultLocal[i] # Null /\ ResultLocal[i] = ResultLocal[j] => i = j

(* Which mappings find_dirty_data finds a copy for, after any change: those *)
(* that the walk reached before it ended with the old list, except that a  *)
(* mapping of both lists takes over that it has none.  The others are left *)
(* at Null.                                                                *)
CopiedAsReached ==
  Done =>
    \A i \in DOMAIN Result :
      ResultLocal[i] # Null <=>
        \/ first
        \/ /\ Reached(old, new, i)
           /\ \A j \in DOMAIN old : old[j] = new[i] => oldLocal[j] # Null

(* An old mapping without a copy has pages in a new mapping that differs   *)
(* from it.                                                                *)
TornPair(i, j) ==
  /\ oldLocal[j] = Null /\ old[j] # new[i]
  /\ new[i].lo < old[j].hi /\ old[j].lo < new[i].hi

Torn == ~first /\ \E i \in DOMAIN new, j \in DOMAIN old : TornPair(i, j)

(* The tracker dies of a memcpy from Null just when a mapping without copy *)
(* grew, shrank, split or joined.                                          *)
CrashesWhenTorn == (crashed => Torn) /\ (Done => ~Torn)

(* The walk ends.                                                          *)
Ends == <>(Done \/ crashed)
=============================================================================

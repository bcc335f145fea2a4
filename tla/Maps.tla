-------------------------------- MODULE Maps --------------------------------
(***************************************************************************)
(* The lists of writable mappings that parse_maps_file reads from          *)
(* /proc/pid/maps: page ranges [lo, hi), in the order of their addresses   *)
(* and without overlap, but possibly adjacent.  Addresses are page numbers.*)
(***************************************************************************)
EXTENDS Naturals, Sequences

CONSTANT Lists   (* the lists that an address space can give               *)

Mapping == [lo : Nat, hi : Nat]

IsMappingList(list) ==
  /\ list \in Seq(Mapping)
  /\ \A i \in DOMAIN list : list[i].lo < list[i].hi
  /\ \A i, j \in DOMAIN list : i < j => list[i].hi <= list[j].lo

ASSUME ListsAssumption == \A list \in Lists : IsMappingList(list)

Size(m)     == m.hi - m.lo
PagesOf(m)  == m.lo .. (m.hi - 1)
Covered(list) == UNION {PagesOf(list[i]) : i \in DOMAIN list}
End(list)   == IF list = << >> THEN 0 ELSE list[Len(list)].hi

(* Mutant: the loop of update_local_maps ends one mapping early.           *)
ReachedBelowEnd(old, new, i) == old # << >> /\ new[i].hi < End(old)

(* The loop of update_local_maps ends with the shorter list: it comes to   *)
(* the mapping i of the new list when the one before does not use up the   *)
(* old list.                                                               *)
Reached(old, new, i) == old # << >> /\ (i = 1 \/ new[i - 1].hi < End(old))
=============================================================================

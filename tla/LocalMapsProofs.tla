-------------------------- MODULE LocalMapsProofs --------------------------
(***************************************************************************)
(* Proofs about LocalMaps for any two lists of mappings: update_local_maps *)
(* never copies outside an allocation, keeps the data of every page that   *)
(* stays mapped, gives a copy to just the mappings that the walk reaches,  *)
(* and dies just when a mapping without a copy has changed.                *)
(***************************************************************************)
EXTENDS LocalMaps, SequenceTheorems, TLAPS

Content    == Nat \cup {Zero}
Allocation == UNION {[0 .. n - 1 -> Content] : n \in Nat}

(* A page that the walk has seen in the old list: of the old mappings it   *)
(* is finished with, or of any for a new mapping it is finished with.      *)
Seen(i, p) == \E j \in DOMAIN old : (i < k2 \/ j < k) /\ p \in PagesOf(old[j])

Typed ==
  /\ TypeOK
  /\ IsMappingList(old) /\ IsMappingList(new)
  /\ copies \in Seq(Allocation)
  /\ first => new = << >>

(* The copies of the last snapshot stay as they are.                       *)
OldCopied ==
  ~first =>
    /\ Len(old) <= Len(copies)
    /\ \A i \in DOMAIN old : oldLocal[i] \in {i, Null}
    /\ \A i \in DOMAIN old :
         copies[i] = [o \in 0 .. Size(old[i]) - 1 |-> old[i].lo + o]

(* An old mapping behind the walk ends below the new ones ahead of it, and *)
(* below the current one while that has no copy yet.                       *)
Passed ==
  \A i \in DOMAIN new, j \in DOMAIN old : j < k =>
    /\ i > k2 => old[j].hi <= new[i].lo
    /\ i = k2 => /\ old[j].hi <= new[i].hi
                 /\ newLocal[i] = Null => old[j].hi <= new[i].lo

(* The new mappings ahead of the walk have no copy.                        *)
Given == \A i \in DOMAIN new : i > k2 => newLocal[i] = Null

(* A copy of an old mapping is taken over only when the walk goes on; any  *)
(* other copy belongs to one new mapping.                                  *)
Own ==
  \A i \in DOMAIN new : newLocal[i] # Null =>
    /\ newLocal[i] <= Len(old) => i < k2
    /\ newLocal[i] > Len(old) =>
         \A j \in DOMAIN new : newLocal[j] = newLocal[i] => j = i

(* What the copies of the new mappings hold.                               *)
Rows ==
  \A i \in DOMAIN new : newLocal[i] # Null =>
    copies[newLocal[i]] =
      [o \in 0 .. Size(new[i]) - 1 |->
         IF Seen(i, new[i].lo + o) THEN new[i].lo + o ELSE Zero]

(* The first call fills the copies with zeros.                             *)
FirstRows ==
  first => \A i \in DOMAIN old : i < k =>
    oldLocal[i] # Null /\ copies[oldLocal[i]] = Zeros(old[i])

(* mem is the start of the copy of the current new mapping as long as the  *)
(* walk has met no page of it: the branch of equal starts copies to mem.   *)
MemAtStart ==
  \A i \in DOMAIN new :
    (/\ i = k2 /\ newLocal[i] # Null
     /\ \A j \in DOMAIN old : j < k => old[j].hi <= new[i].lo)
      => mem = [at |-> newLocal[i], off |-> 0]

IInv ==
  /\ Typed /\ OldCopied /\ Passed /\ Given
  /\ Own /\ Rows /\ FirstRows /\ MemAtStart

----------------------------------------------------------------------------
(* The order of a list of mappings, in plain arithmetic.                   *)
LEMMA InOrder ==
  ASSUME NEW list, IsMappingList(list)
  PROVE  /\ list \in Seq(Mapping)
         /\ DOMAIN list = 1 .. Len(list) /\ Len(list) \in Nat
         /\ \A i \in DOMAIN list :
              /\ i \in Nat /\ list[i].lo \in Nat /\ list[i].hi \in Nat
              /\ list[i].lo < list[i].hi
              /\ Size(list[i]) \in Nat \ {0}
              /\ list[i].hi = list[i].lo + Size(list[i])
         /\ \A i, j \in DOMAIN list : i < j => list[i].hi <= list[j].lo
<1>1. list \in Seq(Mapping)
  BY DEF IsMappingList
<1>2. DOMAIN list = 1 .. Len(list) /\ Len(list) \in Nat
  BY <1>1
<1>3. ASSUME NEW i \in DOMAIN list
      PROVE  /\ i \in Nat /\ list[i].lo \in Nat /\ list[i].hi \in Nat
             /\ list[i].lo < list[i].hi
             /\ Size(list[i]) \in Nat \ {0}
             /\ list[i].hi = list[i].lo + Size(list[i])
  <2>1. list[i] \in Mapping
    BY <1>1, <1>2
  <2>2. list[i].lo \in Nat /\ list[i].hi \in Nat
    BY <2>1 DEF Mapping
  <2>3. list[i].lo < list[i].hi
    BY DEF IsMappingList
  <2> QED BY <1>2, <2>2, <2>3 DEF Size
<1> QED BY <1>1, <1>2, <1>3 DEF IsMappingList

(* A page of a mapping, as an inequality.                                  *)
LEMMA PageRange ==
  ASSUME NEW m, m.lo \in Nat, m.hi \in Nat, NEW p \in Nat
  PROVE  p \in PagesOf(m) <=> m.lo <= p /\ p < m.hi
BY DEF PagesOf

(* A copy is an allocation of the size of its mapping.                     *)
LEMMA CopyIsAllocation ==
  ASSUME NEW n \in Nat, NEW c \in [0 .. n - 1 -> Content]
  PROVE  c \in Allocation
BY DEF Allocation

(* What an iteration of the merge finds.                                   *)
LEMMA Current ==
  ASSUME Typed, Merging
  PROVE  /\ ~first /\ k \in 1 .. Len(old) /\ k2 \in 1 .. Len(new)
         /\ k \in DOMAIN old /\ k2 \in DOMAIN new
         /\ O.lo \in Nat /\ O.hi \in Nat /\ O.lo < O.hi
         /\ Size(O) \in Nat \ {0} /\ O.hi = O.lo + Size(O)
         /\ N.lo \in Nat /\ N.hi \in Nat /\ N.lo < N.hi
         /\ Size(N) \in Nat \ {0} /\ N.hi = N.lo + Size(N)
<1>1. ~first /\ k \in DOMAIN old /\ k2 \in DOMAIN new
  BY DEF Merging
<1>2. IsMappingList(old) /\ IsMappingList(new)
  BY DEF Typed
<1> QED BY <1>1, <1>2, InOrder DEF O, N

(* The copy of the current new mapping before the memcpy: allocated at     *)
(* most now, shared with no other mapping, filled as far as the walk got.  *)
LEMMA RoomRow ==
  ASSUME IInv, Merging
  PROVE  /\ Base \in Nat /\ Base > Len(old)
         /\ Room \in Seq(Allocation) /\ Base \in DOMAIN Room
         /\ DOMAIN copies \subseteq DOMAIN Room
         /\ DOMAIN Room = DOMAIN copies \cup {Base}
         /\ \A c \in DOMAIN copies : Room[c] = copies[c]
         /\ Room[Base] =
              [o \in 0 .. Size(N) - 1 |->
                 IF Seen(k2, N.lo + o) THEN N.lo + o ELSE Zero]
         /\ \A i \in DOMAIN new : newLocal[i] = Base => i = k2
<1>1. /\ ~first /\ k \in DOMAIN old /\ k2 \in DOMAIN new
      /\ N.lo \in Nat /\ N.hi \in Nat /\ Size(N) \in Nat \ {0}
  BY Current DEF IInv
<1>2. /\ copies \in Seq(Allocation)
      /\ newLocal \in [DOMAIN new -> {Null} \cup DOMAIN copies]
      /\ Len(old) <= Len(copies)
  BY <1>1 DEF IInv, Typed, TypeOK, OldCopied
<1>3. /\ DOMAIN copies = 1 .. Len(copies) /\ Len(copies) \in Nat
      /\ DOMAIN old = 1 .. Len(old) /\ Len(old) \in Nat
      /\ DOMAIN new = 1 .. Len(new) /\ Len(new) \in Nat
  BY <1>2, InOrder DEF IInv, Typed
<1>4. CASE Fresh
  <2>1. Base = Len(copies) + 1 /\ Room = Append(copies, Zeros(N))
    BY <1>4 DEF Base, Room
  <2>2. Zeros(N) \in Allocation
    <3>1. Zeros(N) \in [0 .. Size(N) - 1 -> Content]
      BY DEF Zeros, Content
    <3> QED BY <3>1, <1>1, CopyIsAllocation
  <2>3. /\ Room \in Seq(Allocation) /\ Len(Room) = Len(copies) + 1
        /\ Room[Base] = Zeros(N)
        /\ \A c \in DOMAIN copies : Room[c] = copies[c]
    BY <2>1, <2>2, <1>2, <1>3
  <2>4. DOMAIN Room = 1 .. Len(copies) + 1
    BY <2>3
  <2>5. ASSUME NEW o \in 0 .. Size(N) - 1
        PROVE  ~Seen(k2, N.lo + o)
    <3>1. SUFFICES ASSUME NEW j \in DOMAIN old, j < k, N.lo + o \in PagesOf(old[j])
                   PROVE  FALSE
      BY <1>1, <1>3 DEF Seen
    <3>2. old[j].hi <= N.lo
      BY <3>1, <1>1, <1>4 DEF IInv, Passed, Fresh, N
    <3>3. old[j].lo \in Nat /\ old[j].hi \in Nat
      BY InOrder DEF IInv, Typed
    <3> QED BY <3>1, <3>2, <3>3, <1>1 DEF PagesOf
  <2>6. Room[Base] = [o \in 0 .. Size(N) - 1 |->
                        IF Seen(k2, N.lo + o) THEN N.lo + o ELSE Zero]
    BY <2>3, <2>5 DEF Zeros
  <2>7. \A i \in DOMAIN new : newLocal[i] # Base
    BY <2>1, <1>2, <1>3, NullAssumption
  <2> QED BY <2>1, <2>3, <2>4, <2>6, <2>7, <1>2, <1>3
<1>5. CASE ~Fresh
  <2>1. /\ Base = newLocal[k2] /\ Room = copies /\ newLocal[k2] # Null
    BY <1>5 DEF Base, Room, Fresh
  <2>2. Base \in DOMAIN copies
    BY <2>1, <1>1, <1>2
  <2>3. Base > Len(old)
    BY <2>1, <2>2, <1>1, <1>3 DEF IInv, Own
  <2>4. \A i \in DOMAIN new : newLocal[i] = Base => i = k2
    BY <2>1, <2>3, <1>1 DEF IInv, Own
  <2>5. Room[Base] = [o \in 0 .. Size(N) - 1 |->
                        IF Seen(k2, N.lo + o) THEN N.lo + o ELSE Zero]
    BY <2>1, <1>1 DEF IInv, Rows, N
  <2> QED BY <2>1, <2>2, <2>3, <2>4, <2>5, <1>2, <1>3
<1> QED BY <1>4, <1>5

(* Where mem points when the two mappings start at the same address.       *)
LEMMA AtStart ==
  ASSUME IInv, Merging, SameStart
  PROVE  Allocated = [at |-> Base, off |-> 0]
<1>1. CASE Fresh
  BY <1>1 DEF Allocated
<1>2. CASE ~Fresh
  <2>1. /\ k \in DOMAIN old /\ k2 \in DOMAIN new
        /\ newLocal[k2] # Null /\ Base = newLocal[k2] /\ Allocated = mem
    BY <1>2, Current DEF IInv, Fresh, Base, Allocated
  <2>2. ASSUME NEW j \in DOMAIN old, j < k
        PROVE  old[j].hi <= new[k2].lo
    BY <2>1, <2>2, InOrder DEF IInv, Typed, SameStart, N, O
  <2> QED BY <2>1, <2>2 DEF IInv, MemAtStart
<1> QED BY <1>1, <1>2

(* A memcpy of update_local_maps moves exactly the pages that the two      *)
(* mappings share, and stays inside both copies.                           *)
LEMMA TransferExact ==
  ASSUME IInv, Merging, ~Same, Overlap, oldLocal[k] # Null
  PROVE  LET t == Transfer IN
         /\ t.dst.at = Base /\ t.src.at = k
         /\ t.n \in Nat /\ t.dst.off \in Nat /\ t.src.off \in Nat
         /\ t.dst.off + t.n <= Size(N) /\ t.src.off + t.n <= Size(O)
         /\ N.lo + t.dst.off = O.lo + t.src.off
         /\ \A p \in Nat : N.lo <= p /\ p < N.hi =>
              (p \in PagesOf(O) <=> /\ N.lo + t.dst.off <= p
                                   /\ p < N.lo + t.dst.off + t.n)
<1>1. /\ k \in DOMAIN old /\ ~first
      /\ O.lo \in Nat /\ O.hi \in Nat /\ O.lo < O.hi
      /\ N.lo \in Nat /\ N.hi \in Nat /\ N.lo < N.hi
  BY Current DEF IInv
<1>2. oldLocal[k] = k
  BY <1>1 DEF IInv, OldCopied
<1>3. CASE SameStart
  <2>1. Transfer = Copying([at |-> Base, off |-> 0], [at |-> k, off |-> 0],
                           Smaller(Size(N), Size(O)))
    BY <1>2, <1>3, AtStart DEF Transfer, CopySameStart
  <2> QED BY <2>1, <1>1, <1>3 DEF Copying, Smaller, Size, SameStart, PagesOf
<1>4. CASE ~SameStart /\ N.lo < O.lo
  <2>1. Transfer = Copying([at |-> Base, off |-> O.lo - N.lo], [at |-> k, off |-> 0],
                           IF NewShorter THEN N.hi - O.lo ELSE Size(O))
    BY <1>2, <1>4 DEF Transfer, CopyInside
  <2> QED BY <2>1, <1>1, <1>4 DEF Copying, Size, NewShorter, Overlap, PagesOf
<1>5. CASE ~SameStart /\ ~(N.lo < O.lo)
  <2>1. Transfer = Copying([at |-> Base, off |-> 0], [at |-> k, off |-> N.lo - O.lo],
                           IF NewShorter THEN Size(N) ELSE O.hi - N.lo)
    BY <1>2, <1>5 DEF Transfer, CopyTail
  <2>2. O.lo < N.lo
    BY <1>1, <1>5 DEF SameStart
  <2> QED BY <2>1, <2>2, <1>1 DEF Copying, Size, NewShorter, Overlap, PagesOf
<1> QED BY <1>3, <1>4, <1>5

(* The copies after the memcpy: the current new mapping has got the pages  *)
(* of the current old one, and no other copy has changed.                  *)
LEMMA Transferred ==
  ASSUME IInv, Merging, ~Same, Overlap, oldLocal[k] # Null
  PROVE  /\ Memcpy(Transfer) \in Seq(Allocation)
         /\ DOMAIN Memcpy(Transfer) = DOMAIN Room
         /\ \A c \in DOMAIN Room : c # Base => Memcpy(Transfer)[c] = Room[c]
         /\ Memcpy(Transfer)[Base] =
              [o \in 0 .. Size(N) - 1 |->
                 IF N.lo + o \in PagesOf(O) \/ Seen(k2, N.lo + o)
                   THEN N.lo + o ELSE Zero]
<1> DEFINE t   == Transfer
           row == [o \in DOMAIN Room[Base] |->
                     IF o - t.dst.off \in 0 .. t.n - 1
                       THEN Room[t.src.at][t.src.off + (o - t.dst.off)]
                       ELSE Room[Base][o]]
           got == [o \in 0 .. Size(N) - 1 |->
                     IF N.lo + o \in PagesOf(O) \/ Seen(k2, N.lo + o)
                       THEN N.lo + o ELSE Zero]
<1>1. /\ ~first /\ k \in DOMAIN old
      /\ O.lo \in Nat /\ O.hi \in Nat /\ Size(O) \in Nat
      /\ N.lo \in Nat /\ N.hi \in Nat /\ Size(N) \in Nat
      /\ N.hi = N.lo + Size(N)
  BY Current DEF IInv
<1>2. /\ t.dst.at = Base /\ t.src.at = k
      /\ t.n \in Nat /\ t.dst.off \in Nat /\ t.src.off \in Nat
      /\ t.src.off + t.n <= Size(O)
      /\ N.lo + t.dst.off = O.lo + t.src.off
      /\ \A p \in Nat : N.lo <= p /\ p < N.hi =>
           (p \in PagesOf(O) <=> /\ N.lo + t.dst.off <= p
                                /\ p < N.lo + t.dst.off + t.n)
  BY TransferExact
<1>3. /\ Room \in Seq(Allocation) /\ Base \in DOMAIN Room
      /\ \A c \in DOMAIN copies : Room[c] = copies[c]
      /\ Room[Base] = [o \in 0 .. Size(N) - 1 |->
                         IF Seen(k2, N.lo + o) THEN N.lo + o ELSE Zero]
  BY RoomRow
<1>4. Room[k] = [o \in 0 .. Size(O) - 1 |-> O.lo + o]
  <2>1. k \in DOMAIN copies
    <3>1. /\ DOMAIN copies = 1 .. Len(copies) /\ Len(copies) \in Nat
          /\ DOMAIN old = 1 .. Len(old) /\ Len(old) \in Nat
          /\ Len(old) <= Len(copies)
      BY <1>1, InOrder DEF IInv, Typed, OldCopied
    <3> QED BY <3>1, <1>1
  <2> QED BY <2>1, <1>1, <1>3 DEF IInv, OldCopied, O
<1>5. ASSUME NEW o \in 0 .. Size(N) - 1
      PROVE  row[o] = got[o]
  <2>1. /\ o \in Nat /\ N.lo + o \in Nat
        /\ N.lo <= N.lo + o /\ N.lo + o < N.hi /\ o \in DOMAIN Room[Base]
    BY <1>1, <1>3
  <2>2. N.lo + o \in PagesOf(O) <=> o - t.dst.off \in 0 .. t.n - 1
    <3>1. N.lo + o \in PagesOf(O) <=> /\ N.lo + t.dst.off <= N.lo + o
                                     /\ N.lo + o < N.lo + t.dst.off + t.n
      BY <2>1, <1>2
    <3> QED BY <3>1, <2>1, <1>1, <1>2
  <2>3. CASE o - t.dst.off \in 0 .. t.n - 1
    <3>1. /\ t.src.off + (o - t.dst.off) \in 0 .. Size(O) - 1
          /\ O.lo + (t.src.off + (o - t.dst.off)) = N.lo + o
      BY <2>3, <2>1, <1>1, <1>2
    <3>2. row[o] = N.lo + o
      BY <3>1, <2>1, <2>3, <1>2, <1>4
    <3> QED BY <3>2, <2>2, <2>3
  <2>4. CASE ~(o - t.dst.off \in 0 .. t.n - 1)
    BY <2>1, <2>2, <2>4, <1>3
  <2> QED BY <2>3, <2>4
<1>6. row = got
  BY <1>3, <1>5
<1>7. Memcpy(Transfer) = [Room EXCEPT ![Base] = row]
  BY <1>2 DEF Memcpy
<1>8. got \in Allocation
  <2>1. got \in [0 .. Size(N) - 1 -> Content]
    BY <1>1 DEF Content
  <2> QED BY <2>1, <1>1, CopyIsAllocation
<1> HIDE DEF row, got
<1>9. Memcpy(Transfer) = [Room EXCEPT ![Base] = got]
  BY <1>6, <1>7
<1>10. /\ Memcpy(Transfer) \in Seq(Allocation)
       /\ DOMAIN Memcpy(Transfer) = DOMAIN Room
       /\ \A c \in DOMAIN Room : c # Base => Memcpy(Transfer)[c] = Room[c]
       /\ Memcpy(Transfer)[Base] = got
  BY <1>3, <1>8, <1>9
<1> QED BY <1>10 DEF got

----------------------------------------------------------------------------
(* An iteration that has filled the copy of the current new mapping with   *)
(* the pages it shares with the current old one, and is finished with the  *)
(* one of the two that ends first.                                         *)
LEMMA FilledKeeps ==
  ASSUME IInv, Merging,
         UNCHANGED <<first, old, new, oldLocal>>, crashed' = crashed,
         newLocal' = [newLocal EXCEPT ![k2] = Base],
         copies' \in Seq(Allocation),
         DOMAIN copies' = DOMAIN Room,
         \A c \in DOMAIN Room : c # Base => copies'[c] = Room[c],
         copies'[Base] =
           [o \in 0 .. Size(N) - 1 |->
              IF N.lo + o \in PagesOf(O) \/ Seen(k2, N.lo + o)
                THEN N.lo + o ELSE Zero],
         \/ k2' = k2 + 1 /\ k' = k /\ N.hi <= O.hi
         \/ k' = k + 1 /\ k2' = k2 /\ O.hi <= N.hi,
         mem' \in {Null} \cup Pointer,
         MemAtStart'
  PROVE  IInv'
<1>1. /\ ~first /\ k \in DOMAIN old /\ k2 \in DOMAIN new
      /\ O.lo \in Nat /\ O.hi \in Nat /\ O.lo < O.hi
      /\ N.lo \in Nat /\ N.hi \in Nat /\ N.lo < N.hi
      /\ Size(N) \in Nat \ {0} /\ N.hi = N.lo + Size(N)
  BY Current DEF IInv
<1>2. /\ Base \in Nat /\ Base > Len(old)
      /\ Base \in DOMAIN Room
      /\ DOMAIN copies \subseteq DOMAIN Room
      /\ DOMAIN Room = DOMAIN copies \cup {Base}
      /\ \A c \in DOMAIN copies : Room[c] = copies[c]
      /\ \A i \in DOMAIN new : newLocal[i] = Base => i = k2
  BY RoomRow
<1>3. /\ DOMAIN old = 1 .. Len(old) /\ Len(old) \in Nat
      /\ DOMAIN new = 1 .. Len(new) /\ Len(new) \in Nat
      /\ k \in Nat /\ k2 \in Nat
  <2>1. IsMappingList(old) /\ IsMappingList(new)
    BY DEF IInv, Typed
  <2> QED BY <2>1, <1>1, InOrder
<1>old. /\ \A i \in DOMAIN old : /\ old[i].lo \in Nat /\ old[i].hi \in Nat
                                 /\ old[i].lo < old[i].hi
        /\ \A i, j \in DOMAIN old : i < j => old[i].hi <= old[j].lo
  BY InOrder DEF IInv, Typed
<1>new. /\ \A i \in DOMAIN new : /\ new[i].lo \in Nat /\ new[i].hi \in Nat
                                 /\ new[i].lo < new[i].hi
        /\ \A i, j \in DOMAIN new : i < j => new[i].hi <= new[j].lo
  BY InOrder DEF IInv, Typed
<1>4. /\ DOMAIN copies = 1 .. Len(copies) /\ Len(copies) \in Nat
      /\ newLocal \in [DOMAIN new -> {Null} \cup DOMAIN copies]
      /\ oldLocal \in [DOMAIN old -> {Null} \cup DOMAIN copies]
  <2>1. copies \in Seq(Allocation)
    BY DEF IInv, Typed
  <2> QED BY <2>1 DEF IInv, Typed, TypeOK
<1>5. Base # Null
  BY <1>2, NullAssumption
<1>6. /\ newLocal'[k2] = Base
      /\ \A i \in DOMAIN new : i # k2 => newLocal'[i] = newLocal[i]
      /\ DOMAIN newLocal' = DOMAIN new
  BY <1>1, <1>4
<1>7. \A c \in DOMAIN copies : c # Base => copies'[c] = copies[c]
  BY <1>2
<1>8. Typed'
  <2>1. /\ newLocal' \in [DOMAIN new -> {Null} \cup DOMAIN copies']
        /\ oldLocal' \in [DOMAIN old -> {Null} \cup DOMAIN copies']
    BY <1>2, <1>4
  <2>2. k' \in 1 .. Len(old) + 1 /\ k2' \in 1 .. Len(new) + 1
    BY <1>1, <1>3
  <2>3. ASSUME NEW c \in DOMAIN copies'
        PROVE  \E m \in {old[i] : i \in DOMAIN old} \cup {new[i] : i \in DOMAIN new} :
                 copies'[c] \in [0 .. Size(m) - 1 -> Nat \cup {Zero}]
    <3>1. CASE c = Base
      <4>1. copies'[c] \in [0 .. Size(N) - 1 -> Nat \cup {Zero}]
        BY <3>1, <1>1
      <4>2. N \in {new[i] : i \in DOMAIN new}
        BY <1>1 DEF N
      <4> QED BY <4>1, <4>2
    <3>2. CASE c # Base
      <4>1. c \in DOMAIN copies /\ copies'[c] = copies[c]
        BY <3>2, <1>2, <1>7
      <4> QED BY <4>1 DEF IInv, Typed, TypeOK
    <3> QED BY <3>1, <3>2
  <2>4. IsMappingList(old)' /\ IsMappingList(new)'
    BY DEF IInv, Typed, IsMappingList
  <2>5. first' \in BOOLEAN /\ (first => new = << >>)'
    BY DEF IInv, Typed, TypeOK
  <2>6. TypeOK'
    BY <2>1, <2>2, <2>3, <2>5 DEF TypeOK, IInv, Typed
  <2> QED BY <2>4, <2>5, <2>6 DEF Typed
<1>9. OldCopied'
  <2>1. /\ Len(old) <= Len(copies)
        /\ \A i \in DOMAIN old : oldLocal[i] \in {i, Null}
        /\ \A i \in DOMAIN old :
             copies[i] = [o \in 0 .. Size(old[i]) - 1 |-> old[i].lo + o]
    BY <1>1 DEF IInv, OldCopied
  <2>2. DOMAIN copies' = 1 .. Len(copies') /\ Len(copies') \in Nat
    OBVIOUS
  <2>3. Len(copies) <= Len(copies')
    BY <2>2, <1>2, <1>4
  <2>4. \A i \in DOMAIN old : i \in DOMAIN copies /\ i # Base
    BY <2>1, <1>2, <1>3, <1>4
  <2> QED BY <2>1, <2>2, <2>3, <2>4, <1>3, <1>4, <1>7 DEF OldCopied
<1>10. Passed'
  <2>1. SUFFICES ASSUME NEW i \in DOMAIN new, NEW j \in DOMAIN old, j < k'
                 PROVE  /\ i > k2' => old[j].hi <= new[i].lo
                        /\ i = k2' =>
                             /\ old[j].hi <= new[i].hi
                             /\ newLocal'[i] = Null => old[j].hi <= new[i].lo
    BY DEF Passed
  <2>2. CASE k2' = k2 + 1 /\ k' = k
    <3>1. CASE i > k2
      <4>1. old[j].hi <= new[i].lo
        BY <2>1, <2>2, <3>1 DEF IInv, Passed
      <4>2. old[j].hi <= new[i].hi
        BY <4>1, <1>old, <1>new
      <4> QED BY <4>1, <4>2
    <3>2. CASE ~(i > k2)
      BY <2>2, <3>2, <1>3
    <3> QED BY <3>1, <3>2
  <2>3. CASE k' = k + 1 /\ k2' = k2 /\ O.hi <= N.hi
    <3>1. CASE j < k
      BY <2>1, <2>3, <3>1, <1>3, <1>4, <1>5, <1>6 DEF IInv, Passed
    <3>2. CASE j = k
      <4>1. old[j].hi <= N.hi
        BY <2>3, <3>2 DEF O
      <4>2. CASE i = k2
        BY <4>1, <4>2, <2>3, <1>1, <1>3, <1>5, <1>6 DEF N
      <4>3. CASE i > k2
        <5>1. N.hi <= new[i].lo
          BY <4>3, <1>1, <1>new DEF N
        <5>2. old[j].hi \in Nat /\ new[i].lo \in Nat
          BY <1>old, <1>new
        <5> QED BY <5>1, <5>2, <4>1, <4>3, <2>3, <1>1, <1>3
      <4> QED BY <4>2, <4>3, <2>3
    <3> QED BY <3>1, <3>2, <2>1, <2>3, <1>3, <1>4
  <2> QED BY <2>2, <2>3
<1>11. Given'
  BY <1>3, <1>4, <1>5, <1>6 DEF IInv, Given
<1>12. Own'
  <2>1. SUFFICES ASSUME NEW i \in DOMAIN new, newLocal'[i] # Null
                 PROVE  /\ newLocal'[i] <= Len(old) => i < k2'
                        /\ newLocal'[i] > Len(old) =>
                             \A j \in DOMAIN new : newLocal'[j] = newLocal'[i] => j = i
    BY DEF Own
  <2>2. CASE i = k2
    BY <2>2, <1>2, <1>3, <1>6
  <2>3. CASE i # k2
    BY <2>1, <2>3, <1>2, <1>3, <1>4, <1>6 DEF IInv, Own
  <2> QED BY <2>2, <2>3
<1>13. Rows'
  <2>1. SUFFICES ASSUME NEW i \in DOMAIN new, newLocal'[i] # Null
                 PROVE  copies'[newLocal'[i]] =
                          [o \in 0 .. Size(new[i]) - 1 |->
                             IF Seen(i, new[i].lo + o)' THEN new[i].lo + o ELSE Zero]
    <3>1. new' = new
      OBVIOUS
    <3> QED BY ONLY <3>1, <2>1 DEF Rows
  <2>2. CASE i # k2
    <3>1. newLocal'[i] = newLocal[i] /\ newLocal[i] \in DOMAIN copies /\ newLocal[i] # Base
      BY <2>1, <2>2, <1>2, <1>4, <1>6
    <3>2. i < k2 /\ i < k2'
      BY <2>2, <3>1, <2>1, <1>3, <1>4 DEF IInv, Given
    <3>3. ASSUME NEW o \in 0 .. Size(new[i]) - 1
          PROVE  Seen(i, new[i].lo + o)' <=> Seen(i, new[i].lo + o)
      BY <3>2 DEF Seen
    <3>4. copies'[newLocal'[i]] = copies[newLocal[i]]
      BY <3>1, <1>7
    <3>5. copies[newLocal[i]] =
            [o \in 0 .. Size(new[i]) - 1 |->
               IF Seen(i, new[i].lo + o) THEN new[i].lo + o ELSE Zero]
      BY <3>1, <2>1 DEF IInv, Rows
    <3> QED BY <3>3, <3>4, <3>5
  <2>3. CASE i = k2
    <3>1. ASSUME NEW p \in Nat, N.lo <= p, p < N.hi
          PROVE  Seen(i, p)' <=> p \in PagesOf(O) \/ Seen(k2, p)
      <4>1. \A j \in DOMAIN old : p \in PagesOf(old[j]) <=> old[j].lo <= p /\ p < old[j].hi
        BY <1>old, PageRange
      <4>2. CASE k2' = k2 + 1 /\ k' = k /\ N.hi <= O.hi
        <5>1. Seen(i, p)' <=> \E j \in DOMAIN old : p \in PagesOf(old[j])
          BY <2>3, <4>2, <1>3 DEF Seen
        <5>2. ASSUME NEW j \in DOMAIN old, p \in PagesOf(old[j]) PROVE j <= k
          <6>1. SUFFICES ASSUME k < j PROVE FALSE
            BY <1>3, <1>4
          <6>2. O.hi <= old[j].lo
            BY <6>1, <1>1, <1>old DEF O
          <6>3. old[j].lo <= p /\ old[j].lo \in Nat
            BY <5>2, <4>1, <1>old
          <6> QED BY <6>2, <6>3, <3>1, <4>2, <1>1
        <5>3. (\E j \in DOMAIN old : p \in PagesOf(old[j]))
                <=> p \in PagesOf(O) \/ Seen(k2, p)
          BY <5>2, <1>1, <1>3, <1>4 DEF Seen, O
        <5> QED BY <5>1, <5>3
      <4>3. CASE k' = k + 1 /\ k2' = k2
        <5>1. Seen(i, p)' <=> \E j \in DOMAIN old : j < k + 1 /\ p \in PagesOf(old[j])
          BY <2>3, <4>3, <1>3 DEF Seen
        <5>2. \A j \in DOMAIN old : j < k + 1 <=> j < k \/ j = k
          BY <1>3, <1>4
        <5>3. Seen(k2, p) <=> \E j \in DOMAIN old : j < k /\ p \in PagesOf(old[j])
          BY <1>3 DEF Seen
        <5> QED BY <5>1, <5>2, <5>3, <1>1 DEF O
      <4> QED BY <4>2, <4>3
    <3>2. ASSUME NEW o \in 0 .. Size(N) - 1
          PROVE  Seen(i, new[i].lo + o)' <=> N.lo + o \in PagesOf(O) \/ Seen(k2, N.lo + o)
      <4>1. /\ N.lo + o \in Nat /\ N.lo <= N.lo + o /\ N.lo + o < N.hi
            /\ N.lo + o = new[i].lo + o
        BY <2>3, <1>1 DEF N
      <4>2. (new[i].lo + o)' = new[i].lo + o
        OBVIOUS
      <4> DEFINE p == new[i].lo + o
      <4>3. Seen(i, new[i].lo + o)' <=>
              \E j \in DOMAIN old : (i < k2' \/ j < k') /\ p \in PagesOf(old[j])
        BY <4>2 DEF Seen
      <4>4. \A q : Seen(i, q)' <=>
              \E j \in DOMAIN old : (i < k2' \/ j < k') /\ q \in PagesOf(old[j])
        BY DEF Seen
      <4> QED BY <3>1, <4>1, <4>3, <4>4
    <3>3. newLocal'[i] = Base /\ Size(new[i]) = Size(N) /\ new[i].lo = N.lo
      BY <2>3, <1>6 DEF N
    <3> QED BY <3>2, <3>3
  <2> QED BY <2>2, <2>3
<1>14. FirstRows'
  BY <1>1 DEF FirstRows
<1> QED BY <1>8, <1>9, <1>10, <1>11, <1>12, <1>13, <1>14 DEF IInv

(* Two mappings with common pages: their data is copied.                   *)
LEMMA OverlappingKeeps ==
  ASSUME IInv, OverlappingMapping
  PROVE  IInv'
<1>1. /\ Merging /\ ~Same /\ Overlap /\ oldLocal[k] # Null
      /\ UNCHANGED <<first, old, new, oldLocal, crashed>>
      /\ newLocal' = [newLocal EXCEPT ![k2] = Base]
      /\ copies' = Memcpy(Transfer)
      /\ AdvanceShorter
  BY DEF OverlappingMapping
<1>2. /\ k \in DOMAIN old /\ k2 \in DOMAIN new
      /\ O.lo \in Nat /\ O.hi \in Nat /\ N.lo \in Nat /\ N.hi \in Nat
  BY <1>1, Current DEF IInv
<1>3. \/ k2' = k2 + 1 /\ k' = k /\ N.hi <= O.hi
      \/ k' = k + 1 /\ k2' = k2 /\ O.hi <= N.hi
  BY <1>1, <1>2 DEF AdvanceShorter, NewShorter
<1>4. k \in Nat /\ k2 \in Nat /\ newLocal \in [DOMAIN new -> {Null} \cup DOMAIN copies]
  BY <1>1, Current DEF IInv, Typed, TypeOK
<1>5. mem' \in {Null} \cup Pointer
  <2>1. CASE SameStart
    <3>1. mem' = [at |-> Base, off |-> 0]
      BY <2>1, <1>1, AtStart DEF OverlappingMapping
    <3> QED BY <3>1, <1>1, RoomRow DEF Pointer
  <2>2. CASE ~SameStart
    <3>1. /\ oldLocal[k] = k /\ k \in Nat /\ Base \in Nat
      BY <1>1, <1>2, <1>4, Current, RoomRow DEF IInv, OldCopied
    <3>2. CASE N.lo < O.lo
      BY <2>2, <3>1, <3>2, <1>2
        DEF OverlappingMapping, Transfer, CopyInside, Copying, Pointer
    <3>3. CASE ~(N.lo < O.lo)
      BY <2>2, <3>1, <3>3, <1>2
        DEF OverlappingMapping, Transfer, CopyTail, Copying, Pointer
    <3> QED BY <3>2, <3>3
  <2> QED BY <2>1, <2>2
<1>6. MemAtStart'
  <2>1. SUFFICES ASSUME NEW i \in DOMAIN new, i = k2', newLocal'[i] # Null,
                        \A j \in DOMAIN old : j < k' => old[j].hi <= new[i].lo
                 PROVE  FALSE
    BY <1>1 DEF MemAtStart
  <2>2. CASE k2' = k2 + 1 /\ k' = k
    BY <2>1, <2>2, <1>1, <1>2, <1>4 DEF IInv, Given
  <2>3. CASE k' = k + 1 /\ k2' = k2
    <3>1. O.hi <= N.lo
      BY <2>1, <2>3, <1>2, <1>4 DEF O, N
    <3> QED BY <3>1, <1>1, <1>2 DEF Overlap
  <2> QED BY <2>2, <2>3, <1>3
<1>7. /\ copies' \in Seq(Allocation)
      /\ DOMAIN copies' = DOMAIN Room
      /\ \A c \in DOMAIN Room : c # Base => copies'[c] = Room[c]
      /\ copies'[Base] =
           [o \in 0 .. Size(N) - 1 |->
              IF N.lo + o \in PagesOf(O) \/ Seen(k2, N.lo + o)
                THEN N.lo + o ELSE Zero]
  BY <1>1, Transferred
<1> QED BY <1>1, <1>3, <1>5, <1>6, <1>7, FilledKeeps

(* Two mappings without a common page: nothing is copied.                  *)
LEMMA DisjointKeeps ==
  ASSUME IInv, DisjointMapping
  PROVE  IInv'
<1>1. /\ Merging /\ ~Overlap
      /\ UNCHANGED <<first, old, new, oldLocal, crashed>>
      /\ newLocal' = [newLocal EXCEPT ![k2] = Base]
      /\ copies' = Room /\ mem' = Allocated
      /\ IF N.lo < O.lo THEN k2' = k2 + 1 /\ k' = k ELSE k' = k + 1 /\ k2' = k2
  BY DEF DisjointMapping
<1>2. /\ k \in DOMAIN old /\ k2 \in DOMAIN new
      /\ O.lo \in Nat /\ O.hi \in Nat /\ N.lo \in Nat /\ N.hi \in Nat
      /\ O.lo < O.hi /\ N.lo < N.hi
      /\ Size(N) \in Nat /\ N.hi = N.lo + Size(N)
  BY <1>1, Current DEF IInv
<1>3. \/ k2' = k2 + 1 /\ k' = k /\ N.hi <= O.hi
      \/ k' = k + 1 /\ k2' = k2 /\ O.hi <= N.hi
  BY <1>1, <1>2 DEF Overlap
<1>4. k \in Nat /\ k2 \in Nat /\ newLocal \in [DOMAIN new -> {Null} \cup DOMAIN copies]
  BY <1>1, Current DEF IInv, Typed, TypeOK
<1>5. mem' \in {Null} \cup Pointer
  <2>1. Base \in Nat
    BY <1>1, RoomRow
  <2> QED BY <2>1, <1>1 DEF Allocated, Pointer, IInv, Typed, TypeOK
<1>6. MemAtStart'
  <2>1. SUFFICES ASSUME NEW i \in DOMAIN new, i = k2', newLocal'[i] # Null,
                        \A j \in DOMAIN old : j < k' => old[j].hi <= new[i].lo
                 PROVE  mem' = [at |-> newLocal'[i], off |-> 0]
    BY <1>1 DEF MemAtStart
  <2>2. CASE k2' = k2 + 1 /\ k' = k
    BY <2>1, <2>2, <1>1, <1>2, <1>4 DEF IInv, Given
  <2>3. CASE k' = k + 1 /\ k2' = k2
    <3>1. i = k2 /\ newLocal'[i] = Base
      BY <2>1, <2>3, <1>1, <1>2, <1>4
    <3>2. CASE Fresh
      BY <3>1, <3>2, <1>1 DEF Allocated
    <3>3. CASE ~Fresh
      <4>1. Base = newLocal[k2] /\ newLocal[k2] # Null /\ mem' = mem
        BY <3>3, <1>1 DEF Fresh, Base, Allocated
      <4>2. \A j \in DOMAIN old : j < k => old[j].hi <= new[k2].lo
        <5>1. \A j \in DOMAIN old : j < k => j < k + 1
          <6>1. old \in Seq(Mapping)
            BY DEF IInv, Typed, IsMappingList
          <6> QED BY <6>1, <1>4
        <5> QED BY <5>1, <2>1, <2>3, <3>1
      <4> QED BY <4>1, <4>2, <3>1, <1>2 DEF IInv, MemAtStart
    <3> QED BY <3>2, <3>3
  <2> QED BY <2>2, <2>3, <1>3
<1>7. /\ Room \in Seq(Allocation)
      /\ Room[Base] = [o \in 0 .. Size(N) - 1 |->
                         IF Seen(k2, N.lo + o) THEN N.lo + o ELSE Zero]
  BY <1>1, RoomRow
<1>8. ASSUME NEW o \in 0 .. Size(N) - 1
      PROVE  N.lo + o \notin PagesOf(O)
  BY <1>1, <1>2 DEF Overlap, PagesOf
<1>9. Room[Base] = [o \in 0 .. Size(N) - 1 |->
                      IF N.lo + o \in PagesOf(O) \/ Seen(k2, N.lo + o)
                        THEN N.lo + o ELSE Zero]
  BY <1>7, <1>8
<1> QED BY <1>1, <1>3, <1>5, <1>6, <1>7, <1>9, FilledKeeps

(* A mapping that is in both lists takes over its copy.                    *)
LEMMA SameKeeps ==
  ASSUME IInv, SameMapping
  PROVE  IInv'
<1>1. /\ Merging /\ Same
      /\ newLocal' = [newLocal EXCEPT ![k2] = oldLocal[k]]
      /\ k' = k + 1 /\ k2' = k2 + 1
      /\ UNCHANGED <<first, old, new, oldLocal, mem, copies, crashed>>
  BY DEF SameMapping
<1>2. /\ ~first /\ k \in DOMAIN old /\ k2 \in DOMAIN new
      /\ O.lo \in Nat /\ O.hi \in Nat /\ Size(O) \in Nat /\ O.hi = O.lo + Size(O)
      /\ N.lo = O.lo /\ N.hi = O.hi /\ Size(N) = Size(O)
  BY <1>1, Current DEF IInv, Same, SameStart, Size
<1>3. /\ DOMAIN old = 1 .. Len(old) /\ Len(old) \in Nat
      /\ DOMAIN new = 1 .. Len(new) /\ Len(new) \in Nat
      /\ k \in Nat /\ k2 \in Nat
  <2>1. IsMappingList(old) /\ IsMappingList(new)
    BY DEF IInv, Typed
  <2> QED BY <2>1, <1>2, InOrder
<1>old. \A i \in DOMAIN old : old[i].lo \in Nat /\ old[i].hi \in Nat
  BY InOrder DEF IInv, Typed
<1>new. /\ \A i \in DOMAIN new : /\ new[i].lo \in Nat /\ new[i].hi \in Nat
                                 /\ new[i].lo < new[i].hi
        /\ \A i, j \in DOMAIN new : i < j => new[i].hi <= new[j].lo
  BY InOrder DEF IInv, Typed
<1>4. /\ Len(old) <= Len(copies)
      /\ oldLocal[k] \in {k, Null}
      /\ copies[k] = [o \in 0 .. Size(O) - 1 |-> O.lo + o]
  BY <1>2 DEF IInv, OldCopied, O
<1>5. /\ DOMAIN copies = 1 .. Len(copies) /\ Len(copies) \in Nat
      /\ newLocal \in [DOMAIN new -> {Null} \cup DOMAIN copies]
  <2>1. copies \in Seq(Allocation)
    BY DEF IInv, Typed
  <2> QED BY <2>1 DEF IInv, Typed, TypeOK
<1>6. /\ newLocal'[k2] \in {k, Null}
      /\ \A i \in DOMAIN new : i # k2 => newLocal'[i] = newLocal[i]
      /\ k # Null /\ k <= Len(old) /\ k \in DOMAIN copies
  BY <1>1, <1>2, <1>3, <1>4, <1>5, NullAssumption
<1>7. Typed'
  <2>1. newLocal' \in [DOMAIN new -> {Null} \cup DOMAIN copies]
    BY <1>1, <1>4, <1>5, <1>6
  <2>2. k' \in 1 .. Len(old) + 1 /\ k2' \in 1 .. Len(new) + 1
    BY <1>1, <1>2, <1>3
  <2>3. TypeOK'
    BY <2>1, <2>2, <1>1 DEF TypeOK, IInv, Typed
  <2> QED BY <2>3, <1>1 DEF IInv, Typed, IsMappingList
<1>8. OldCopied'
  BY <1>1 DEF IInv, OldCopied
<1>9. Passed'
  <2>1. SUFFICES ASSUME NEW i \in DOMAIN new, NEW j \in DOMAIN old, j < k', i > k2
                 PROVE  old[j].hi <= new[i].lo /\ old[j].hi <= new[i].hi
    BY <1>1, <1>3 DEF Passed
  <2>2. old[j].hi <= new[i].lo
    <3>1. CASE j < k
      BY <2>1, <3>1 DEF IInv, Passed
    <3>2. CASE j = k
      BY <2>1, <3>2, <1>2, <1>new DEF O, N
    <3> QED BY <3>1, <3>2, <2>1, <1>1, <1>3
  <2> QED BY <2>2, <1>old, <1>new
<1>10. Given'
  BY <1>1, <1>3, <1>6 DEF IInv, Given
<1>11. Own'
  <2>1. SUFFICES ASSUME NEW i \in DOMAIN new, newLocal'[i] # Null
                 PROVE  /\ newLocal'[i] <= Len(old) => i < k2'
                        /\ newLocal'[i] > Len(old) =>
                             \A j \in DOMAIN new : newLocal'[j] = newLocal'[i] => j = i
    BY <1>1 DEF Own
  <2>2. CASE i = k2
    BY <2>1, <2>2, <1>1, <1>3, <1>6
  <2>3. CASE i # k2
    BY <2>1, <2>3, <1>1, <1>3, <1>5, <1>6 DEF IInv, Own
  <2> QED BY <2>2, <2>3
<1>12. Rows'
  <2>1. SUFFICES ASSUME NEW i \in DOMAIN new, newLocal'[i] # Null
                 PROVE  copies[newLocal'[i]] =
                          [o \in 0 .. Size(new[i]) - 1 |->
                             IF Seen(i, new[i].lo + o)' THEN new[i].lo + o ELSE Zero]
    BY <1>1 DEF Rows
  <2>2. CASE i # k2
    <3>1. newLocal'[i] = newLocal[i] /\ i < k2 /\ i < k2'
      BY <2>1, <2>2, <1>1, <1>3, <1>6 DEF IInv, Given
    <3>2. ASSUME NEW o \in 0 .. Size(new[i]) - 1
          PROVE  Seen(i, new[i].lo + o)' <=> Seen(i, new[i].lo + o)
      BY <3>1, <1>1 DEF Seen
    <3>3. copies[newLocal[i]] =
            [o \in 0 .. Size(new[i]) - 1 |->
               IF Seen(i, new[i].lo + o) THEN new[i].lo + o ELSE Zero]
      BY <3>1, <2>1 DEF IInv, Rows
    <3> QED BY <3>1, <3>2, <3>3
  <2>3. CASE i = k2
    <3>1. newLocal'[i] = k /\ new[i].lo = O.lo /\ Size(new[i]) = Size(O)
      BY <2>1, <2>3, <1>2, <1>6 DEF N
    <3>2. ASSUME NEW o \in 0 .. Size(new[i]) - 1
          PROVE  Seen(i, new[i].lo + o)'
      <4>1. O.lo + o \in PagesOf(O)
        BY <3>1, <1>2 DEF PagesOf
      <4>2. i < k2' \/ k < k'
        BY <1>1, <1>3
      <4> QED BY <4>1, <4>2, <3>1, <1>1, <1>2 DEF Seen, O
    <3> QED BY <3>1, <3>2, <1>4
  <2> QED BY <2>2, <2>3
<1>13. FirstRows' /\ MemAtStart'
  BY <1>1, <1>2, <1>3, <1>6 DEF IInv, Given, FirstRows, MemAtStart
<1> QED BY <1>7, <1>8, <1>9, <1>10, <1>11, <1>12, <1>13 DEF IInv

(* The first call gives the next mapping a copy of zeros.                  *)
LEMMA FirstCopyKeeps ==
  ASSUME IInv, FirstCopy
  PROVE  IInv'
<1> DEFINE c == Len(copies) + 1
<1>1. /\ first /\ k \in DOMAIN old
      /\ copies' = Append(copies, Zeros(O))
      /\ oldLocal' = [oldLocal EXCEPT ![k] = c]
      /\ mem' = [at |-> c, off |-> 0]
      /\ k' = k + 1
      /\ UNCHANGED <<first, old, new, newLocal, k2, crashed>>
  BY DEF FirstCopy, Filling
<1>2. /\ DOMAIN old = 1 .. Len(old) /\ Len(old) \in Nat
      /\ O.lo \in Nat /\ O.hi \in Nat /\ Size(O) \in Nat
      /\ new = << >>
  BY <1>1, InOrder DEF IInv, Typed, O
<1>3. /\ copies \in Seq(Allocation)
      /\ DOMAIN copies = 1 .. Len(copies) /\ Len(copies) \in Nat
      /\ oldLocal \in [DOMAIN old -> {Null} \cup DOMAIN copies]
      /\ newLocal \in [DOMAIN new -> {Null} \cup DOMAIN copies]
      /\ k \in Nat
  <2>1. copies \in Seq(Allocation)
    BY DEF IInv, Typed
  <2> QED BY <2>1, <1>1, <1>2 DEF IInv, Typed, TypeOK
<1>4. Zeros(O) \in [0 .. Size(O) - 1 -> Content]
  BY DEF Zeros, Content
<1>5. /\ copies' \in Seq(Allocation)
      /\ DOMAIN copies' = 1 .. Len(copies) + 1
      /\ copies'[c] = Zeros(O)
      /\ \A i \in DOMAIN copies : copies'[i] = copies[i]
  <2>1. Zeros(O) \in Allocation
    BY <1>2, <1>4, CopyIsAllocation
  <2> QED BY <2>1, <1>1, <1>3
<1>6. /\ oldLocal'[k] = c /\ c # Null /\ c \in DOMAIN copies' /\ c \in Nat
      /\ \A i \in DOMAIN old : i # k => oldLocal'[i] = oldLocal[i]
  BY <1>1, <1>3, <1>5, NullAssumption
<1>7. Typed'
  <2>1. /\ newLocal' \in [DOMAIN new -> {Null} \cup DOMAIN copies']
        /\ oldLocal' \in [DOMAIN old -> {Null} \cup DOMAIN copies']
        /\ mem' \in {Null} \cup Pointer
    BY <1>1, <1>3, <1>5, <1>6 DEF Pointer
  <2>2. k' \in 1 .. Len(old) + 1
    BY <1>1, <1>2, <1>3
  <2>3. ASSUME NEW i \in DOMAIN copies'
        PROVE  \E m \in {old[j] : j \in DOMAIN old} \cup {new[j] : j \in DOMAIN new} :
                 copies'[i] \in [0 .. Size(m) - 1 -> Nat \cup {Zero}]
    <3>1. CASE i = c
      BY <3>1, <1>1, <1>4, <1>5 DEF Content, O
    <3>2. CASE i # c
      <4>1. i \in DOMAIN copies /\ copies'[i] = copies[i]
        BY <3>2, <1>3, <1>5
      <4> QED BY <4>1 DEF IInv, Typed, TypeOK
    <3> QED BY <3>1, <3>2
  <2>4. first' \in BOOLEAN /\ k2' \in 1 .. Len(new) + 1 /\ crashed' \in BOOLEAN
    BY <1>1 DEF IInv, Typed, TypeOK
  <2>5. old' = old /\ new' = new
    BY <1>1
  <2>6. TypeOK'
    BY <2>1, <2>2, <2>3, <2>4, <2>5 DEF TypeOK
  <2> QED BY <2>6, <1>1, <1>2, <1>5 DEF IInv, Typed, IsMappingList
<1>8. OldCopied' /\ Passed' /\ Given' /\ Own' /\ Rows' /\ MemAtStart'
  <2>1. DOMAIN new' = {}
    BY <1>1, <1>2
  <2> QED BY <2>1, <1>1 DEF OldCopied, Passed, Given, Own, Rows, MemAtStart
<1>9. FirstRows'
  <2>1. SUFFICES ASSUME NEW i \in DOMAIN old, i < k'
                 PROVE  oldLocal'[i] # Null /\ copies'[oldLocal'[i]] = Zeros(old[i])
    BY <1>1 DEF FirstRows, Zeros
  <2>2. CASE i = k
    BY <2>2, <1>5, <1>6 DEF O
  <2>3. CASE i < k
    <3>1. oldLocal[i] # Null /\ copies[oldLocal[i]] = Zeros(old[i])
      BY <2>3, <1>1 DEF IInv, FirstRows
    <3>2. oldLocal'[i] = oldLocal[i] /\ oldLocal[i] \in DOMAIN copies
      BY <2>3, <3>1, <1>3, <1>6
    <3> QED BY <3>1, <3>2, <1>5
  <2> QED BY <2>1, <2>2, <2>3, <1>1, <1>2, <1>3
<1> QED BY <1>7, <1>8, <1>9 DEF IInv

LEMMA InitKeeps ==
  ASSUME Init
  PROVE  IInv
<1>1. IsMappingList(old) /\ IsMappingList(new)
  BY ListsAssumption DEF Init, IsMappingList
<1>2. /\ DOMAIN old = 1 .. Len(old) /\ Len(old) \in Nat
      /\ DOMAIN new = 1 .. Len(new) /\ Len(new) \in Nat
      /\ \A i \in DOMAIN old : old[i].lo \in Nat /\ Size(old[i]) \in Nat
  BY <1>1, InOrder
<1>3. /\ first \in BOOLEAN /\ k = 1 /\ k2 = 1 /\ mem = Null /\ crashed = FALSE
      /\ newLocal = [i \in DOMAIN new |-> Null]
      /\ first => new = << >>
  BY DEF Init
<1>4. CASE first
  <2>1. copies = << >> /\ oldLocal \in [DOMAIN old -> {Null}] /\ new = << >>
    BY <1>3, <1>4 DEF Init
  <2>2. copies \in Seq(Allocation) /\ DOMAIN copies = {} /\ DOMAIN new = {}
    BY <2>1
  <2>3. TypeOK
    <3>1. k \in 1 .. Len(old) + 1 /\ k2 \in 1 .. Len(new) + 1
      BY <1>2, <1>3
    <3>2. oldLocal \in [DOMAIN old -> {Null} \cup DOMAIN copies]
      BY <2>1
    <3>3. newLocal \in [DOMAIN new -> {Null} \cup DOMAIN copies]
      BY <1>3
    <3> QED BY <2>2, <3>1, <3>2, <3>3, <1>3 DEF TypeOK
  <2>4. Typed
    BY <2>2, <2>3, <1>1, <1>3 DEF Typed
  <2> QED BY <2>2, <2>4, <1>2, <1>3, <1>4
            DEF IInv, OldCopied, Passed, Given, Own, Rows, FirstRows, MemAtStart
<1>5. CASE ~first
  <2>1. /\ copies = [i \in DOMAIN old |->
                       [o \in 0 .. Size(old[i]) - 1 |-> old[i].lo + o]]
        /\ oldLocal \in [DOMAIN old -> {Null} \cup DOMAIN old]
        /\ \A i \in DOMAIN old : oldLocal[i] \in {i, Null}
    BY <1>3, <1>5 DEF Init
  <2>2. ASSUME NEW i \in DOMAIN old
        PROVE  copies[i] \in [0 .. Size(old[i]) - 1 -> Nat \cup {Zero}]
    BY <2>1, <1>2
  <2>3. \A i \in DOMAIN old : copies[i] \in Allocation
    BY <2>2, <1>2, CopyIsAllocation DEF Content
  <2>4. /\ copies \in Seq(Allocation) /\ Len(copies) = Len(old)
        /\ DOMAIN copies = DOMAIN old
    BY <2>1, <2>3, <1>2
  <2>5. TypeOK
    <3>1. ASSUME NEW c \in DOMAIN copies
          PROVE  \E m \in {old[i] : i \in DOMAIN old} \cup {new[i] : i \in DOMAIN new} :
                   copies[c] \in [0 .. Size(m) - 1 -> Nat \cup {Zero}]
      BY <2>2, <2>4
    <3>2. /\ oldLocal \in [DOMAIN old -> {Null} \cup DOMAIN copies]
          /\ newLocal \in [DOMAIN new -> {Null} \cup DOMAIN copies]
      BY <2>1, <2>4, <1>3
    <3>3. k \in 1 .. Len(old) + 1 /\ k2 \in 1 .. Len(new) + 1
      BY <1>2, <1>3
    <3> QED BY <3>1, <3>2, <3>3, <1>3 DEF TypeOK
  <2>6. Typed
    BY <2>4, <2>5, <1>1, <1>3 DEF Typed
  <2>7. OldCopied
    BY <2>1, <2>4, <1>2 DEF OldCopied
  <2>8. Passed /\ Given /\ Own /\ Rows /\ FirstRows /\ MemAtStart
    BY <1>2, <1>3, <1>5 DEF Passed, Given, Own, Rows, FirstRows, MemAtStart
  <2> QED BY <2>6, <2>7, <2>8 DEF IInv
<1> QED BY <1>3, <1>4, <1>5

LEMMA NextKeeps ==
  ASSUME IInv, [Next]_vars
  PROVE  IInv'
<1>1. CASE SameMapping
  BY <1>1, SameKeeps
<1>2. CASE OverlappingMapping
  BY <1>2, OverlappingKeeps
<1>3. CASE DisjointMapping
  BY <1>3, DisjointKeeps
<1>4. CASE FirstCopy
  BY <1>4, FirstCopyKeeps
<1>5. CASE NullSource
  <2>1. /\ UNCHANGED <<first, old, new, oldLocal, newLocal, k, k2, mem, copies>>
        /\ crashed' \in BOOLEAN
    BY <1>5 DEF NullSource
  <2>2. TypeOK'
    BY <2>1 DEF IInv, Typed, TypeOK
  <2>3. Typed'
    BY <2>1, <2>2 DEF IInv, Typed, IsMappingList
  <2>4. OldCopied' /\ Passed' /\ Given' /\ Own'
    BY <2>1 DEF IInv, OldCopied, Passed, Given, Own
  <2>5. Rows'
    BY <2>1 DEF IInv, Rows, Seen
  <2>6. FirstRows' /\ MemAtStart'
    BY <2>1 DEF IInv, FirstRows, Zeros, MemAtStart
  <2> QED BY <2>3, <2>4, <2>5, <2>6 DEF IInv
<1>6. CASE UNCHANGED vars
  <2>1. UNCHANGED <<first, old, new, oldLocal, newLocal, k, k2, mem, copies, crashed>>
    BY <1>6 DEF vars
  <2>2. TypeOK'
    BY <2>1 DEF IInv, Typed, TypeOK
  <2>3. Typed'
    BY <2>1, <2>2 DEF IInv, Typed, IsMappingList
  <2>4. OldCopied' /\ Passed' /\ Given' /\ Own'
    BY <2>1 DEF IInv, OldCopied, Passed, Given, Own
  <2>5. Rows'
    BY <2>1 DEF IInv, Rows, Seen
  <2>6. FirstRows' /\ MemAtStart'
    BY <2>1 DEF IInv, FirstRows, Zeros, MemAtStart
  <2> QED BY <2>3, <2>4, <2>5, <2>6 DEF IInv
<1> QED BY <1>1, <1>2, <1>3, <1>4, <1>5, <1>6 DEF Next, Return

----------------------------------------------------------------------------
(* No local address of a mapping points outside the allocations that       *)
(* update_local_maps has made, each as large as a mapping.                 *)
THEOREM TypeCorrect == Spec => []TypeOK
<1>1. Init => IInv
  BY InitKeeps
<1>2. IInv => TypeOK
  BY DEF IInv, Typed
<1> QED BY <1>1, <1>2, NextKeeps, PTL DEF Spec

LEMMA CopiesInBounds ==
  ASSUME IInv
  PROVE  InBounds
<1>1. SUFFICES ASSUME Merging, ~Same, Overlap, oldLocal[k] # Null
               PROVE  LET t == Transfer IN
                      /\ t.dst.at \in DOMAIN Room /\ t.src.at \in DOMAIN copies
                      /\ t.dst.at # t.src.at
                      /\ \A o \in 0 .. t.n - 1 :
                           /\ t.dst.off + o \in DOMAIN Room[t.dst.at]
                           /\ t.src.off + o \in DOMAIN copies[t.src.at]
  BY DEF InBounds
<1> DEFINE t == Transfer
<1>2. /\ t.dst.at = Base /\ t.src.at = k
      /\ t.n \in Nat /\ t.dst.off \in Nat /\ t.src.off \in Nat
      /\ t.dst.off + t.n <= Size(N) /\ t.src.off + t.n <= Size(O)
  BY <1>1, TransferExact
<1>3. /\ Base > Len(old) /\ Base \in DOMAIN Room /\ Base \in Nat
      /\ DOMAIN Room[Base] = 0 .. Size(N) - 1
  BY <1>1, RoomRow
<1>4. /\ k \in 1 .. Len(old) /\ Size(N) \in Nat /\ Size(O) \in Nat
      /\ k \in DOMAIN old /\ ~first
  BY <1>1, Current DEF IInv
<1>5. /\ copies \in Seq(Allocation) /\ old \in Seq(Mapping)
      /\ Len(old) <= Len(copies)
      /\ DOMAIN copies[k] = 0 .. Size(O) - 1
  BY <1>4 DEF IInv, Typed, IsMappingList, OldCopied, O
<1>6. k \in DOMAIN copies /\ k # Base
  <2>1. /\ Len(copies) \in Nat /\ Len(old) \in Nat
        /\ DOMAIN copies = 1 .. Len(copies)
    BY <1>5
  <2> QED BY <2>1, <1>3, <1>4, <1>5
<1> HIDE DEF t
<1>7. ASSUME NEW o \in 0 .. t.n - 1
      PROVE  t.dst.off + o \in 0 .. Size(N) - 1 /\ t.src.off + o \in 0 .. Size(O) - 1
  <2>1. ASSUME NEW off \in Nat, NEW n \in Nat, NEW size \in Nat,
               off + n <= size, NEW i \in 0 .. n - 1
        PROVE  off + i \in 0 .. size - 1
    BY <2>1
  <2> QED BY <2>1, <1>2, <1>4
<1>8. /\ t.dst.at \in DOMAIN Room /\ t.src.at \in DOMAIN copies
      /\ t.dst.at # t.src.at
  BY <1>2, <1>3, <1>6
<1>9. /\ DOMAIN Room[t.dst.at] = 0 .. Size(N) - 1
      /\ DOMAIN copies[t.src.at] = 0 .. Size(O) - 1
  BY <1>2, <1>3, <1>5
<1> QED BY <1>7, <1>8, <1>9 DEF t

(* Whichever way the mappings of the application have changed, no memcpy   *)
(* of update_local_maps reads or writes outside a copy, or within one.     *)
THEOREM InBoundsHolds == Spec => []InBounds
<1>1. Init => IInv
  BY InitKeeps
<1> QED BY <1>1, CopiesInBounds, NextKeeps, PTL DEF Spec

LEMMA PagesAreKept ==
  ASSUME IInv
  PROVE  PagesKept
<1>1. SUFFICES ASSUME Done, NEW i \in DOMAIN Result, ResultLocal[i] # Null
               PROVE  LET copy == copies[ResultLocal[i]] IN
                      /\ DOMAIN copy = 0 .. Size(Result[i]) - 1
                      /\ \A p \in PagesOf(Result[i]) :
                           copy[p - Result[i].lo] =
                             IF ~first /\ p \in Covered(old) THEN p ELSE Zero
  BY DEF PagesKept
<1>2. /\ DOMAIN old = 1 .. Len(old) /\ Len(old) \in Nat
      /\ DOMAIN new = 1 .. Len(new) /\ Len(new) \in Nat
      /\ k \in 1 .. Len(old) + 1 /\ k2 \in 1 .. Len(new) + 1
  <2>1. IsMappingList(old) /\ IsMappingList(new)
    BY DEF IInv, Typed
  <2> QED BY <2>1, InOrder DEF IInv, Typed, TypeOK
<1>3. CASE first
  <2>1. Result = old /\ ResultLocal = oldLocal /\ i \in DOMAIN old
    BY <1>1, <1>3 DEF Result, ResultLocal
  <2>2. i < k
    BY <2>1, <1>1, <1>2, <1>3 DEF Done, Filling
  <2>3. copies[oldLocal[i]] = Zeros(old[i])
    BY <2>1, <2>2, <1>3 DEF IInv, FirstRows
  <2>4. /\ old[i].lo \in Nat /\ old[i].hi \in Nat
    BY <2>1, InOrder DEF IInv, Typed
  <2> QED BY <2>1, <2>3, <2>4, <1>3 DEF Zeros, PagesOf, Size
<1>4. CASE ~first
  <2>1. Result = new /\ ResultLocal = newLocal /\ i \in DOMAIN new
    BY <1>1, <1>4 DEF Result, ResultLocal
  <2>2. copies[newLocal[i]] =
          [o \in 0 .. Size(new[i]) - 1 |->
             IF Seen(i, new[i].lo + o) THEN new[i].lo + o ELSE Zero]
    BY <2>1, <1>1 DEF IInv, Rows
  <2>3. new[i].lo \in Nat /\ new[i].hi \in Nat
    BY <2>1, InOrder DEF IInv, Typed
  <2>4. \A j \in DOMAIN old : i < k2 \/ j < k
    <3>1. ~(i > k2)
      BY <2>1, <1>1 DEF IInv, Given
    <3>2. CASE i < k2
      BY <3>2
    <3>3. CASE i = k2
      <4>1. k \notin DOMAIN old
        BY <3>3, <2>1, <1>1, <1>4 DEF Done, Merging
      <4> QED BY <4>1, <1>2
    <3> QED BY <3>1, <3>2, <3>3, <2>1, <1>2
  <2>5. \A p : Seen(i, p) <=> p \in Covered(old)
    BY <2>4 DEF Seen, Covered
  <2>6. ASSUME NEW p \in PagesOf(new[i])
        PROVE  copies[newLocal[i]][p - new[i].lo] =
                 IF p \in Covered(old) THEN p ELSE Zero
    <3>1. /\ p - new[i].lo \in 0 .. Size(new[i]) - 1
          /\ new[i].lo + (p - new[i].lo) = p
      BY <2>3 DEF PagesOf, Size
    <3> QED BY <3>1, <2>2, <2>5
  <2> QED BY <2>1, <2>2, <2>6, <1>4
<1> QED BY <1>3, <1>4

(* When the walk is over, the copy of every mapping holds what the last    *)
(* snapshot had of its pages, whatever the copies it was put together of.  *)
THEOREM PagesKeptHolds == Spec => []PagesKept
<1>1. Init => IInv
  BY InitKeeps
<1> QED BY <1>1, PagesAreKept, NextKeeps, PTL DEF Spec

----------------------------------------------------------------------------
(* Which mappings the walk has given a copy to.                            *)

HadCopy(j) == oldLocal[j] # Null

(* The walk reaches a new mapping while there are old ones left.           *)
Reaching ==
  /\ \A i \in DOMAIN new :
       i < k2 \/ newLocal[i] # Null => Reached(old, new, i)
  /\ k2 \in DOMAIN new =>
       /\ k \in DOMAIN old => Reached(old, new, k2)
       /\ k \notin DOMAIN old /\ newLocal[k2] = Null => ~Reached(old, new, k2)

(* A mapping of both lists is passed in both at once, and takes over the   *)
(* copy; any other that is behind the walk has got one.                    *)
Matching ==
  /\ \A i \in DOMAIN new, j \in DOMAIN old : old[j] = new[i] =>
       /\ i < k2 <=> j < k
       /\ i < k2 => newLocal[i] = oldLocal[j]
  /\ \A i \in DOMAIN new : i < k2 /\ newLocal[i] = Null =>
       \E j \in DOMAIN old : old[j] = new[i] /\ ~HadCopy(j)

(* The walk has not survived a pair whose old mapping had no copy.         *)
Survived ==
  /\ \A i \in DOMAIN new, j \in DOMAIN old : i < k2 \/ j < k => ~TornPair(i, j)
  /\ crashed => \E i \in DOMAIN new, j \in DOMAIN old : TornPair(i, j)

Walk == ~first => Reaching /\ Matching /\ Survived

(* Two lists and the positions of the walk, in plain arithmetic.           *)
LEMMA Positions ==
  ASSUME IInv
  PROVE  /\ DOMAIN old = 1 .. Len(old) /\ Len(old) \in Nat
         /\ DOMAIN new = 1 .. Len(new) /\ Len(new) \in Nat
         /\ k \in 1 .. Len(old) + 1 /\ k2 \in 1 .. Len(new) + 1
         /\ old # << >> => End(old) = old[Len(old)].hi /\ Len(old) \in DOMAIN old
         /\ old = << >> => DOMAIN old = {}
         /\ \A i \in DOMAIN old : /\ old[i].lo \in Nat /\ old[i].hi \in Nat
                                  /\ old[i].lo < old[i].hi
         /\ \A i, j \in DOMAIN old : i < j => old[i].hi <= old[j].lo
         /\ \A i \in DOMAIN new : /\ new[i].lo \in Nat /\ new[i].hi \in Nat
                                  /\ new[i].lo < new[i].hi
         /\ \A i, j \in DOMAIN new : i < j => new[i].hi <= new[j].lo
<1>1. IsMappingList(old) /\ IsMappingList(new)
  BY DEF IInv, Typed
<1>2. /\ DOMAIN old = 1 .. Len(old) /\ Len(old) \in Nat
      /\ DOMAIN new = 1 .. Len(new) /\ Len(new) \in Nat
  BY <1>1, InOrder
<1>3. k \in 1 .. Len(old) + 1 /\ k2 \in 1 .. Len(new) + 1
  BY DEF IInv, Typed, TypeOK
<1>4. old # << >> => Len(old) # 0
  BY <1>1, EmptySeq DEF IsMappingList
<1>5. old # << >> => End(old) = old[Len(old)].hi /\ Len(old) \in DOMAIN old
  BY <1>2, <1>4 DEF End
<1>6. old = << >> => DOMAIN old = {}
  OBVIOUS
<1>7. /\ \A i \in DOMAIN old : /\ old[i].lo \in Nat /\ old[i].hi \in Nat
                               /\ old[i].lo < old[i].hi
      /\ \A i, j \in DOMAIN old : i < j => old[i].hi <= old[j].lo
  BY <1>1, InOrder
<1>8. /\ \A i \in DOMAIN new : /\ new[i].lo \in Nat /\ new[i].hi \in Nat
                               /\ new[i].lo < new[i].hi
      /\ \A i, j \in DOMAIN new : i < j => new[i].hi <= new[j].lo
  BY <1>1, InOrder
<1> QED BY <1>2, <1>3, <1>5, <1>6, <1>7, <1>8

(* An old mapping ends below the end of the old list.                      *)
LEMMA UnderEnd ==
  ASSUME IInv, NEW j \in DOMAIN old
  PROVE  /\ End(old) \in Nat /\ old[j].hi <= End(old) /\ old # << >>
         /\ j + 1 \in DOMAIN old => old[j].hi < End(old)
<1>1. /\ old # << >> /\ End(old) = old[Len(old)].hi /\ Len(old) \in DOMAIN old
      /\ DOMAIN old = 1 .. Len(old) /\ Len(old) \in Nat
  BY Positions
<1>2. /\ \A i \in DOMAIN old : /\ old[i].lo \in Nat /\ old[i].hi \in Nat
                               /\ old[i].lo < old[i].hi
      /\ \A a, b \in DOMAIN old : a < b => old[a].hi <= old[b].lo
  BY Positions
<1>3. CASE j = Len(old)
  BY <1>1, <1>2, <1>3
<1>4. CASE j < Len(old)
  <2>1. old[j].hi <= old[Len(old)].lo
    BY <1>1, <1>2, <1>4
  <2> QED BY <2>1, <1>1, <1>2
<1> QED BY <1>1, <1>3, <1>4

(* An iteration that is finished with the current new mapping, which ends  *)
(* below the end of the current old one, or with the current old mapping,  *)
(* which ends no higher than the new one.                                  *)
LEMMA StepWalks ==
  ASSUME IInv, Walk, Merging, ~Same, Overlap => oldLocal[k] # Null,
         UNCHANGED <<first, old, new, oldLocal>>, crashed' = crashed,
         newLocal' = [newLocal EXCEPT ![k2] = Base],
         \/ k2' = k2 + 1 /\ k' = k /\ N.hi < O.hi
         \/ k' = k + 1 /\ k2' = k2 /\ O.hi <= N.hi
  PROVE  Walk'
<1>1. /\ ~first /\ k \in DOMAIN old /\ k2 \in DOMAIN new
      /\ O.lo \in Nat /\ O.hi \in Nat /\ O.lo < O.hi
      /\ N.lo \in Nat /\ N.hi \in Nat /\ N.lo < N.hi
      /\ O = old[k] /\ N = new[k2]
  BY Current DEF IInv, O, N
<1>2. /\ DOMAIN old = 1 .. Len(old) /\ Len(old) \in Nat
      /\ DOMAIN new = 1 .. Len(new) /\ Len(new) \in Nat
      /\ k \in Nat /\ k2 \in Nat
  BY Positions, <1>1
<1>old. /\ \A i \in DOMAIN old : /\ old[i].lo \in Nat /\ old[i].hi \in Nat
                                 /\ old[i].lo < old[i].hi
        /\ \A i, j \in DOMAIN old : i < j => old[i].hi <= old[j].lo
  BY Positions
<1>new. /\ \A i \in DOMAIN new : /\ new[i].lo \in Nat /\ new[i].hi \in Nat
                                 /\ new[i].lo < new[i].hi
        /\ \A i, j \in DOMAIN new : i < j => new[i].hi <= new[j].lo
  BY Positions
<1>3. /\ newLocal'[k2] # Null
      /\ \A i \in DOMAIN new : i # k2 => newLocal'[i] = newLocal[i]
  <2>1. Base # Null
    BY RoomRow, NullAssumption
  <2>2. newLocal \in [DOMAIN new -> {Null} \cup DOMAIN copies]
    BY DEF IInv, Typed, TypeOK
  <2> QED BY <2>1, <2>2, <1>1
<1>4. Reaching /\ Matching /\ Survived
  BY <1>1 DEF Walk
<1>5. Reaching'
  <2>1. \A i : Reached(old, new, i)' = Reached(old, new, i)
    BY DEF Reached, End
  <2>2. Reached(old, new, k2)
    BY <1>1, <1>4 DEF Reaching
  <2>3. \A i \in DOMAIN new : i < k2' \/ newLocal'[i] # Null => Reached(old, new, i)
    BY <2>2, <1>1, <1>2, <1>3, <1>4 DEF Reaching
  <2>4. CASE k2' = k2 + 1 /\ k' = k /\ N.hi < O.hi
    <3>1. new[k2].hi < End(old) /\ old # << >>
      BY <2>4, <1>1, UnderEnd
    <3>2. Reached(old, new, k2')
      BY <3>1, <2>4, <1>2 DEF Reached
    <3> QED BY <3>2, <2>1, <2>3, <2>4, <1>1 DEF Reaching
  <2>5. CASE k' = k + 1 /\ k2' = k2
    BY <2>1, <2>2, <2>3, <2>5, <1>1, <1>3 DEF Reaching
  <2> QED BY <2>4, <2>5
<1>6. \A j \in DOMAIN old : old[j] = new[k2] => j > k
  <2>1. SUFFICES ASSUME NEW j \in DOMAIN old, old[j] = new[k2], ~(j > k) PROVE FALSE
    OBVIOUS
  <2>2. ~(j < k)
    BY <2>1, <1>1, <1>2, <1>4 DEF Matching
  <2>3. j = k
    BY <2>1, <2>2, <1>2
  <2> QED BY <2>1, <2>3, <1>1 DEF Same, SameStart
<1>7. \A i \in DOMAIN new : old[k] = new[i] => i > k2
  <2>1. SUFFICES ASSUME NEW i \in DOMAIN new, old[k] = new[i], ~(i > k2) PROVE FALSE
    OBVIOUS
  <2>2. ~(i < k2)
    BY <2>1, <1>1, <1>2, <1>4 DEF Matching
  <2>3. i = k2
    BY <2>1, <2>2, <1>2
  <2> QED BY <2>1, <2>3, <1>1 DEF Same, SameStart
<1>8. CASE k2' = k2 + 1 /\ k' = k /\ N.hi < O.hi
  <2>1. \A j \in DOMAIN old : j > k => N.hi < old[j].lo
    BY <1>1, <1>2, <1>old, <1>8
  <2>2. \A j \in DOMAIN old : old[j] # new[k2]
    BY <2>1, <1>1, <1>6, <1>8, <1>old
  <2>3. Matching'
    <3>1. ASSUME NEW i \in DOMAIN new, NEW j \in DOMAIN old, old[j] = new[i]
          PROVE  /\ i < k2' <=> j < k'
                 /\ i < k2' => newLocal'[i] = oldLocal[j]
      <4>1. i # k2
        BY <3>1, <2>2
      <4> QED BY <3>1, <4>1, <1>2, <1>3, <1>4, <1>8 DEF Matching
    <3>2. ASSUME NEW i \in DOMAIN new, i < k2', newLocal'[i] = Null
          PROVE  \E j \in DOMAIN old : old[j] = new[i] /\ ~HadCopy(j)
      BY <3>2, <1>2, <1>3, <1>4, <1>8 DEF Matching
    <3> QED BY <3>1, <3>2 DEF Matching, HadCopy
  <2>4. Survived'
    <3>1. ASSUME NEW j \in DOMAIN old, j >= k PROVE ~TornPair(k2, j)
      <4>1. CASE j = k
        BY <4>1, <1>1 DEF TornPair, Overlap
      <4>2. CASE j > k
        BY <4>2, <2>1, <1>1, <1>old DEF TornPair
      <4> QED BY <4>1, <4>2, <3>1, <1>2
    <3>2. \A i \in DOMAIN new, j \in DOMAIN old : TornPair(i, j)' <=> TornPair(i, j)
      BY DEF TornPair
    <3>3. ASSUME NEW i \in DOMAIN new, NEW j \in DOMAIN old, i < k2' \/ j < k'
          PROVE  ~TornPair(i, j)
      BY <3>1, <3>3, <1>2, <1>4, <1>8 DEF Survived
    <3> QED BY <3>2, <3>3, <1>4 DEF Survived
  <2> QED BY <2>3, <2>4, <1>5 DEF Walk
<1>9. CASE k' = k + 1 /\ k2' = k2 /\ O.hi <= N.hi
  <2>1. \A i \in DOMAIN new : i > k2 => O.hi <= new[i].lo
    <3>1. SUFFICES ASSUME NEW i \in DOMAIN new, i > k2 PROVE O.hi <= new[i].lo
      OBVIOUS
    <3>2. N.hi <= new[i].lo
      BY <3>1, <1>1, <1>new
    <3> QED BY <3>1, <3>2, <1>1, <1>9, <1>new
  <2>2. \A i \in DOMAIN new : old[k] # new[i]
    BY <2>1, <1>1, <1>7, <1>9, <1>new
  <2>3. Matching'
    <3>1. ASSUME NEW i \in DOMAIN new, NEW j \in DOMAIN old, old[j] = new[i]
          PROVE  /\ i < k2' <=> j < k'
                 /\ i < k2' => newLocal'[i] = oldLocal[j]
      <4>1. j # k
        BY <3>1, <2>2
      <4> QED BY <3>1, <4>1, <1>2, <1>3, <1>4, <1>9 DEF Matching
    <3>2. ASSUME NEW i \in DOMAIN new, i < k2', newLocal'[i] = Null
          PROVE  \E j \in DOMAIN old : old[j] = new[i] /\ ~HadCopy(j)
      BY <3>2, <1>2, <1>3, <1>4, <1>9 DEF Matching
    <3> QED BY <3>1, <3>2 DEF Matching, HadCopy
  <2>4. Survived'
    <3>1. ASSUME NEW i \in DOMAIN new, i >= k2 PROVE ~TornPair(i, k)
      <4>1. CASE i = k2
        BY <4>1, <1>1 DEF TornPair, Overlap
      <4>2. CASE i > k2
        BY <4>2, <2>1, <1>1, <1>new DEF TornPair
      <4> QED BY <4>1, <4>2, <3>1, <1>2
    <3>2. \A i \in DOMAIN new, j \in DOMAIN old : TornPair(i, j)' <=> TornPair(i, j)
      BY DEF TornPair
    <3>3. ASSUME NEW i \in DOMAIN new, NEW j \in DOMAIN old, i < k2' \/ j < k'
          PROVE  ~TornPair(i, j)
      BY <3>1, <3>3, <1>2, <1>4, <1>9 DEF Survived
    <3> QED BY <3>2, <3>3, <1>4 DEF Survived
  <2> QED BY <2>3, <2>4, <1>5 DEF Walk
<1> QED BY <1>8, <1>9

(* A mapping of both lists: the walk passes it in both.                    *)
LEMMA SameWalks ==
  ASSUME IInv, Walk, SameMapping
  PROVE  Walk'
<1>1. /\ Merging /\ Same
      /\ newLocal' = [newLocal EXCEPT ![k2] = oldLocal[k]]
      /\ k' = k + 1 /\ k2' = k2 + 1
      /\ UNCHANGED <<first, old, new, oldLocal, crashed>>
  BY DEF SameMapping
<1>2. /\ ~first /\ k \in DOMAIN old /\ k2 \in DOMAIN new
      /\ O = old[k] /\ N = new[k2]
      /\ N.lo = O.lo /\ N.hi = O.hi
  BY <1>1, Current DEF IInv, Same, SameStart, O, N
<1>3. /\ DOMAIN old = 1 .. Len(old) /\ Len(old) \in Nat
      /\ DOMAIN new = 1 .. Len(new) /\ Len(new) \in Nat
      /\ k \in Nat /\ k2 \in Nat
  BY Positions, <1>2
<1>old. /\ \A i \in DOMAIN old : /\ old[i].lo \in Nat /\ old[i].hi \in Nat
                                 /\ old[i].lo < old[i].hi
        /\ \A i, j \in DOMAIN old : i < j => old[i].hi <= old[j].lo
  BY Positions
<1>new. /\ \A i \in DOMAIN new : /\ new[i].lo \in Nat /\ new[i].hi \in Nat
                                 /\ new[i].lo < new[i].hi
        /\ \A i, j \in DOMAIN new : i < j => new[i].hi <= new[j].lo
  BY Positions
<1>4. /\ newLocal'[k2] = oldLocal[k]
      /\ \A i \in DOMAIN new : i # k2 => newLocal'[i] = newLocal[i]
  <2>1. newLocal \in [DOMAIN new -> {Null} \cup DOMAIN copies]
    BY DEF IInv, Typed, TypeOK
  <2> QED BY <2>1, <1>1, <1>2
<1>5. old[k] = new[k2]
  <2>1. old \in Seq(Mapping) /\ new \in Seq(Mapping)
    BY DEF IInv, Typed, IsMappingList
  <2>2. old[k] \in Mapping /\ new[k2] \in Mapping
    BY <2>1, <1>2
  <2> QED BY <2>2, <1>2 DEF Mapping
<1>6. Reaching /\ Matching /\ Survived
  BY <1>2 DEF Walk
<1>7. /\ \A j \in DOMAIN old : old[j] = new[k2] => j = k
      /\ \A i \in DOMAIN new : new[i] = old[k] => i = k2
  <2>1. ASSUME NEW j \in DOMAIN old, old[j] = new[k2] PROVE j = k
    BY <2>1, <1>2, <1>3, <1>5, <1>old
  <2>2. ASSUME NEW i \in DOMAIN new, new[i] = old[k] PROVE i = k2
    BY <2>2, <1>2, <1>3, <1>5, <1>new
  <2> QED BY <2>1, <2>2
<1>8. Reaching'
  <2>1. \A i : Reached(old, new, i)' = Reached(old, new, i)
    BY <1>1 DEF Reached, End
  <2>2. Reached(old, new, k2)
    BY <1>2, <1>6 DEF Reaching
  <2>3. \A i \in DOMAIN new : i < k2' \/ newLocal'[i] # Null => Reached(old, new, i)
    BY <2>2, <1>1, <1>2, <1>3, <1>4, <1>6 DEF Reaching
  <2>4. new[k2].hi = old[k].hi /\ old # << >> /\ new[k2].hi \in Nat /\ End(old) \in Nat
    BY <1>2, <1>new, UnderEnd
  <2>5. Reached(old, new, k2') <=> new[k2].hi < End(old)
    <3>1. k2' # 1 /\ k2' - 1 = k2
      BY <1>1, <1>3, <1>2
    <3> QED BY <3>1, <2>4 DEF Reached
  <2>6. k' \in DOMAIN old => Reached(old, new, k2')
    BY <2>4, <2>5, <1>1, <1>2, UnderEnd
  <2>7. k' \notin DOMAIN old => ~Reached(old, new, k2')
    <3>1. SUFFICES ASSUME k' \notin DOMAIN old PROVE new[k2].hi = End(old)
      BY <2>4, <2>5
    <3>2. k = Len(old)
      BY <3>1, <1>1, <1>2, <1>3
    <3> QED BY <3>2, <2>4, Positions
  <2> QED BY <2>1, <2>3, <2>6, <2>7, <1>1 DEF Reaching
<1>9. Matching'
  <2>1. ASSUME NEW i \in DOMAIN new, NEW j \in DOMAIN old, old[j] = new[i]
        PROVE  /\ i < k2' <=> j < k'
               /\ i < k2' => newLocal'[i] = oldLocal[j]
    <3>1. i = k2 <=> j = k
      BY <2>1, <1>2, <1>7
    <3>2. CASE i = k2
      BY <3>1, <3>2, <1>1, <1>3, <1>4
    <3>3. CASE i # k2
      BY <3>1, <3>3, <2>1, <1>1, <1>3, <1>4, <1>6 DEF Matching
    <3> QED BY <3>2, <3>3
  <2>2. ASSUME NEW i \in DOMAIN new, i < k2', newLocal'[i] = Null
        PROVE  \E j \in DOMAIN old : old[j] = new[i] /\ ~HadCopy(j)
    <3>1. CASE i = k2
      BY <3>1, <2>2, <1>2, <1>4, <1>5 DEF HadCopy
    <3>2. CASE i # k2
      BY <3>2, <2>2, <1>1, <1>3, <1>4, <1>6 DEF Matching
    <3> QED BY <3>1, <3>2
  <2> QED BY <2>1, <2>2, <1>1 DEF Matching, HadCopy
<1>10. Survived'
  <2>1. ASSUME NEW j \in DOMAIN old, j >= k PROVE ~TornPair(k2, j)
    <3>1. CASE j = k
      BY <3>1, <1>5 DEF TornPair
    <3>2. CASE j > k
      BY <3>2, <1>2, <1>old DEF TornPair
    <3> QED BY <3>1, <3>2, <2>1, <1>3
  <2>2. ASSUME NEW i \in DOMAIN new, i >= k2 PROVE ~TornPair(i, k)
    <3>1. CASE i = k2
      BY <3>1, <1>5 DEF TornPair
    <3>2. CASE i > k2
      BY <3>2, <1>2, <1>new DEF TornPair
    <3> QED BY <3>1, <3>2, <2>2, <1>3
  <2>3. \A i \in DOMAIN new, j \in DOMAIN old : TornPair(i, j)' <=> TornPair(i, j)
    BY <1>1 DEF TornPair
  <2>4. ASSUME NEW i \in DOMAIN new, NEW j \in DOMAIN old, i < k2' \/ j < k'
        PROVE  ~TornPair(i, j)
    BY <2>1, <2>2, <2>4, <1>1, <1>3, <1>6 DEF Survived
  <2> QED BY <2>3, <2>4, <1>1, <1>6 DEF Survived
<1> QED BY <1>8, <1>9, <1>10 DEF Walk

LEMMA WalkNext ==
  ASSUME IInv, Walk, [Next]_vars
  PROVE  Walk'
<1>1. CASE SameMapping
  BY <1>1, SameWalks
<1>2. CASE OverlappingMapping
  <2>1. /\ Merging /\ ~Same /\ Overlap /\ oldLocal[k] # Null
        /\ UNCHANGED <<first, old, new, oldLocal>> /\ crashed' = crashed
        /\ newLocal' = [newLocal EXCEPT ![k2] = Base]
        /\ AdvanceShorter
    BY <1>2 DEF OverlappingMapping
  <2>2. O.hi \in Nat /\ N.hi \in Nat
    BY <2>1, Current DEF IInv
  <2> QED BY <2>1, <2>2, StepWalks DEF AdvanceShorter, NewShorter
<1>3. CASE DisjointMapping
  <2>1. /\ Merging /\ ~Overlap
        /\ UNCHANGED <<first, old, new, oldLocal>> /\ crashed' = crashed
        /\ newLocal' = [newLocal EXCEPT ![k2] = Base]
        /\ IF N.lo < O.lo THEN k2' = k2 + 1 /\ k' = k ELSE k' = k + 1 /\ k2' = k2
    BY <1>3 DEF DisjointMapping
  <2>2. /\ O.lo \in Nat /\ O.hi \in Nat /\ O.lo < O.hi
        /\ N.lo \in Nat /\ N.hi \in Nat /\ N.lo < N.hi
    BY <2>1, Current DEF IInv
  <2>3. ~Same
    BY <2>1, <2>2 DEF Overlap, Same, SameStart
  <2>4. \/ k2' = k2 + 1 /\ k' = k /\ N.hi < O.hi
        \/ k' = k + 1 /\ k2' = k2 /\ O.hi <= N.hi
    BY <2>1, <2>2 DEF Overlap
  <2> QED BY <2>1, <2>3, <2>4, StepWalks
<1>4. CASE FirstCopy
  BY <1>4 DEF FirstCopy, Filling, Walk
<1>5. CASE NullSource
  <2>1. /\ Merging /\ ~Same /\ Overlap /\ oldLocal[k] = Null
        /\ UNCHANGED <<first, old, new, oldLocal, newLocal, k, k2>>
    BY <1>5 DEF NullSource
  <2>2. /\ ~first /\ k \in DOMAIN old /\ k2 \in DOMAIN new
        /\ O = old[k] /\ N = new[k2]
    BY <2>1, Current DEF IInv, O, N
  <2>3. TornPair(k2, k)
    BY <2>1, <2>2 DEF TornPair, Overlap, Same, SameStart
  <2>4. \A i, j : TornPair(i, j)' <=> TornPair(i, j)
    BY <2>1 DEF TornPair
  <2>5. Survived'
    BY <2>1, <2>2, <2>3, <2>4 DEF Walk, Survived
  <2>6. Reaching' /\ Matching'
    BY <2>1, <2>2 DEF Walk, Reaching, Matching, Reached, End, HadCopy
  <2> QED BY <2>5, <2>6 DEF Walk
<1>6. CASE UNCHANGED vars
  <2>1. UNCHANGED <<first, old, new, oldLocal, newLocal, k, k2, crashed>>
    BY <1>6 DEF vars
  <2>2. \A i, j : TornPair(i, j)' <=> TornPair(i, j)
    BY <2>1 DEF TornPair
  <2>3. ~first => Survived'
    BY <2>1, <2>2 DEF Walk, Survived
  <2>4. ~first => Reaching' /\ Matching'
    BY <2>1 DEF Walk, Reaching, Matching, Reached, End, HadCopy
  <2> QED BY <2>1, <2>3, <2>4 DEF Walk
<1> QED BY <1>1, <1>2, <1>3, <1>4, <1>5, <1>6 DEF Next, Return

LEMMA InitWalk ==
  ASSUME Init
  PROVE  Walk
<1>1. SUFFICES ASSUME ~first PROVE Reaching /\ Matching /\ Survived
  BY DEF Walk
<1>2. IInv
  BY InitKeeps
<1>3. /\ DOMAIN old = 1 .. Len(old) /\ Len(old) \in Nat
      /\ DOMAIN new = 1 .. Len(new) /\ Len(new) \in Nat
      /\ old = << >> => DOMAIN old = {}
  BY <1>2, Positions
<1>4. k = 1 /\ k2 = 1 /\ newLocal = [i \in DOMAIN new |-> Null] /\ ~crashed
  BY DEF Init
<1>5. Reached(old, new, 1) <=> 1 \in DOMAIN old
  <2>1. old # << >> => Len(old) \in DOMAIN old
    BY <1>2, Positions
  <2> QED BY <2>1, <1>3 DEF Reached
<1> QED BY <1>3, <1>4, <1>5 DEF Reaching, Matching, Survived

LEMMA WalkIsExact ==
  ASSUME IInv, Walk
  PROVE  CopiedAsReached
<1>1. SUFFICES ASSUME Done, NEW i \in DOMAIN Result
               PROVE  ResultLocal[i] # Null <=>
                        \/ first
                        \/ /\ Reached(old, new, i)
                           /\ \A j \in DOMAIN old : old[j] = new[i] => oldLocal[j] # Null
  BY DEF CopiedAsReached
<1>2. /\ DOMAIN old = 1 .. Len(old) /\ Len(old) \in Nat
      /\ DOMAIN new = 1 .. Len(new) /\ Len(new) \in Nat
      /\ k \in 1 .. Len(old) + 1 /\ k2 \in 1 .. Len(new) + 1
      /\ old # << >> => End(old) = old[Len(old)].hi /\ Len(old) \in DOMAIN old
  BY Positions
<1>3. CASE first
  <2>1. Result = old /\ ResultLocal = oldLocal /\ i \in DOMAIN old
    BY <1>1, <1>3 DEF Result, ResultLocal
  <2>2. i < k
    BY <2>1, <1>1, <1>2, <1>3 DEF Done, Filling
  <2> QED BY <2>1, <2>2, <1>3 DEF IInv, FirstRows
<1>4. CASE ~first
  <2>1. Result = new /\ ResultLocal = newLocal /\ i \in DOMAIN new
    BY <1>1, <1>4 DEF Result, ResultLocal
  <2>2. Reaching /\ Matching
    BY <1>4 DEF Walk
  <2>3. CASE i < k2
    <3>1. Reached(old, new, i)
      BY <2>1, <2>2, <2>3 DEF Reaching
    <3>2. newLocal[i] = Null => \E j \in DOMAIN old : old[j] = new[i] /\ oldLocal[j] = Null
      BY <2>1, <2>2, <2>3 DEF Matching, HadCopy
    <3>3. \A j \in DOMAIN old : old[j] = new[i] => newLocal[i] = oldLocal[j]
      BY <2>1, <2>2, <2>3 DEF Matching
    <3> QED BY <3>1, <3>2, <3>3, <2>1, <1>4
  <2>4. CASE ~(i < k2)
    <3>1. k = Len(old) + 1 /\ k2 \in DOMAIN new /\ k \notin DOMAIN old
      BY <2>1, <2>4, <1>1, <1>2, <1>4 DEF Done, Merging
    <3>2. \A j \in DOMAIN old : old[j] # new[i]
      BY <3>1, <2>1, <2>2, <2>4, <1>2 DEF Matching
    <3>3. CASE i = k2
      BY <3>1, <3>2, <3>3, <2>1, <2>2, <1>4 DEF Reaching
    <3>4. CASE i > k2
      <4>1. newLocal[i] = Null
        BY <3>4, <2>1 DEF IInv, Given
      <4>2. ~Reached(old, new, i)
        <5>1. SUFFICES ASSUME old # << >>, new[i - 1].hi < End(old) PROVE FALSE
          BY <3>1, <3>4, <1>2, <2>1 DEF Reached
        <5>2. i - 1 \in DOMAIN new /\ i - 1 >= k2 /\ Len(old) < k
          BY <3>1, <3>4, <2>1, <1>2
        <5>3. old[Len(old)].hi <= new[i - 1].hi
          <6>1. Len(old) \in DOMAIN old
            BY <5>1, <1>2
          <6>2. CASE i - 1 = k2
            BY <5>2, <6>1, <6>2 DEF IInv, Passed
          <6>3. CASE i - 1 > k2
            <7>1. old[Len(old)].hi <= new[i - 1].lo
              BY <5>2, <6>1, <6>3 DEF IInv, Passed
            <7> QED BY <7>1, <5>2, <6>1, Positions
          <6> QED BY <6>2, <6>3, <5>2, <2>1, <1>2
        <5>4. new[i - 1].hi \in Nat /\ End(old) \in Nat /\ End(old) = old[Len(old)].hi
          BY <5>1, <5>2, <1>2, Positions
        <5> QED BY <5>1, <5>3, <5>4
      <4> QED BY <4>1, <4>2, <2>1, <1>4
    <3> QED BY <3>3, <3>4, <2>1, <2>4, <1>2
  <2> QED BY <2>3, <2>4
<1> QED BY <1>3, <1>4

(* A mapping is left without a copy just when the walk ended with the old  *)
(* list below it, or when it has not changed and had none.                 *)
THEOREM CopiedAsReachedHolds == Spec => []CopiedAsReached
<1>1. IInv /\ Walk /\ [Next]_vars => (IInv /\ Walk)'
  BY NextKeeps, WalkNext
<1> QED BY <1>1, InitKeeps, InitWalk, WalkIsExact, PTL DEF Spec

LEMMA WalkCrashes ==
  ASSUME IInv, Walk
  PROVE  (~first /\ crashed => Torn) /\ (Done => ~Torn)
<1>1. SUFFICES ASSUME ~first PROVE (crashed => Torn) /\ (Done => ~Torn)
  BY DEF Torn
<1>2. Survived
  BY <1>1 DEF Walk
<1>3. crashed => Torn
  BY <1>1, <1>2 DEF Survived, Torn
<1>4. ASSUME Done PROVE ~Torn
  <2>1. SUFFICES ASSUME NEW i \in DOMAIN new, NEW j \in DOMAIN old
                 PROVE  i < k2 \/ j < k
    BY <1>1, <1>2 DEF Survived, Torn
  <2>2. k \notin DOMAIN old \/ k2 \notin DOMAIN new
    BY <1>1, <1>4 DEF Done, Merging
  <2> QED BY <2>1, <2>2, Positions
<1> QED BY <1>3, <1>4

(* The first call reads no copy.                                           *)
FirstSafe == first => ~crashed

(* The tracker dies in a memcpy from address 0 just when a mapping that    *)
(* the last call left without a copy has grown, shrunk, split or joined.   *)
THEOREM CrashesWhenTornHolds == Spec => []CrashesWhenTorn
<1>1. Init => IInv /\ Walk /\ FirstSafe
  <2>1. Init => FirstSafe
    BY DEF Init, FirstSafe
  <2> QED BY <2>1, InitKeeps, InitWalk
<1>2. ASSUME FirstSafe, [Next]_vars PROVE FirstSafe'
  BY <1>2 DEF FirstSafe, Next, Return, vars, SameMapping, OverlappingMapping,
              NullSource, DisjointMapping, FirstCopy, Merging
<1>3. IInv /\ Walk /\ FirstSafe /\ [Next]_vars => (IInv /\ Walk /\ FirstSafe)'
  BY <1>2, NextKeeps, WalkNext
<1>4. IInv /\ Walk /\ FirstSafe => CrashesWhenTorn
  BY WalkCrashes DEF CrashesWhenTorn, FirstSafe
<1> QED BY <1>1, <1>3, <1>4, PTL DEF Spec

----------------------------------------------------------------------------
(* No two mappings share a copy.                                           *)

(* The first call makes one copy after the other.                          *)
FirstOwn ==
  first => /\ Len(copies) = k - 1
           /\ \A i \in DOMAIN old : i < k => oldLocal[i] = i

LEMMA FirstOwnNext ==
  ASSUME IInv, FirstOwn, [Next]_vars
  PROVE  FirstOwn'
<1>1. CASE FirstCopy
  <2>1. /\ first /\ k \in DOMAIN old /\ UNCHANGED <<first, old>>
        /\ copies' = Append(copies, Zeros(O))
        /\ oldLocal' = [oldLocal EXCEPT ![k] = Len(copies) + 1]
        /\ k' = k + 1
    BY <1>1 DEF FirstCopy, Filling
  <2>2. copies \in Seq(Allocation) /\ DOMAIN old = 1 .. Len(old) /\ Len(old) \in Nat
    BY InOrder DEF IInv, Typed
  <2>3. oldLocal \in [DOMAIN old -> {Null} \cup DOMAIN copies]
    BY DEF IInv, Typed, TypeOK
  <2>4. Len(copies) = k - 1 /\ Len(copies) \in Nat /\ k \in Nat
    BY <2>1, <2>2 DEF FirstOwn
  <2>5. Len(copies') = k' - 1
    BY <2>1, <2>2, <2>4
  <2>6. ASSUME NEW i \in DOMAIN old, i < k'  PROVE oldLocal'[i] = i
    <3>1. CASE i = k
      BY <3>1, <2>1, <2>3, <2>4
    <3>2. CASE i # k
      <4>1. i < k
        BY <3>2, <2>1, <2>2, <2>4, <2>6
      <4> QED BY <3>2, <4>1, <2>1, <2>3 DEF FirstOwn
    <3> QED BY <3>1, <3>2
  <2> QED BY <2>1, <2>5, <2>6 DEF FirstOwn
<1>2. CASE SameMapping \/ OverlappingMapping \/ NullSource \/ DisjointMapping
  <2>1. ~first /\ first' = first
    BY <1>2 DEF SameMapping, OverlappingMapping, NullSource, DisjointMapping, Merging
  <2> QED BY <2>1 DEF FirstOwn
<1>3. CASE UNCHANGED vars
  BY <1>3 DEF vars, FirstOwn
<1> QED BY <1>1, <1>2, <1>3 DEF Next, Return

(* A copy that is taken over holds the pages of its old mapping, which is  *)
(* where the new mapping begins.                                           *)
LEMMA TakenOver ==
  ASSUME IInv, ~first, NEW i \in DOMAIN new, newLocal[i] # Null, newLocal[i] <= Len(old)
  PROVE  /\ newLocal[i] \in DOMAIN old
         /\ new[i].lo = old[newLocal[i]].lo
<1> DEFINE c == newLocal[i]
<1>1. /\ DOMAIN old = 1 .. Len(old) /\ Len(old) \in Nat
      /\ copies \in Seq(Allocation) /\ c \in DOMAIN copies
  BY InOrder DEF IInv, Typed, TypeOK
<1>2. c \in DOMAIN old
  BY <1>1
<1>3. /\ old[c].lo \in Nat /\ Size(old[c]) \in Nat \ {0}
      /\ new[i].lo \in Nat /\ Size(new[i]) \in Nat \ {0}
  BY <1>2, InOrder DEF IInv, Typed
<1>4. copies[c] = [o \in 0 .. Size(old[c]) - 1 |-> old[c].lo + o]
  BY <1>2 DEF IInv, OldCopied
<1>5. copies[c] = [o \in 0 .. Size(new[i]) - 1 |->
                     IF Seen(i, new[i].lo + o) THEN new[i].lo + o ELSE Zero]
  BY DEF IInv, Rows
<1>6. 0 \in 0 .. Size(old[c]) - 1 /\ 0 \in 0 .. Size(new[i]) - 1
  BY <1>3
<1>7. copies[c][0] = old[c].lo
  BY <1>3, <1>4, <1>6
<1>8. copies[c][0] = IF Seen(i, new[i].lo) THEN new[i].lo ELSE Zero
  BY <1>3, <1>5, <1>6
<1> QED BY <1>2, <1>3, <1>7, <1>8, ZeroAssumption

LEMMA CopiesUnshared ==
  ASSUME IInv, FirstOwn
  PROVE  Unshared
<1>1. SUFFICES ASSUME Done, NEW i \in DOMAIN Result, NEW j \in DOMAIN Result,
                      ResultLocal[i] # Null, ResultLocal[i] = ResultLocal[j]
               PROVE  i = j
  BY DEF Unshared
<1>2. CASE first
  <2>1. i \in DOMAIN old /\ j \in DOMAIN old /\ oldLocal[i] = oldLocal[j]
    BY <1>1, <1>2 DEF Result, ResultLocal
  <2>2. /\ DOMAIN old = 1 .. Len(old) /\ Len(old) \in Nat
        /\ k \in 1 .. Len(old) + 1
    BY InOrder DEF IInv, Typed, TypeOK
  <2>3. i < k /\ j < k
    BY <2>1, <2>2, <1>1, <1>2 DEF Done, Filling
  <2> QED BY <2>1, <2>3, <1>2 DEF FirstOwn
<1>3. CASE ~first
  <2>1. i \in DOMAIN new /\ j \in DOMAIN new /\ newLocal[i] = newLocal[j] /\ newLocal[i] # Null
    BY <1>1, <1>3 DEF Result, ResultLocal
  <2>2. newLocal[i] \in Nat /\ Len(old) \in Nat
    <3>1. copies \in Seq(Allocation) /\ newLocal[i] \in DOMAIN copies
      BY <2>1 DEF IInv, Typed, TypeOK
    <3> QED BY <3>1, InOrder DEF IInv, Typed
  <2>3. CASE newLocal[i] > Len(old)
    BY <2>1, <2>3 DEF IInv, Own
  <2>4. CASE newLocal[i] <= Len(old)
    <3>1. new[i].lo = new[j].lo
      BY <2>1, <2>4, <1>3, TakenOver
    <3>2. /\ new[i].lo \in Nat /\ new[i].hi \in Nat /\ new[i].lo < new[i].hi /\ i \in Nat
          /\ new[j].lo \in Nat /\ new[j].hi \in Nat /\ new[j].lo < new[j].hi /\ j \in Nat
          /\ i < j => new[i].hi <= new[j].lo
          /\ j < i => new[j].hi <= new[i].lo
      BY <2>1, InOrder DEF IInv, Typed
    <3> QED BY <3>1, <3>2
  <2> QED BY <2>2, <2>3, <2>4
<1> QED BY <1>2, <1>3

(* Whatever was split, joined or taken over, find_dirty_data writes to one *)
(* mapping's copy without touching another's.                              *)
THEOREM UnsharedHolds == Spec => []Unshared
<1>1. Init => IInv /\ FirstOwn
  <2>1. Init => FirstOwn
    BY DEF Init, FirstOwn
  <2> QED BY <2>1, InitKeeps
<1>2. IInv /\ FirstOwn /\ [Next]_vars => (IInv /\ FirstOwn)'
  BY NextKeeps, FirstOwnNext
<1> QED BY <1>1, <1>2, CopiesUnshared, PTL DEF Spec

----------------------------------------------------------------------------
(* What the merge comes to.                                                *)

(* The pages of the mappings of a list that have a copy.                   *)
Held(list, local) ==
  UNION {PagesOf(list[i]) : i \in {j \in DOMAIN list : local[j] # Null}}

(* A mapping gets a copy, for any two lists, just when it is reached and   *)
(* does not take over that it had none; the copy has what the old copies   *)
(* have of its pages, and zeros for the others; and the tracker dies of it *)
(* just when a mapping without copy has changed.                           *)
IsUpdate ==
  /\ CopiedAsReached /\ CrashesWhenTorn
  /\ Done =>
       \A i \in DOMAIN Result : ResultLocal[i] # Null =>
         \A p \in PagesOf(Result[i]) :
           copies[ResultLocal[i]][p - Result[i].lo] =
             IF ~first /\ p \in Held(old, oldLocal) THEN p ELSE Zero

LEMMA KeptIsUpdate ==
  ASSUME TypeOK, IsMappingList(old), IsMappingList(new),
         PagesKept, CopiedAsReached, CrashesWhenTorn
  PROVE  IsUpdate
<1>1. SUFFICES ASSUME Done, ~first, NEW i \in DOMAIN new, newLocal[i] # Null,
                      NEW p \in PagesOf(new[i]), p \in Covered(old)
               PROVE  p \in Held(old, oldLocal)
  <2>1. Held(old, oldLocal) \subseteq Covered(old)
    BY DEF Held, Covered
  <2> QED BY <2>1 DEF IsUpdate, PagesKept, Result, ResultLocal
<1>2. PICK j \in DOMAIN old : p \in PagesOf(old[j])
  BY <1>1 DEF Covered
<1>3. SUFFICES ASSUME oldLocal[j] = Null PROVE FALSE
  BY <1>2 DEF Held
<1>4. old[j] # new[i]
  BY <1>1, <1>3 DEF CopiedAsReached, Result, ResultLocal
<1>5. new[i].lo < old[j].hi /\ old[j].lo < new[i].hi
  <2>1. /\ old[j].lo \in Nat /\ old[j].hi \in Nat
        /\ new[i].lo \in Nat /\ new[i].hi \in Nat
    BY <1>1, InOrder
  <2> QED BY <2>1, <1>1, <1>2 DEF PagesOf
<1>6. Torn
  BY <1>1, <1>3, <1>4, <1>5 DEF Torn, TornPair
<1> QED BY <1>1, <1>6 DEF CrashesWhenTorn

(* This is UpdateLocalMaps and UpdateCrash of WriteSet, for any contents   *)
(* of the pages: whatever was split, joined or moved, find_dirty_data      *)
(* compares with the last snapshot, where it finds a copy.                 *)
THEOREM MergeIsUpdate == Spec => []IsUpdate
<1>1. Init => IInv
  BY InitKeeps
<1>2. IInv => TypeOK /\ IsMappingList(old) /\ IsMappingList(new)
  BY DEF IInv, Typed
<1>3. Spec => [](TypeOK /\ IsMappingList(old) /\ IsMappingList(new))
  BY <1>1, <1>2, NextKeeps, PTL DEF Spec
<1> QED BY <1>3, KeptIsUpdate, PagesKeptHolds, CopiedAsReachedHolds,
           CrashesWhenTornHolds, PTL
=============================================================================

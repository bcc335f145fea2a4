--------------------------- MODULE WriteSetProofs ---------------------------
(***************************************************************************)
(* Proofs about WriteSet for any pages, mapping lists, table size, values  *)
(* and application: the loops of find_dirty_data stay inside the mappings, *)
(* the table inside its allocation, and no page has two rows in a block.   *)
(***************************************************************************)
EXTENDS WriteSet, SequenceTheorems, TLAPS

(* The quotient by which htable_add finds the page of a cache line.        *)
LEMMA DivPage ==
  ASSUME NEW p \in Nat, NEW n \in Nat \ {0}, NEW l \in 0 .. n - 1
  PROVE  (p * n + l) \div n = p
<1> DEFINE v == p * n + l
           q == v \div n
           r == v % n
<1>0. p * n \in Nat
  OBVIOUS
<1>1. v \in Nat /\ q \in Nat /\ r \in 0 .. n - 1
  BY <1>0
<1>2. v = n * q + r
  BY <1>0, <1>1
<1>3. n * q = q * n
  BY <1>1
<1>4. ASSUME q < p PROVE FALSE
  <2>1. PICK d \in Nat : p = q + 1 + d
    <3>1. p - q - 1 \in Nat
      BY <1>1, <1>4
    <3>2. p = q + 1 + (p - q - 1)
      BY <1>1
    <3> QED BY <3>1, <3>2
  <2>2. p * n = q * n + n + d * n /\ d * n \in Nat
    BY <2>1, <1>1
  <2> QED BY <2>2, <1>1, <1>2, <1>3
<1>5. ASSUME q > p PROVE FALSE
  <2>1. PICK d \in Nat : q = p + 1 + d
    <3>1. q - p - 1 \in Nat
      BY <1>1, <1>5
    <3>2. q = p + 1 + (q - p - 1)
      BY <1>1
    <3> QED BY <3>1, <3>2
  <2>2. q * n = p * n + n + d * n /\ d * n \in Nat
    BY <2>1, <1>1
  <2> QED BY <2>2, <1>1, <1>2, <1>3
<1> QED BY <1>1, <1>4, <1>5

(* An address taken modulo the page size is a cache line of the page.      *)
LEMMA LineInPage ==
  ASSUME NEW v \in Nat
  PROVE  LineOf(v) \in Lines
BY TableAssumption DEF LineOf, Lines

(* A mapping of the snapshot, and the order of two of them.                *)
LEMMA MapsInOrder ==
  ASSUME Typed
  PROVE  /\ maps \in Seq(Mapping)
         /\ \A i \in DOMAIN maps : /\ maps[i].lo \in Nat /\ maps[i].hi \in Nat
                                   /\ maps[i].lo < maps[i].hi
         /\ \A i, j \in DOMAIN maps : i < j => maps[i].hi <= maps[j].lo
<1>1. IsMappingList(maps)
  <2>1. CASE maps \in Lists
    BY <2>1, ListsAssumption
  <2>2. CASE maps = << >>
    BY <2>2 DEF IsMappingList
  <2> QED BY <2>1, <2>2 DEF Typed, TypeOK
<1>2. maps \in Seq(Mapping)
  BY <1>1 DEF IsMappingList
<1>3. \A i \in DOMAIN maps : maps[i] \in Mapping
  BY <1>2
<1>4. \A i \in DOMAIN maps : maps[i].lo \in Nat /\ maps[i].hi \in Nat
  BY <1>3 DEF Mapping
<1> QED BY <1>1, <1>2, <1>4 DEF IsMappingList

(* The page at which the loops are belongs to the application.             *)
LEMMA PageCovered ==
  ASSUME Typed, InMapping
  PROVE  Page \in Nat /\ Page \in Covered(maps) /\ Page \in Pages
<1>1. at.i \in DOMAIN maps /\ at.size \in Nat /\ at.size < Size(maps[at.i])
  BY DEF Typed, TypeOK, InMapping, InMappings
<1>2. Page \in PagesOf(maps[at.i]) /\ Page \in Nat
  BY <1>1, MapsInOrder DEF Page, PagesOf, Size
<1> QED BY <1>1, <1>2 DEF Covered, Typed, InLoops

----------------------------------------------------------------------------
(* htable_add.  The rows ascend up to the page p whose line l is added.    *)

LEMMA HtableAddKeeps ==
  ASSUME NEW p \in Nat, NEW l \in Lines,
         HtableOK, Ascending,
         \A a \in DOMAIN htable.rows : htable.rows[a].page <= p,
         HtableAdd(p * LinesPerPage + l)
  PROVE  /\ HtableOK' /\ Ascending'
         /\ htable'.iter = htable.iter
         /\ \A a \in DOMAIN htable'.rows : htable'.rows[a].page <= p
<1> DEFINE v    == p * LinesPerPage + l
           rows == htable.rows
           c    == LineOf(v)
           row  == [page |-> p, bits |-> {c}]
<1>1. LinesPerPage \in Nat \ {0} /\ l \in 0 .. LinesPerPage - 1
  BY TableAssumption DEF Lines
<1>2. v \in Nat
  BY <1>1
<1>3. PageOf(v) = p
  BY <1>1, DivPage DEF PageOf
<1>4. c \in Lines
  BY <1>2, LineInPage
<1>5. rows \in Seq(Row) /\ Len(rows) \in Nat /\ TableSize \in Nat
  BY TableAssumption DEF HtableOK
<1>6. htable \in [iter : Nat, rows : Seq(Row)]
  BY DEF HtableOK
<1>7. CASE IsLastRow(rows, p)
  <2> DEFINE n   == Len(rows)
             new == [rows EXCEPT ![n].bits = @ \cup {c}]
             wider == [rows[n] EXCEPT !.bits = rows[n].bits \cup {c}]
  <2>1. htable' = [htable EXCEPT !.rows = new]
    BY <1>3, <1>7, <1>5, <1>6 DEF HtableAdd
  <2>2. n \in DOMAIN rows /\ rows[n].page = p /\ rows[n] \in Row
    BY <1>7, <1>5 DEF IsLastRow
  <2>0. new = [rows EXCEPT ![n] = wider]
    BY <2>2
  <2>3. wider \in Row /\ wider.bits # {} /\ wider.page = rows[n].page
    BY <2>2, <1>4 DEF Row
  <2>4. new \in Seq(Row) /\ Len(new) = n /\ DOMAIN new = DOMAIN rows
    <3>1. /\ [rows EXCEPT ![n] = wider] \in Seq(Row)
          /\ Len([rows EXCEPT ![n] = wider]) = n
      BY <2>2, <2>3, <1>5, ExceptSeq
    <3> QED BY <3>1, <2>0
  <2>5. \A a \in DOMAIN rows : new[a].page = rows[a].page
    BY <2>2, <2>3, <2>0, <1>5
  <2>6. \A a \in DOMAIN rows : new[a].bits # {}
    BY <2>2, <2>3, <2>0, <1>5 DEF HtableOK
  <2>7. htable'.rows = new /\ htable'.iter = htable.iter
    BY <2>1, <1>6
  <2>8. htable' \in [iter : Nat, rows : Seq(Row)]
    BY <2>1, <2>4, <1>6
  <2>9. HtableOK'
    BY <2>4, <2>6, <2>7, <2>8 DEF HtableOK
  <2>10. Ascending'
    BY <2>4, <2>5, <2>7 DEF Ascending
  <2> QED BY <2>4, <2>5, <2>7, <2>9, <2>10
<1>8. CASE ~IsLastRow(rows, p) /\ Len(rows) + 1 >= TableSize + 1
  <2>1. htable' = [htable EXCEPT !.rows = rows]
    BY <1>3, <1>8 DEF HtableAdd
  <2>2. htable' = htable
    BY <2>1, <1>6
  <2> QED BY <2>2 DEF HtableOK, Ascending
<1>9. CASE ~IsLastRow(rows, p) /\ ~(Len(rows) + 1 >= TableSize + 1)
  <2> DEFINE n   == Len(rows)
             new == Append(rows, row)
  <2>1. htable' = [htable EXCEPT !.rows = new]
    BY <1>3, <1>9 DEF HtableAdd
  <2>2. row \in Row /\ row.bits # {} /\ row.page = p
    BY <1>4 DEF Row
  <2>3. new \in Seq(Row) /\ Len(new) = n + 1
    BY <2>2, <1>5
  <2>4. /\ DOMAIN new = 1 .. n + 1
        /\ DOMAIN rows = 1 .. n
        /\ new[n + 1] = row
        /\ \A a \in 1 .. n : new[a] = rows[a]
    BY <2>2, <1>5
  <2>5. htable'.rows = new /\ htable'.iter = htable.iter
    BY <2>1, <1>6
  <2>6. htable' \in [iter : Nat, rows : Seq(Row)]
    BY <2>1, <2>3, <1>6
  <2>7. \A a \in 1 .. n : rows[a].page \in Nat /\ rows[a].page < p
    <3> SUFFICES ASSUME NEW a \in 1 .. n
                 PROVE  rows[a].page \in Nat /\ rows[a].page < p
      OBVIOUS
    <3>1. n \in DOMAIN rows /\ rows[n].page # p
      BY <1>5, <1>9, <2>4 DEF IsLastRow
    <3>2. rows[n] \in Row /\ rows[a] \in Row
      BY <3>1, <1>5, <2>4
    <3>5. rows[n].page \in Nat /\ rows[a].page \in Nat
      BY <3>2 DEF Row
    <3>3. rows[n].page < p
      BY <3>1, <3>5
    <3>4. a = n \/ rows[a].page < rows[n].page
      BY <3>1, <2>4, <1>5 DEF Ascending
    <3> QED BY <3>5, <3>3, <3>4
  <2>8. HtableOK'
    <3>1. Len(new) <= TableSize
      BY <2>3, <1>5, <1>9
    <3>2. \A a \in DOMAIN new : new[a].bits # {}
      BY <2>2, <2>4 DEF HtableOK
    <3> QED BY <3>1, <3>2, <2>5, <2>6 DEF HtableOK
  <2>9. Ascending'
    BY <2>2, <2>4, <2>5, <2>7, <1>5 DEF Ascending
  <2> QED BY <2>2, <2>4, <2>5, <2>8, <2>9
<1> QED BY <1>7, <1>8, <1>9

----------------------------------------------------------------------------
(* Each action of WriteSet keeps the invariant.                            *)

LEMMA InitKeeps ==
  ASSUME Init
  PROVE  IInv
<1>1. Covered(<< >>) = {} /\ maps = << >> /\ htable.rows = << >>
  BY DEF Init, Covered, HtableInit
<1>2. DOMAIN copy \subseteq Covered(maps) /\ copy \in [DOMAIN copy -> [Lines -> Values]]
  BY <1>1 DEF Init
<1>3. HtableOK
  BY TableAssumption DEF Init, HtableInit, HtableOK
<1>4. memory \in [Pages -> [Lines -> Values]] /\ prot \in [Pages -> {"none", "r", "rw"}]
  BY DEF Init
<1>5. at \in [i : Nat \ {0}, size : Nat, line : 0 .. LinesPerPage]
  BY TableAssumption DEF Init, Start
<1>6. file \in Seq([iter : 0 .. MaxSnapshots - 1, rows : Seq(Row)])
  BY DEF Init
<1>7. TypeOK
  BY <1>2, <1>3, <1>4, <1>5, <1>6, TableAssumption, WriteSetAssumption
     DEF Init, TypeOK
<1>8. InLoops
  BY <1>1 DEF Init, InLoops, InMappings, Start
<1>9. Ascending /\ Behind
  BY <1>1 DEF Ascending, Behind
<1> QED BY <1>7, <1>8, <1>9 DEF IInv, Typed

(* What the loops, the table and the positions are made of.                *)
Loops == <<phase, maps, at, diff_cl, taken, file, htable>>

(* As long as these stand still only the types of the rest matter.         *)
LEMMA LoopsStand ==
  ASSUME IInv, UNCHANGED Loops, alive' \in BOOLEAN,
         memory' \in [Pages -> [Lines -> Values]],
         prot' \in [Pages -> {"none", "r", "rw"}],
         UNCHANGED copy
  PROVE  IInv'
<1>1. TypeOK'
  BY DEF IInv, Typed, TypeOK, Loops, HtableOK, InMapping, InMappings
<1>2. InLoops'
  BY DEF IInv, Typed, InLoops, Loops, InMappings, Page
<1>3. Ascending' /\ Behind'
  BY DEF IInv, Ascending, Behind, Loops, InMappings, Page
<1> QED BY <1>1, <1>2, <1>3 DEF IInv, Typed

LEMMA ApplicationKeeps ==
  ASSUME IInv, Application
  PROVE  IInv'
<1>1. memory \in [Pages -> [Lines -> Values]] /\ prot \in [Pages -> {"none", "r", "rw"}]
  BY DEF IInv, Typed, TypeOK
<1>2. PICK p \in Pages : \/ \E l \in Lines, v \in Values : Write(p, l, v)
                         \/ Mmap(p) \/ Munmap(p) \/ Mprotect(p)
  BY DEF Application
<1>3. UNCHANGED Loops /\ UNCHANGED copy /\ alive' \in BOOLEAN
  BY DEF Application, Loops, IInv, Typed, TypeOK
<1>4. CASE \E l \in Lines, v \in Values : Write(p, l, v)
  <2>1. PICK l \in Lines, v \in Values : Write(p, l, v)
    BY <1>4
  <2>2. memory' \in [Pages -> [Lines -> Values]] /\ prot' = prot
    BY <1>1, <2>1 DEF Write
  <2> QED BY <1>1, <1>3, <2>2, LoopsStand
<1>5. CASE Mmap(p) \/ Mprotect(p)
  <2>1. memory' = memory /\ prot' \in [Pages -> {"none", "r", "rw"}]
    BY <1>1, <1>5 DEF Mmap, Mprotect
  <2> QED BY <1>1, <1>3, <2>1, LoopsStand
<1>6. CASE Munmap(p)
  <2>1. CleanPage \in [Lines -> Values]
    BY WriteSetAssumption DEF CleanPage
  <2>2. /\ memory' \in [Pages -> [Lines -> Values]]
        /\ prot' \in [Pages -> {"none", "r", "rw"}]
    BY <1>1, <1>6, <2>1 DEF Munmap
  <2> QED BY <1>3, <2>2, LoopsStand
<1> QED BY <1>2, <1>4, <1>5, <1>6

LEMMA KillKeeps ==
  ASSUME IInv, Kill
  PROVE  IInv'
<1>1. /\ memory \in [Pages -> [Lines -> Values]]
      /\ prot \in [Pages -> {"none", "r", "rw"}]
  BY DEF IInv, Typed, TypeOK
<1> QED BY <1>1, LoopsStand DEF Kill, Loops

LEMMA BeginSnapshotKeeps ==
  ASSUME IInv, BeginSnapshot
  PROVE  IInv'
<1>1. PICK list \in Lists : /\ ParseMapsFile(list)
                            /\ maps' = list
                            /\ copy' = UpdateLocalMaps(list)
  BY DEF BeginSnapshot
<1>2. Covered(maps') \subseteq Pages
  BY <1>1 DEF ParseMapsFile, Writable
<1>3. DOMAIN copy' \subseteq Covered(maps') /\ copy' \in [DOMAIN copy' -> [Lines -> Values]]
  <2>1. CleanPage \in [Lines -> Values]
    BY WriteSetAssumption DEF CleanPage
  <2>2. copy \in [DOMAIN copy -> [Lines -> Values]]
    BY DEF IInv, Typed, TypeOK
  <2>3. WithCopy(list) \subseteq Covered(list)
    BY DEF WithCopy, Covered
  <2>4. /\ DOMAIN copy' = WithCopy(list)
        /\ \A p \in WithCopy(list) :
             copy'[p] = IF p \in DOMAIN copy THEN copy[p] ELSE CleanPage
    BY <1>1 DEF UpdateLocalMaps
  <2>5. \A p \in WithCopy(list) : copy'[p] \in [Lines -> Values]
    BY <2>1, <2>2, <2>4
  <2>6. copy' = [p \in WithCopy(list) |-> copy'[p]]
    BY <1>1, <2>4 DEF UpdateLocalMaps
  <2> QED BY <1>1, <2>3, <2>4, <2>5, <2>6
<1>4. /\ taken \in Nat /\ taken < MaxSnapshots
      /\ htable' = [iter |-> taken, rows |-> << >>]
      /\ taken' = taken + 1
  BY WriteSetAssumption DEF BeginSnapshot, HtableAddIter, IInv, Typed, TypeOK
<1>5. HtableOK'
  BY <1>4, TableAssumption DEF HtableOK
<1>6. /\ at' \in [i : Nat \ {0}, size : Nat, line : 0 .. LinesPerPage]
      /\ at'.i = 1 /\ at'.size = 0 /\ at'.line = 0
  BY TableAssumption DEF BeginSnapshot, Start
<1>7. TypeOK'
  BY <1>1, <1>3, <1>4, <1>5, <1>6, WriteSetAssumption, TableAssumption
     DEF BeginSnapshot, IInv, Typed, TypeOK
<1>8. InLoops'
  <2>1. IsMappingList(maps')
    BY <1>1, ListsAssumption
  <2>2. InMappings' => at'.size <= Size(maps'[at'.i])
    <3>1. SUFFICES ASSUME InMappings' PROVE at'.size <= Size(maps'[at'.i])
      OBVIOUS
    <3>2. maps'[1] \in Mapping /\ maps'[1].lo < maps'[1].hi
      BY <3>1, <1>6, <2>1 DEF InMappings, IsMappingList
    <3> QED BY <3>2, <1>6 DEF Mapping, Size
  <2>3. phase' = "page" /\ htable'.iter < MaxSnapshots
    BY <1>4 DEF BeginSnapshot
  <2> QED BY <1>2, <1>6, <2>2, <2>3 DEF InLoops
<1>9. Ascending' /\ Behind'
  BY <1>4 DEF Ascending, Behind
<1> QED BY <1>7, <1>8, <1>9 DEF IInv, Typed

(* What find_dirty_data leaves alone when it goes on to another page.      *)
Rest == <<memory, prot, alive, maps, diff_cl, taken, file, htable>>

(* The next page of the mapping lies behind the page at hand.              *)
LEMMA NextPageKeeps ==
  ASSUME IInv, InMapping, phase \in {"page", "line"},
         UNCHANGED Rest, phase' = "page", at' = NextPage,
         DOMAIN copy' = DOMAIN copy,
         copy' \in [DOMAIN copy -> [Lines -> Values]]
  PROVE  IInv'
<1>1. /\ at \in [i : Nat \ {0}, size : Nat, line : 0 .. LinesPerPage]
      /\ at.i \in DOMAIN maps /\ at.size < Size(maps[at.i])
  BY DEF InMapping, InMappings, IInv, Typed, TypeOK
<1>2. /\ at' \in [i : Nat \ {0}, size : Nat, line : 0 .. LinesPerPage]
      /\ at'.i = at.i /\ at'.size = at.size + 1 /\ at'.line = 0
  BY <1>1, TableAssumption DEF NextPage
<1>3. maps[at.i].lo \in Nat /\ maps[at.i].hi \in Nat
  BY <1>1, MapsInOrder DEF IInv
<1>4. TypeOK'
  BY <1>2 DEF Rest, IInv, Typed, TypeOK, HtableOK
<1>5. InLoops'
  BY <1>1, <1>2, <1>3 DEF Rest, IInv, Typed, InLoops, InMappings, Size
<1>6. Ascending'
  BY DEF Rest, IInv, Ascending
<1>7. Page' = Page + 1 /\ Page \in Nat
  BY <1>1, <1>2, <1>3 DEF Rest, Page
<1>8. Behind'
  <2> SUFFICES ASSUME NEW a \in DOMAIN htable.rows
               PROVE  htable.rows[a].page < Page'
    BY DEF Behind, Rest
  <2>1. htable.rows \in Seq(Row)
    BY DEF IInv, Typed, TypeOK, HtableOK
  <2>2. htable.rows[a] \in Row
    BY <2>1
  <2>3. htable.rows[a].page \in Nat
    BY <2>2 DEF Row
  <2>4. htable.rows[a].page <= Page
    BY <1>1, <1>7, <2>3 DEF IInv, Behind, InMappings
  <2> QED BY <1>7, <2>3, <2>4
<1> QED BY <1>4, <1>5, <1>6, <1>8 DEF IInv, Typed

(* The next mapping lies behind the one that the loops leave.              *)
LEMMA NextMappingKeeps ==
  ASSUME IInv, InMappings, phase = "page",
         UNCHANGED Rest, UNCHANGED copy, phase' = "page", at' = NextMapping
  PROVE  IInv'
<1>1. /\ at \in [i : Nat \ {0}, size : Nat, line : 0 .. LinesPerPage]
      /\ at.i \in DOMAIN maps /\ at.size <= Size(maps[at.i])
  BY DEF InMappings, IInv, Typed, TypeOK, InLoops
<1>2. /\ at' \in [i : Nat \ {0}, size : Nat, line : 0 .. LinesPerPage]
      /\ at'.i = at.i + 1 /\ at'.size = 0 /\ at'.line = 0
  BY <1>1, TableAssumption DEF NextMapping
<1>3. maps[at.i].lo \in Nat /\ maps[at.i].hi \in Nat
  BY <1>1, MapsInOrder DEF IInv
<1>4. TypeOK'
  BY <1>2 DEF Rest, IInv, Typed, TypeOK, HtableOK
<1>5. ASSUME at'.i \in DOMAIN maps
      PROVE  /\ maps[at'.i].lo \in Nat /\ maps[at'.i].hi \in Nat
             /\ maps[at'.i].lo < maps[at'.i].hi
             /\ maps[at.i].hi <= maps[at'.i].lo
  <2>1. at.i < at'.i
    BY <1>1, <1>2
  <2> QED BY <1>1, <1>5, <2>1, MapsInOrder DEF IInv
<1>6. InLoops'
  BY <1>2, <1>5 DEF Rest, IInv, Typed, InLoops, InMappings, Size
<1>7. Ascending'
  BY DEF Rest, IInv, Ascending
<1>8. Behind'
  <2> SUFFICES ASSUME NEW a \in DOMAIN htable.rows, at'.i \in DOMAIN maps
               PROVE  htable.rows[a].page < maps[at'.i].lo + at'.size
    BY DEF Behind, Rest, InMappings, Page
  <2>1. htable.rows \in Seq(Row)
    BY DEF IInv, Typed, TypeOK, HtableOK
  <2>2. htable.rows[a] \in Row
    BY <2>1
  <2>3. htable.rows[a].page \in Nat
    BY <2>2 DEF Row
  <2>4. htable.rows[a].page < maps[at.i].lo + at.size
    BY DEF IInv, Behind, Page
  <2> QED BY <1>1, <1>2, <1>3, <1>5, <2>3, <2>4 DEF Size
<1> QED BY <1>4, <1>6, <1>7, <1>8 DEF IInv, Typed

LEMMA ReadPageKeeps ==
  ASSUME IInv, ReadPage
  PROVE  IInv'
<1>1. /\ phase = "page" /\ phase' = "line" /\ diff_cl' = 0 /\ InMapping
      /\ UNCHANGED <<memory, prot, alive, maps, copy, at, taken, file, htable>>
  BY DEF ReadPage
<1>2. TypeOK'
  <2>1. TypeOK
    BY DEF IInv, Typed
  <2>2. diff_cl' \in 0 .. LinesPerPage
    BY <1>1, TableAssumption
  <2>3. HtableOK' /\ InMapping'
    BY <2>1, <1>1 DEF TypeOK, HtableOK, InMapping, InMappings
  <2> QED BY <2>1, <2>2, <2>3, <1>1 DEF TypeOK
<1>3. InLoops'
  <2>1. at.line = 0 /\ at' = at
    BY <1>1 DEF IInv, Typed, InLoops
  <2> QED BY <1>1, <2>1 DEF IInv, Typed, TypeOK, InLoops, InMappings
<1>4. Ascending'
  BY <1>1 DEF IInv, Ascending
<1>5. Page' = Page /\ Page \in Nat
  BY <1>1, PageCovered DEF IInv, Page
<1>6. Behind'
  <2> SUFFICES ASSUME NEW a \in DOMAIN htable.rows
               PROVE  htable.rows[a].page <= Page
    BY <1>1, <1>5 DEF Behind
  <2>1. htable.rows \in Seq(Row)
    BY DEF IInv, Typed, TypeOK, HtableOK
  <2>2. htable.rows[a] \in Row
    BY <2>1
  <2>3. htable.rows[a].page \in Nat
    BY <2>2 DEF Row
  <2> QED BY <1>1, <1>5, <2>3 DEF IInv, Behind, InMapping
<1> QED BY <1>2, <1>3, <1>4, <1>6 DEF IInv, Typed

LEMMA ReadErrorKeeps ==
  ASSUME IInv, ReadError
  PROVE  IInv'
<1>1. /\ phase = "page" /\ phase' = "page" /\ InMapping /\ InMappings
      /\ UNCHANGED Rest /\ UNCHANGED copy
  BY DEF ReadError, Rest, InMapping
<1>2. DOMAIN copy' = DOMAIN copy /\ copy' \in [DOMAIN copy -> [Lines -> Values]]
  BY <1>1 DEF IInv, Typed, TypeOK
<1>3. at' = NextPage \/ at' = NextMapping
  BY DEF ReadError
<1> QED BY <1>1, <1>2, <1>3, NextPageKeeps, NextMappingKeeps

LEMMA PageDoneKeeps ==
  ASSUME IInv, PageDone
  PROVE  IInv'
<1>1. /\ phase = "line" /\ phase' = "page" /\ InMapping
      /\ UNCHANGED Rest /\ at' = NextPage
  BY DEF PageDone, Rest, IInv, Typed, TypeOK
<1>2. DOMAIN copy' = DOMAIN copy /\ copy' \in [DOMAIN copy -> [Lines -> Values]]
  <2>1. Page \in Covered(maps) /\ Page \in Pages
    BY <1>1, PageCovered DEF IInv
  <2>2. /\ memory[Page] \in [Lines -> Values]
        /\ copy \in [DOMAIN copy -> [Lines -> Values]]
    BY <2>1 DEF IInv, Typed, TypeOK
  <2> QED BY <2>1, <2>2 DEF PageDone
<1> QED BY <1>1, <1>2, NextPageKeeps

LEMMA MappingDoneKeeps ==
  ASSUME IInv, MappingDone
  PROVE  IInv'
BY NextMappingKeeps DEF MappingDone, Rest

(* The line that differs is added to the row of its page, and the page is  *)
(* not below that of any other row.                                        *)
LEMMA DiffLineKeeps ==
  ASSUME IInv, DiffLine
  PROVE  IInv'
<1>1. /\ phase = "line" /\ phase' = "line" /\ InMapping
      /\ UNCHANGED <<memory, prot, alive, maps, copy, taken, file>>
  BY DEF DiffLine, IInv, Typed, TypeOK
<1>2. /\ at \in [i : Nat \ {0}, size : Nat, line : 0 .. LinesPerPage]
      /\ at.line \in 0 .. LinesPerPage - 1 /\ LinesPerPage \in Nat
  BY TableAssumption DEF DiffLine, IInv, Typed, TypeOK
<1>3. /\ at' \in [i : Nat \ {0}, size : Nat, line : 0 .. LinesPerPage]
      /\ at'.i = at.i /\ at'.size = at.size /\ at'.line = at.line + 1
  BY <1>2 DEF DiffLine
<1>4. Page' = Page /\ Page \in Nat /\ at.line \in Lines
  BY <1>1, <1>2, <1>3, PageCovered DEF IInv, Page, Lines
<1>5. /\ HtableOK' /\ Ascending' /\ htable'.iter = htable.iter
      /\ \A a \in DOMAIN htable'.rows : htable'.rows[a].page <= Page
  <2>1. HtableOK /\ Ascending
    BY DEF IInv, Typed, TypeOK
  <2>2. \A a \in DOMAIN htable.rows : htable.rows[a].page <= Page
    BY <1>1 DEF IInv, Behind
  <2>3. CASE HtableAdd(Page * LinesPerPage + at.line)
    BY <1>4, <2>1, <2>2, <2>3, HtableAddKeeps
  <2>4. CASE UNCHANGED htable
    BY <2>1, <2>2, <2>4 DEF HtableOK, Ascending
  <2> QED BY <2>3, <2>4 DEF DiffLine
<1>6. diff_cl' \in 0 .. LinesPerPage /\ diff_cl' <= at'.line
  <2>1. diff_cl \in Nat /\ diff_cl <= at.line
    BY <1>1 DEF IInv, Typed, TypeOK, InLoops
  <2>2. diff_cl' = diff_cl + 1 \/ diff_cl' = diff_cl
    BY DEF DiffLine
  <2> QED BY <1>2, <1>3, <2>1, <2>2
<1>7. InMapping'
  BY <1>1, <1>3 DEF InMapping, InMappings
<1>8. TypeOK'
  BY <1>1, <1>3, <1>5, <1>6, <1>7 DEF IInv, Typed, TypeOK
<1>9. InLoops'
  <2>1. Page' \in DOMAIN copy'
    BY <1>1, <1>4 DEF DiffLine
  <2> QED BY <2>1, <1>1, <1>3, <1>5, <1>6 DEF IInv, Typed, InLoops, InMappings
<1>10. Behind'
  BY <1>1, <1>4, <1>5 DEF Behind
<1> QED BY <1>5, <1>8, <1>9, <1>10 DEF IInv, Typed

LEMMA EndSnapshotKeeps ==
  ASSUME IInv, EndSnapshot
  PROVE  IInv'
<1>1. /\ phase = "page" /\ phase' = "window"
      /\ UNCHANGED <<memory, prot, alive, maps, copy, at, diff_cl, taken, htable>>
  BY DEF EndSnapshot
<1>2. file' \in Seq([iter : 0 .. MaxSnapshots - 1, rows : Seq(Row)])
  <2>1. htable \in [iter : Nat, rows : Seq(Row)] /\ htable.iter < MaxSnapshots
    BY <1>1 DEF IInv, Typed, TypeOK, HtableOK, InLoops
  <2>2. htable \in [iter : 0 .. MaxSnapshots - 1, rows : Seq(Row)]
    BY <2>1, WriteSetAssumption
  <2>3. file \in Seq([iter : 0 .. MaxSnapshots - 1, rows : Seq(Row)])
    BY DEF IInv, Typed, TypeOK
  <2>4. file' = file \/ file' = Append(file, htable)
    BY DEF EndSnapshot, HtablePrint
  <2>5. ASSUME NEW S, file \in Seq(S), htable \in S PROVE file' \in Seq(S)
    BY <2>4, <2>5
  <2> QED BY <2>2, <2>3, <2>5
<1>3. TypeOK'
  BY <1>1, <1>2 DEF IInv, Typed, TypeOK, HtableOK
<1>4. InLoops'
  BY <1>1 DEF IInv, Typed, InLoops, InMappings
<1>5. Ascending' /\ Behind'
  BY <1>1 DEF IInv, Ascending, Behind
<1> QED BY <1>3, <1>4, <1>5 DEF IInv, Typed

(* The tracker is gone: nothing else has changed.                          *)
LEMMA CrashKeeps ==
  ASSUME IInv, UpdateCrash \/ CompareCrash
  PROVE  IInv'
<1>1. /\ phase' = "crashed"
      /\ UNCHANGED <<memory, prot, alive, maps, copy, at, diff_cl, taken, file, htable>>
  BY DEF UpdateCrash, CompareCrash
<1>2. TypeOK'
  BY <1>1 DEF IInv, Typed, TypeOK, HtableOK
<1>3. InLoops'
  BY <1>1 DEF IInv, Typed, InLoops, InMappings
<1>4. Ascending' /\ Behind'
  BY <1>1 DEF IInv, Ascending, Behind
<1> QED BY <1>2, <1>3, <1>4 DEF IInv, Typed

----------------------------------------------------------------------------
LEMMA NextKeeps == IInv /\ [Next]_vars => IInv'
<1> SUFFICES ASSUME IInv, [Next]_vars PROVE IInv'
  OBVIOUS
<1>1. CASE Application
  BY <1>1, ApplicationKeeps
<1>2. CASE Kill
  BY <1>2, KillKeeps
<1>3. CASE BeginSnapshot
  BY <1>3, BeginSnapshotKeeps
<1>4. CASE FindDirtyData
  BY <1>4, ReadPageKeeps, ReadErrorKeeps, DiffLineKeeps, PageDoneKeeps,
     MappingDoneKeeps, EndSnapshotKeeps, CrashKeeps DEF FindDirtyData
<1>5. CASE UNCHANGED vars
  <2>1. /\ memory \in [Pages -> [Lines -> Values]]
        /\ prot \in [Pages -> {"none", "r", "rw"}] /\ alive \in BOOLEAN
    BY DEF IInv, Typed, TypeOK
  <2> QED BY <1>5, <2>1, LoopsStand DEF vars, Loops
<1>6. CASE UpdateCrash
  BY <1>6, CrashKeeps
<1> QED BY <1>1, <1>2, <1>3, <1>4, <1>5, <1>6 DEF Next, Stopped

(* The pages of the rows of a block ascend.                                *)
LEMMA AscendingIsInjective ==
  ASSUME IInv
  PROVE  TypeOK /\ OneRowPerPage
<1>1. TypeOK
  BY DEF IInv, Typed
<1>2. SUFFICES ASSUME NEW a \in DOMAIN htable.rows, NEW b \in DOMAIN htable.rows,
                      htable.rows[a].page = htable.rows[b].page
               PROVE  a = b
  BY <1>1 DEF OneRowPerPage
<1>3. htable.rows \in Seq(Row)
  BY <1>1 DEF TypeOK, HtableOK
<1>4. htable.rows[a] \in Row /\ a \in Nat /\ b \in Nat
  BY <1>3
<1>5. htable.rows[a].page \in Nat
  BY <1>4 DEF Row
<1>6. ~(a < b) /\ ~(b < a)
  BY <1>2, <1>5 DEF IInv, Ascending
<1> QED BY <1>4, <1>6

(* The table never outgrows what htable_init allocated, the loops of       *)
(* find_dirty_data stay inside the mappings of the snapshot, and a local   *)
(* copy is of a page of these mappings.                                    *)
THEOREM TypeCorrect == Spec => []TypeOK
<1>1. Init => IInv
  BY InitKeeps
<1>2. IInv => TypeOK
  BY AscendingIsInjective
<1> QED BY <1>1, <1>2, NextKeeps, PTL DEF Spec

(* htable_add looks only at the row it added last; as find_dirty_data      *)
(* visits the pages in ascending order, a page has one row in a block.     *)
THEOREM OneRowPerPageHolds == Spec => []OneRowPerPage
<1>1. Init => IInv
  BY InitKeeps
<1>2. IInv => OneRowPerPage
  BY AscendingIsInjective
<1> QED BY <1>1, <1>2, NextKeeps, PTL DEF Spec

----------------------------------------------------------------------------
(* A list that ends no higher than the one before.                         *)

(* The loop of update_local_maps comes to every mapping of such a list.    *)
LEMMA AllReached ==
  ASSUME NEW old, NEW new, IsMappingList(old), IsMappingList(new),
         End(new) <= End(old), NEW i \in DOMAIN new
  PROVE  Reached(old, new, i)
<1>1. /\ Len(new) \in Nat /\ DOMAIN new = 1 .. Len(new) /\ i \in 1 .. Len(new)
      /\ \A k \in DOMAIN new : /\ new[k].lo \in Nat /\ new[k].hi \in Nat
                              /\ new[k].lo < new[k].hi
  <2>1. new \in Seq(Mapping) /\ \A k \in DOMAIN new : new[k] \in Mapping
    BY DEF IsMappingList
  <2> QED BY <2>1 DEF IsMappingList, Mapping
<1>2. End(new) = new[Len(new)].hi /\ End(new) \in Nat /\ End(new) > 0
  BY <1>1 DEF End
<1>3. ASSUME old = << >> PROVE FALSE
  <2>1. End(old) = 0
    BY <1>3 DEF End
  <2> QED BY <2>1, <1>2
<1>4. End(old) \in Nat
  <2>1. old \in Seq(Mapping) /\ Len(old) \in DOMAIN old
    BY <1>3 DEF IsMappingList
  <2>2. old[Len(old)] \in Mapping
    BY <2>1
  <2> QED BY <1>3, <2>2 DEF End, Mapping
<1>5. new[i].hi <= End(new)
  <2>1. CASE i = Len(new)
    BY <2>1, <1>1, <1>2
  <2>2. CASE i < Len(new)
    <3>1. new[i].hi <= new[Len(new)].lo
      BY <2>2, <1>1 DEF IsMappingList
    <3> QED BY <3>1, <1>1, <1>2
  <2> QED BY <2>1, <2>2, <1>1
<1>6. ASSUME i # 1 PROVE new[i - 1].hi < End(old)
  <2>1. i - 1 \in DOMAIN new /\ i - 1 < i
    BY <1>6, <1>1
  <2>2. new[i - 1].hi <= new[i].lo
    BY <2>1 DEF IsMappingList
  <2> QED BY <2>1, <2>2, <1>1, <1>2, <1>4, <1>5
<1> QED BY <1>3, <1>6 DEF Reached

(* The loop of update_local_maps ends with the old list.  If every mapping *)
(* had a copy and the new list ends no higher than the old one, or this is *)
(* the first list, then every mapping has a copy again.                    *)
THEOREM CopiesBelowEndHolds == Spec => CopiesBelowEnd
<1>1. ASSUME IInv, [Next]_vars, phase = "window", phase' = "page",
             taken = 0 \/ (AllCopies /\ End(maps') <= End(maps))
      PROVE  AllCopies'
  <2>1. BeginSnapshot
    BY <1>1 DEF Next, Application, Kill, UpdateCrash, FindDirtyData, ReadPage,
                ReadError, DiffLine, CompareCrash, PageDone, MappingDone,
                EndSnapshot, Stopped, vars
  <2>2. PICK list \in Lists : maps' = list /\ copy' = UpdateLocalMaps(list)
    BY <2>1 DEF BeginSnapshot
  <2>3. ASSUME NEW i \in DOMAIN list PROVE GetsCopy(list, i)
    <3>1. CASE taken = 0
      BY <3>1 DEF GetsCopy
    <3>2. CASE AllCopies /\ End(list) <= End(maps)
      <4>1. IsMappingList(maps) /\ IsMappingList(list)
        <5>1. maps \in Lists \/ maps = << >>
          BY <1>1 DEF IInv, Typed, TypeOK
        <5>2. IsMappingList(<< >>)
          BY DEF IsMappingList
        <5> QED BY <5>1, <5>2, ListsAssumption
      <4>2. Reached(maps, list, i)
        BY <3>2, <4>1, AllReached
      <4>3. ASSUME NEW j \in DOMAIN maps PROVE HasCopy(j)
        <5>1. maps[j].lo \in PagesOf(maps[j])
          BY <1>1, MapsInOrder DEF PagesOf, IInv
        <5> QED BY <3>2, <5>1 DEF HasCopy, AllCopies, Covered
      <4> QED BY <4>2, <4>3 DEF GetsCopy
    <3> QED BY <1>1, <2>2, <3>1, <3>2
  <2>4. WithCopy(list) = Covered(list)
    BY <2>3 DEF WithCopy, Covered
  <2> QED BY <2>2, <2>4 DEF UpdateLocalMaps, AllCopies
<1>2. IInv /\ [Next]_vars =>
        [/\ phase = "window" /\ phase' = "page"
         /\ taken = 0 \/ (AllCopies /\ End(maps') <= End(maps))
         => AllCopies']_vars
  BY <1>1
<1>3. Init => IInv
  BY InitKeeps
<1> QED BY <1>2, <1>3, NextKeeps, PTL DEF Spec, CopiesBelowEnd

----------------------------------------------------------------------------
(* A stack above all other mappings.                                       *)

(* Nothing is mapped above the stack, and it stays where it is.            *)
StackOnTop == \A a, b \in Lists : End(a) = End(b)

(* The tracker never uses address 0 in the place of a local copy.          *)
NeverCrashes == phase # "crashed"

(* From the first snapshot on every page of the mappings has a copy.       *)
AllCopied ==
  /\ phase # "crashed"
  /\ taken = 0 => phase = "window"
  /\ taken > 0 => DOMAIN copy = Covered(maps) /\ maps \in Lists

(* With every old page copied, each mapping of a list that ends where the  *)
(* old one did gets a copy, and none is copied from NULL.                  *)
LEMMA AllGetCopies ==
  ASSUME IInv, AllCopied, StackOnTop, NEW list \in Lists
  PROVE  WithCopy(list) = Covered(list) /\ ~Torn(list)
<1>1. ASSUME taken > 0, NEW j \in DOMAIN maps
      PROVE  HasCopy(j)
  <2>1. maps[j].lo \in PagesOf(maps[j])
    BY <1>1, MapsInOrder DEF PagesOf, IInv
  <2> QED BY <1>1, <2>1 DEF HasCopy, AllCopied, Covered
<1>2. taken \in Nat
  BY WriteSetAssumption DEF IInv, Typed, TypeOK
<1>3. ASSUME NEW i \in DOMAIN list
      PROVE  GetsCopy(list, i)
  <2>1. CASE taken = 0
    BY <2>1 DEF GetsCopy
  <2>2. CASE taken > 0
    <3>1. maps \in Lists /\ End(list) \in Nat /\ End(list) = End(maps)
      <4>1. maps \in Lists
        BY <2>2 DEF AllCopied
      <4>2. CASE list = << >>
        BY <4>2, <4>1 DEF StackOnTop, End
      <4>3. CASE list # << >>
        <5>1. list \in Seq(Mapping) /\ Len(list) \in DOMAIN list
          BY <4>3, ListsAssumption DEF IsMappingList
        <5>2. list[Len(list)] \in Mapping
          BY <5>1
        <5> QED BY <4>1, <4>3, <5>2 DEF StackOnTop, End, Mapping
      <4> QED BY <4>2, <4>3
    <3>2. End(list) <= End(maps)
      BY <3>1
    <3>3. Reached(maps, list, i)
      BY <3>1, <3>2, AllReached, ListsAssumption
    <3> QED BY <1>1, <2>2, <3>3 DEF GetsCopy
  <2> QED BY <1>2, <2>1, <2>2
<1>4. WithCopy(list) = Covered(list)
  BY <1>3 DEF WithCopy, Covered
<1>5. ~Torn(list)
  BY <1>1 DEF Torn
<1> QED BY <1>4, <1>5

LEMMA AllCopiedNext ==
  ASSUME IInv, AllCopied, StackOnTop, [Next]_vars
  PROVE  AllCopied'
<1>1. CASE BeginSnapshot
  <2>1. PICK list \in Lists : maps' = list /\ copy' = UpdateLocalMaps(list)
    BY <1>1 DEF BeginSnapshot
  <2>2. DOMAIN copy' = Covered(maps')
    BY <2>1, AllGetCopies DEF UpdateLocalMaps
  <2>3. taken' = taken + 1 /\ taken \in Nat /\ phase' = "page"
    BY <1>1, WriteSetAssumption DEF BeginSnapshot, IInv, Typed, TypeOK
  <2> QED BY <2>1, <2>2, <2>3 DEF AllCopied
<1>2. ~UpdateCrash
  BY AllGetCopies DEF UpdateCrash
<1>3. ~CompareCrash
  <2>1. SUFFICES ASSUME phase = "line" PROVE Page \in DOMAIN copy
    BY DEF CompareCrash
  <2>2. Page \in Covered(maps)
    BY <2>1, PageCovered DEF IInv, Typed, TypeOK
  <2>3. taken > 0
    BY <2>1, WriteSetAssumption DEF AllCopied, IInv, Typed, TypeOK
  <2> QED BY <2>2, <2>3 DEF AllCopied
<1>4. CASE PageDone
  <2>1. DOMAIN copy' = DOMAIN copy /\ maps' = maps /\ taken' = taken /\ phase' = "page"
        /\ phase = "line"
    BY <1>4 DEF PageDone
  <2> QED BY <2>1 DEF AllCopied
<1>5. CASE Application \/ Kill \/ Stopped \/ UNCHANGED vars
  BY <1>5 DEF Application, Kill, Stopped, vars, AllCopied
<1>6. CASE ReadPage \/ ReadError \/ DiffLine \/ MappingDone \/ EndSnapshot
  BY <1>6 DEF ReadPage, ReadError, DiffLine, MappingDone, EndSnapshot, AllCopied
<1> QED BY <1>1, <1>2, <1>3, <1>4, <1>5, <1>6 DEF Next, FindDirtyData

(* As long as the stack is the highest mapping and stays where it is, the  *)
(* tracker never uses a local copy that it has not made.                   *)
THEOREM NeverCrashesHolds ==
  ASSUME StackOnTop
  PROVE  Spec => []NeverCrashes
<1>1. Init => IInv /\ AllCopied
  <2>1. Init => AllCopied
    BY DEF Init, AllCopied
  <2> QED BY <2>1, InitKeeps
<1>2. IInv /\ AllCopied /\ [Next]_vars => (IInv /\ AllCopied)'
  BY NextKeeps, AllCopiedNext
<1>3. IInv /\ AllCopied => NeverCrashes
  BY DEF AllCopied, NeverCrashes
<1> QED BY <1>1, <1>2, <1>3, PTL DEF Spec
=============================================================================

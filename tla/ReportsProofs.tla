---------------------------- MODULE ReportsProofs ----------------------------
(***************************************************************************)
(* WriteSet implements WriteSets: the blocks of the dcl file are the write *)
(* sets of the windows, for any pages, mapping lists, values and           *)
(* application, as long as the application changes no protection and no    *)
(* dirty line meets a full table.  Where a mapping has no local copy the   *)
(* tracker is killed; that ends the reports and falsifies none.            *)
(***************************************************************************)
EXTENDS WriteSetProofs, FiniteSetTheorems

InSnapshot == phase \in {"page", "line"}

(* The tables are numbered as the snapshots, and the blocks of the file    *)
(* belong to finished ones.                                                *)
Numbered ==
  /\ InSnapshot => taken > 0 /\ htable.iter = taken - 1
  /\ \A d \in DOMAIN file :
       /\ file[d].iter < taken
       /\ InSnapshot => file[d].iter < taken - 1

(* The mappings are those of the stopped application.                      *)
AsListed == InSnapshot => Covered(maps) = Writable

(* A page that is compared could be read.                                  *)
AtPage == phase = "line" => Page \notin Unreadable

(* The count of dirty lines does not miss one.                             *)
NoneFound ==
  phase = "line" /\ diff_cl = 0 =>
    \A l \in Lines : l < at.line => ~Differs(Page, l)

(* The pages behind the loops have copies, which are the memory.           *)
CaughtUp ==
  InSnapshot /\ alive =>
    \A p \in Covered(maps) \ Unreadable :
      (InMappings => p < Page) => p \in DOMAIN copy /\ copy[p] = memory[p]

(* No protection is changed, and what is not mapped is zeros.              *)
Unprotected == prot \in [Pages -> {"none", "rw"}]

UnmappedClean == \A p \in Readable : prot[p] = "none" => memory[p] = CleanPage

ReportInv ==
  /\ Numbered /\ AsListed /\ AtPage /\ NoneFound /\ CaughtUp
  /\ Unprotected /\ UnmappedClean

(* No dirty line meets a full table, where htable_add would drop it.       *)
Room ==
  /\ phase = "line" /\ at.line < LinesPerPage /\ Page \in DOMAIN copy
  /\ Differs(Page, at.line)
  => IsLastRow(htable.rows, Page) \/ Len(htable.rows) < TableSize

(* The rows are of pages that could be read.                               *)
RowsReadable == \A a \in DOMAIN htable.rows : htable.rows[a].page \in Readable

----------------------------------------------------------------------------
(* Where the pages of the mappings lie.                                    *)

LEMMA CoveredPage ==
  ASSUME Typed, NEW p \in Covered(maps)
  PROVE  /\ p \in Nat /\ p \in Pages
         /\ \E j \in DOMAIN maps : maps[j].lo <= p /\ p < maps[j].hi
<1>1. PICK j \in DOMAIN maps : p \in PagesOf(maps[j])
  BY DEF Covered
<1>2. p \in Nat /\ maps[j].lo <= p /\ p < maps[j].hi
  BY <1>1, MapsInOrder DEF PagesOf
<1> QED BY <1>2 DEF Typed, InLoops

(* The number of the page at which the loops are.                          *)
LEMMA PageIsNat ==
  ASSUME Typed, InMappings
  PROVE  Page \in Nat /\ at.i \in Nat /\ at.size \in Nat
BY MapsInOrder DEF Typed, TypeOK, InMappings, Page

(* The loops begin at the lowest page of the mappings.                     *)
LEMMA FirstPage ==
  ASSUME NEW list, IsMappingList(list), NEW p \in Covered(list)
  PROVE  1 \in DOMAIN list /\ list[1].lo \in Nat /\ p \in Nat /\ list[1].lo <= p
<1>1. PICK j \in DOMAIN list : p \in PagesOf(list[j])
  BY DEF Covered
<1>2. list \in Seq(Mapping)
  BY DEF IsMappingList
<1>3. \A i \in DOMAIN list : list[i] \in Mapping
  BY <1>2
<1>4. \A i \in DOMAIN list : list[i].lo \in Nat /\ list[i].hi \in Nat
  BY <1>3 DEF Mapping
<1>5. 1 \in DOMAIN list /\ j \in Nat /\ (j = 1 \/ 1 < j)
  BY <1>2
<1>6. p \in Nat /\ list[j].lo <= p
  BY <1>1, <1>4 DEF PagesOf
<1>7. list[1].lo < list[1].hi /\ (j = 1 \/ list[1].hi <= list[j].lo)
  BY <1>5 DEF IsMappingList
<1> QED BY <1>4, <1>5, <1>6, <1>7

LEMMA AfterPage ==
  ASSUME Typed, InMapping, at' = NextPage, UNCHANGED maps
  PROVE  InMappings' /\ Page \in Nat /\ Page' = Page + 1 /\ at'.line = 0
<1>1. at'.i = at.i /\ at'.size = at.size + 1 /\ at'.line = 0
  BY DEF NextPage
<1>2. Page \in Nat /\ at.size \in Nat /\ maps[at.i].lo \in Nat /\ InMappings
  BY PageIsNat, MapsInOrder DEF InMapping, InMappings
<1> QED BY <1>1, <1>2 DEF InMappings, Page

(* The mapping is done: no page lies between its end and the next mapping. *)
LEMMA AfterMapping ==
  ASSUME Typed, InMappings, ~InMapping, at' = NextMapping, UNCHANGED maps,
         NEW p \in Covered(maps)
  PROVE  /\ Page \in Nat /\ p \in Nat /\ at'.line = 0
         /\ InMappings' => Page' \in Nat
         /\ Page <= p <=> InMappings' /\ Page' <= p
<1>1. at'.i = at.i + 1 /\ at'.size = 0 /\ at'.line = 0
  BY DEF NextMapping
<1>2. at.i \in DOMAIN maps /\ at.i \in Nat /\ at.size \in Nat /\ Page \in Nat
  BY PageIsNat DEF InMappings
<1>3. maps[at.i].lo \in Nat /\ maps[at.i].hi \in Nat /\ maps[at.i].lo < maps[at.i].hi
  BY <1>2, MapsInOrder
<1>4. at.size = Size(maps[at.i])
  BY <1>2, <1>3 DEF InMapping, Typed, InLoops, Size
<1>5. Page = maps[at.i].hi
  BY <1>2, <1>3, <1>4 DEF Page, Size
<1>6. ASSUME InMappings'
      PROVE  /\ Page' = maps[at.i + 1].lo /\ Page' \in Nat
             /\ at.i + 1 \in DOMAIN maps /\ Page <= Page'
  <2>1. at.i + 1 \in DOMAIN maps
    BY <1>1, <1>6 DEF InMappings
  <2>2. maps[at.i + 1].lo \in Nat /\ maps[at.i].hi <= maps[at.i + 1].lo
    BY <1>2, <2>1, MapsInOrder
  <2> QED BY <1>1, <1>5, <2>1, <2>2 DEF Page
<1>7. PICK j \in DOMAIN maps : p \in Nat /\ maps[j].lo <= p /\ p < maps[j].hi
  BY CoveredPage
<1>8. maps \in Seq(Mapping) /\ j \in Nat /\ Len(maps) \in Nat /\ DOMAIN maps = 1 .. Len(maps)
  BY MapsInOrder
<1>9. maps[j].lo \in Nat /\ maps[j].hi \in Nat
  BY MapsInOrder
<1>10. ASSUME Page <= p PROVE InMappings' /\ Page' <= p
  <2>1. ~(j < at.i)
    <3> SUFFICES ASSUME j < at.i PROVE FALSE
      OBVIOUS
    <3>1. maps[j].hi <= maps[at.i].lo
      BY <1>2, MapsInOrder
    <3> QED BY <3>1, <1>3, <1>5, <1>7, <1>9, <1>10
  <2>2. j # at.i
    BY <1>3, <1>5, <1>7, <1>10
  <2>3. at.i + 1 \in DOMAIN maps /\ (j = at.i + 1 \/ at.i + 1 < j)
    BY <1>2, <1>8, <2>1, <2>2
  <2>4. InMappings'
    BY <1>1, <2>3 DEF InMappings
  <2>5. j = at.i + 1 \/ maps[at.i + 1].hi <= maps[j].lo
    BY <2>3, MapsInOrder
  <2>6. /\ maps[at.i + 1].lo \in Nat /\ maps[at.i + 1].hi \in Nat
        /\ maps[at.i + 1].lo < maps[at.i + 1].hi
    BY <2>3, MapsInOrder
  <2> QED BY <1>6, <1>7, <1>9, <2>4, <2>5, <2>6
<1>11. ASSUME InMappings', Page' <= p PROVE Page <= p
  BY <1>2, <1>6, <1>7, <1>11
<1> QED BY <1>1, <1>2, <1>6, <1>7, <1>10, <1>11

----------------------------------------------------------------------------
(* Each action keeps ReportInv.                                            *)

LEMMA InitReports == Init => ReportInv
<1> SUFFICES ASSUME Init PROVE ReportInv
  OBVIOUS
<1>1. phase = "window" /\ file = << >> /\ ~InSnapshot
  BY DEF Init, InSnapshot
<1>2. Numbered /\ AsListed /\ AtPage /\ NoneFound /\ CaughtUp
  BY <1>1 DEF Numbered, AsListed, AtPage, NoneFound, CaughtUp
<1>3. Unprotected /\ UnmappedClean
  BY DEF Init, Unprotected, UnmappedClean, Readable
<1> QED BY <1>2, <1>3 DEF ReportInv

(* The application changes nothing of the loops in its window, and being   *)
(* killed only relieves the tracker.                                       *)
LEMMA StandReports ==
  ASSUME ReportInv, UNCHANGED <<maps, copy, at, diff_cl, taken, file, htable>>,
         \/ phase' \in {"window", "crashed"}
         \/ UNCHANGED <<memory, prot, phase>>,
         alive' => alive
  PROVE  Numbered' /\ AsListed' /\ AtPage' /\ NoneFound' /\ CaughtUp'
<1>1. InSnapshot' => InSnapshot /\ UNCHANGED <<memory, prot, phase>>
  BY DEF InSnapshot
<1>2. Numbered'
  BY <1>1 DEF ReportInv, Numbered
<1>3. AtPage'
  BY <1>1 DEF ReportInv, AtPage, Page, InSnapshot
<1>4. AsListed'
  BY <1>1 DEF ReportInv, AsListed, Writable
<1>5. NoneFound'
  BY <1>1 DEF ReportInv, NoneFound, Differs, Held, Page, InSnapshot
<1>6. CaughtUp'
  BY <1>1 DEF ReportInv, CaughtUp, InMappings, Page
<1> QED BY <1>2, <1>3, <1>4, <1>5, <1>6

LEMMA ApplicationReports ==
  ASSUME ~Protects, IInv, ReportInv, Application
  PROVE  ReportInv'
<1>1. /\ phase' = "window"
      /\ UNCHANGED <<alive, maps, copy, at, diff_cl, taken, file, htable>>
  BY DEF Application, Write, Mmap, Munmap, Mprotect, Runs
<1>2. Unprotected'
  BY DEF Application, Write, Mmap, Munmap, Mprotect, ReportInv, Unprotected
<1>3. UnmappedClean'
  <2>1. /\ prot \in [Pages -> {"none", "rw"}]
        /\ memory \in [Pages -> [Lines -> Values]]
    BY DEF ReportInv, Unprotected, IInv, Typed, TypeOK
  <2> SUFFICES ASSUME NEW p \in Readable, prot'[p] = "none"
               PROVE  memory'[p] = CleanPage
    BY DEF UnmappedClean
  <2>2. p \in Pages
    BY DEF Readable
  <2>3. PICK q \in Pages : \/ \E l \in Lines, v \in Values : Write(q, l, v)
                           \/ Mmap(q) \/ Munmap(q)
    BY DEF Application, Mprotect
  <2>4. CASE p = q
    <3>1. Munmap(q)
      BY <2>1, <2>2, <2>3, <2>4 DEF Write, Mmap
    <3> QED BY <2>1, <2>4, <3>1 DEF Munmap
  <2>5. CASE p # q
    <3>1. prot'[p] = prot[p] /\ memory'[p] = memory[p]
      BY <2>1, <2>2, <2>3, <2>5 DEF Write, Mmap, Munmap
    <3> QED BY <3>1 DEF ReportInv, UnmappedClean
  <2> QED BY <2>4, <2>5
<1>4. Numbered' /\ AsListed' /\ AtPage' /\ NoneFound' /\ CaughtUp'
  BY <1>1, StandReports
<1> QED BY <1>2, <1>3, <1>4 DEF ReportInv

(* What only the application changes.                                      *)
LEMMA StandMemory ==
  ASSUME ReportInv, UNCHANGED <<memory, prot>>
  PROVE  Unprotected' /\ UnmappedClean'
BY DEF ReportInv, Unprotected, UnmappedClean

LEMMA BeginReports ==
  ASSUME IInv, IInv', ReportInv, BeginSnapshot
  PROVE  ReportInv'
<1>1. /\ phase = "window" /\ phase' = "page"
      /\ taken \in Nat /\ taken' = taken + 1
      /\ htable'.iter = taken
      /\ at'.i = 1 /\ at'.size = 0 /\ at'.line = 0
      /\ file' = file /\ prot' = prot /\ memory' = memory
      /\ InSnapshot'
  BY WriteSetAssumption DEF BeginSnapshot, HtableAddIter, Start, InSnapshot, IInv, Typed, TypeOK
<1>2. Numbered'
  <2> SUFFICES ASSUME NEW d \in DOMAIN file
               PROVE  file[d].iter < taken + 1 /\ file[d].iter < taken
    BY <1>1 DEF Numbered
  <2>1. file[d].iter \in Nat
    <3>1. file \in Seq([iter : 0 .. MaxSnapshots - 1, rows : Seq(Row)])
      BY DEF IInv, Typed, TypeOK
    <3>2. ASSUME NEW S, file \in Seq(S) PROVE file[d] \in S
      BY <3>2
    <3>3. file[d] \in [iter : 0 .. MaxSnapshots - 1, rows : Seq(Row)]
      BY <3>1, <3>2
    <3> QED BY <3>3, WriteSetAssumption
  <2> QED BY <2>1, <1>1 DEF ReportInv, Numbered
<1>3. AsListed'
  BY <1>1 DEF BeginSnapshot, ParseMapsFile, AsListed, Writable
<1>4. AtPage' /\ NoneFound'
  BY <1>1 DEF AtPage, NoneFound
<1>5. CaughtUp'
  <2> SUFFICES ASSUME NEW p \in Covered(maps'), InMappings' => p < Page'
               PROVE  FALSE
    BY DEF CaughtUp
  <2>1. IsMappingList(maps')
    BY ListsAssumption DEF BeginSnapshot
  <2>2. 1 \in DOMAIN maps' /\ maps'[1].lo \in Nat /\ p \in Nat /\ maps'[1].lo <= p
    BY <2>1, FirstPage
  <2>3. InMappings' /\ Page' = maps'[1].lo
    BY <1>1, <2>2 DEF InMappings, Page
  <2> QED BY <2>2, <2>3
<1> QED BY <1>1, <1>2, <1>3, <1>4, <1>5, StandMemory DEF ReportInv

LEMMA ReadReports ==
  ASSUME IInv, ReportInv, ReadPage
  PROVE  ReportInv'
<1>1. /\ phase = "page" /\ phase' = "line" /\ InMapping
      /\ UNCHANGED <<memory, prot, alive, maps, copy, at, taken, file, htable>>
      /\ Page \notin Unreadable
      /\ InSnapshot /\ InSnapshot'
  BY DEF ReadPage, InSnapshot
<1>2. at.line = 0
  BY <1>1 DEF IInv, Typed, InLoops
<1>3. Numbered' /\ AsListed' /\ AtPage'
  BY <1>1 DEF ReportInv, Numbered, AsListed, AtPage, Writable, Page
<1>4. NoneFound'
  BY <1>1, <1>2, TableAssumption DEF NoneFound, Lines
<1>5. CaughtUp'
  BY <1>1 DEF ReportInv, CaughtUp, InMappings, Page
<1> QED BY <1>1, <1>3, <1>4, <1>5, StandMemory DEF ReportInv

(* The rest when the loops leave a page.                                   *)
LEMMA LeaveReports ==
  ASSUME ReportInv, InSnapshot, phase' = "page", UNCHANGED Rest
  PROVE  /\ Numbered' /\ AsListed' /\ AtPage' /\ NoneFound'
         /\ Unprotected' /\ UnmappedClean'
<1>1. InSnapshot' /\ UNCHANGED <<memory, prot, alive, maps, taken, file, htable>>
  BY DEF InSnapshot, Rest
<1>2. Numbered'
  BY <1>1 DEF ReportInv, Numbered
<1>3. AsListed' /\ AtPage' /\ NoneFound'
  BY <1>1 DEF ReportInv, AsListed, AtPage, NoneFound, Writable
<1> QED BY <1>1, <1>2, <1>3, StandMemory

(* The page that is left has been copied, or cannot be read.               *)
LEMMA NextPageReports ==
  ASSUME IInv, ReportInv, InSnapshot, phase' = "page", UNCHANGED Rest,
         InMapping, at' = NextPage, DOMAIN copy' = DOMAIN copy,
         alive /\ Page \notin Unreadable =>
           Page \in DOMAIN copy /\ copy'[Page] = memory[Page],
         \A p \in DOMAIN copy : p # Page => copy'[p] = copy[p]
  PROVE  ReportInv'
<1>1. InMappings' /\ Page \in Nat /\ Page' = Page + 1
  BY AfterPage DEF IInv, Rest
<1>2. CaughtUp'
  <2> SUFFICES ASSUME alive, NEW p \in Covered(maps) \ Unreadable, p < Page'
               PROVE  p \in DOMAIN copy /\ copy'[p] = memory[p]
    BY <1>1 DEF CaughtUp, Rest
  <2>1. p \in Nat
    BY CoveredPage DEF IInv
  <2>2. CASE p = Page
    BY <2>2
  <2>3. CASE p # Page
    <3>1. p < Page
      BY <2>1, <2>3, <1>1
    <3>2. p \in DOMAIN copy /\ copy[p] = memory[p]
      BY <3>1 DEF ReportInv, CaughtUp
    <3> QED BY <2>3, <3>2
  <2> QED BY <2>2, <2>3
<1> QED BY <1>2, LeaveReports DEF ReportInv

LEMMA ErrorReports ==
  ASSUME IInv, ReportInv, ReadError
  PROVE  ReportInv'
<1>1. /\ phase = "page" /\ phase' = "page" /\ UNCHANGED Rest /\ UNCHANGED copy
      /\ InMapping /\ InSnapshot
  BY DEF ReadError, Rest, InSnapshot
<1>2. CASE alive
  BY <1>1, <1>2, NextPageReports DEF ReadError
<1>3. CASE ~alive
  <2>1. CaughtUp'
    BY <1>1, <1>3 DEF CaughtUp, Rest
  <2> QED BY <1>1, <2>1, LeaveReports DEF ReportInv
<1> QED BY <1>2, <1>3

LEMMA MappingDoneReports ==
  ASSUME IInv, ReportInv, MappingDone
  PROVE  ReportInv'
<1>1. /\ phase = "page" /\ phase' = "page" /\ UNCHANGED Rest /\ UNCHANGED copy
      /\ InMappings /\ ~InMapping /\ at' = NextMapping /\ InSnapshot
  BY DEF MappingDone, Rest, InSnapshot
<1>2. CaughtUp'
  <2> SUFFICES ASSUME alive, NEW p \in Covered(maps) \ Unreadable, InMappings' => p < Page'
               PROVE  p \in DOMAIN copy /\ copy[p] = memory[p]
    BY <1>1 DEF CaughtUp, Rest
  <2>1. /\ Page \in Nat /\ p \in Nat
        /\ InMappings' => Page' \in Nat
        /\ Page <= p <=> InMappings' /\ Page' <= p
    BY <1>1, AfterMapping DEF IInv, Rest
  <2>2. p < Page
    BY <2>1
  <2> QED BY <1>1, <2>2 DEF ReportInv, CaughtUp
<1> QED BY <1>1, <1>2, LeaveReports DEF ReportInv

(* A page without a dirty line equals its copy.                            *)
LEMMA Clean0 ==
  ASSUME IInv, ReportInv, PageDone
  PROVE  /\ Page \in DOMAIN copy /\ DOMAIN copy' = DOMAIN copy
         /\ copy'[Page] = memory[Page]
         /\ \A p \in DOMAIN copy : p # Page => copy'[p] = copy[p]
<1>1. /\ phase = "line" /\ InMapping /\ at.line = LinesPerPage
  BY DEF PageDone, IInv, Typed, TypeOK
<1>2. Page \in DOMAIN copy /\ Page \in Pages
  BY <1>1, PageCovered, TableAssumption DEF IInv, Typed, InLoops
<1>3. /\ copy \in [DOMAIN copy -> [Lines -> Values]]
      /\ memory \in [Pages -> [Lines -> Values]]
  BY DEF IInv, Typed, TypeOK
<1>4. /\ DOMAIN copy' = DOMAIN copy
      /\ \A p \in DOMAIN copy : p # Page => copy'[p] = copy[p]
  BY DEF PageDone
<1>5. CASE diff_cl > 0
  BY <1>2, <1>3, <1>4, <1>5 DEF PageDone
<1>6. CASE ~(diff_cl > 0)
  <2>1. diff_cl = 0
    BY <1>6, TableAssumption DEF IInv, Typed, TypeOK
  <2>2. \A l \in Lines : l < at.line
    BY <1>1, TableAssumption DEF Lines
  <2>3. \A l \in Lines : memory[Page][l] = copy[Page][l]
    BY <1>1, <1>2, <2>1, <2>2 DEF ReportInv, NoneFound, Differs, Held
  <2>4. memory[Page] \in [Lines -> Values] /\ copy[Page] \in [Lines -> Values]
    BY <1>2, <1>3
  <2>5. memory[Page] = copy[Page]
    BY <2>3, <2>4
  <2> QED BY <1>2, <1>4, <1>6, <2>5 DEF PageDone
<1> QED BY <1>5, <1>6

LEMMA PageDoneReports ==
  ASSUME IInv, ReportInv, PageDone
  PROVE  ReportInv'
<1>1. /\ phase = "line" /\ phase' = "page" /\ UNCHANGED Rest
      /\ InMapping /\ at' = NextPage /\ InSnapshot
  BY DEF PageDone, Rest, InSnapshot, IInv, Typed, TypeOK
<1> QED BY <1>1, Clean0, NextPageReports

LEMMA DiffLineReports ==
  ASSUME IInv, IInv', ReportInv, DiffLine
  PROVE  ReportInv'
<1>1. /\ phase = "line" /\ phase' = "line" /\ InMapping
      /\ UNCHANGED <<memory, prot, alive, maps, copy, taken, file>>
      /\ at'.i = at.i /\ at'.size = at.size /\ at'.line = at.line + 1
      /\ InSnapshot /\ InSnapshot'
  BY DEF DiffLine, InSnapshot, IInv, Typed, TypeOK
<1>2. htable'.iter = htable.iter
  <2>1. HtableAdd(Page * LinesPerPage + at.line) => htable'.iter = htable.iter
    BY DEF HtableAdd, IInv, Typed, TypeOK, HtableOK
  <2> QED BY <2>1 DEF DiffLine
<1>3. Numbered' /\ AsListed' /\ AtPage'
  BY <1>1, <1>2 DEF ReportInv, Numbered, AsListed, AtPage, Writable, Page
<1>4. CaughtUp'
  BY <1>1 DEF ReportInv, CaughtUp, InMappings, Page
<1>5. NoneFound'
  <2> SUFFICES ASSUME diff_cl' = 0, NEW l \in Lines, l < at.line + 1
               PROVE  ~Differs(Page, l)
    BY <1>1, <1>2 DEF NoneFound, Differs, Held, Page
  <2>1. diff_cl \in Nat
    BY TableAssumption DEF IInv, Typed, TypeOK
  <2>2. ~Differs(Page, at.line) /\ diff_cl = 0
    BY <2>1 DEF DiffLine
  <2>3. l = at.line \/ l < at.line
    BY TableAssumption DEF IInv, Typed, TypeOK, Lines
  <2> QED BY <1>1, <2>2, <2>3 DEF ReportInv, NoneFound
<1> QED BY <1>1, <1>3, <1>4, <1>5, StandMemory DEF ReportInv

LEMMA EndReports ==
  ASSUME IInv, ReportInv, EndSnapshot
  PROVE  ReportInv'
<1>1. /\ phase = "page" /\ phase' = "window" /\ taken' = taken
      /\ taken > 0 /\ htable.iter = taken - 1
      /\ file' = file \/ file' = Append(file, htable)
      /\ UNCHANGED <<memory, prot>> /\ ~InSnapshot'
  BY DEF EndSnapshot, HtablePrint, ReportInv, Numbered, InSnapshot
<1>2. taken \in Nat /\ file \in Seq([iter : 0 .. MaxSnapshots - 1, rows : Seq(Row)])
  BY WriteSetAssumption DEF IInv, Typed, TypeOK
<1>3. Numbered'
  <2>1. \A d \in DOMAIN file : file[d].iter < taken
    BY DEF ReportInv, Numbered
  <2>2. CASE file' = file
    BY <1>1, <2>1, <2>2 DEF Numbered
  <2>3. CASE file' = Append(file, htable)
    <3>1. /\ Len(file) \in Nat /\ DOMAIN file = 1 .. Len(file)
          /\ DOMAIN file' = 1 .. Len(file) + 1
          /\ file'[Len(file) + 1] = htable
          /\ \A d \in 1 .. Len(file) : file'[d] = file[d]
      BY <1>2, <2>3
    <3>2. \A d \in DOMAIN file' : file'[d].iter < taken
      BY <1>1, <1>2, <2>1, <3>1
    <3> QED BY <1>1, <3>2 DEF Numbered
  <2> QED BY <1>1, <2>2, <2>3
<1>4. AsListed' /\ AtPage' /\ NoneFound' /\ CaughtUp'
  BY <1>1 DEF AsListed, AtPage, NoneFound, CaughtUp
<1> QED BY <1>1, <1>3, <1>4, StandMemory DEF ReportInv

LEMMA NextReports ==
  ASSUME ~Protects
  PROVE  IInv /\ ReportInv /\ [Next]_vars => ReportInv'
<1> SUFFICES ASSUME IInv, ReportInv, [Next]_vars PROVE ReportInv'
  OBVIOUS
<1>0. IInv'
  BY NextKeeps
<1>1. CASE Application
  BY <1>1, ApplicationReports
<1>2. CASE Kill \/ UpdateCrash \/ CompareCrash \/ UNCHANGED vars
  <2>1. /\ UNCHANGED <<memory, prot, maps, copy, at, diff_cl, taken, file, htable>>
        /\ phase' = "crashed" \/ UNCHANGED phase
        /\ alive' => alive
    BY <1>2 DEF Kill, UpdateCrash, CompareCrash, vars
  <2> QED BY <2>1, StandReports, StandMemory DEF ReportInv
<1>3. CASE BeginSnapshot
  BY <1>0, <1>3, BeginReports
<1>4. CASE FindDirtyData /\ ~CompareCrash
  BY <1>0, <1>4, ReadReports, ErrorReports, DiffLineReports, PageDoneReports,
     MappingDoneReports, EndReports DEF FindDirtyData
<1> QED BY <1>1, <1>2, <1>3, <1>4 DEF Next, Stopped

----------------------------------------------------------------------------
(* The rows and their cells.                                               *)

LEMMA InCells ==
  ASSUME NEW rows, NEW x
  PROVE  x \in Cells(rows) <=>
           \E r \in DOMAIN rows : \E b \in rows[r].bits : x = <<rows[r].page, b>>
<1>1. \A r \in DOMAIN rows :
        x \in {rows[r].page} \X rows[r].bits
          <=> \E b \in rows[r].bits : x = <<rows[r].page, b>>
  OBVIOUS
<1> QED BY <1>1 DEF Cells

(* The remainder by which htable_add finds the line of a cache line.       *)
LEMMA ModLine ==
  ASSUME NEW p \in Nat, NEW n \in Nat \ {0}, NEW l \in 0 .. n - 1
  PROVE  (p * n + l) % n = l
<1> DEFINE v == p * n + l
           r == v % n
<1>0. p * n \in Nat
  OBVIOUS
<1>1. v \in Nat
  BY <1>0
<1>2. v = n * (v \div n) + r /\ r \in 0 .. n - 1
  BY <1>1
<1>3. v \div n = p
  BY DivPage
<1>4. n * p = p * n /\ v = p * n + l
  OBVIOUS
<1> HIDE DEF v, r
<1>5. v = n * p + r
  BY <1>2, <1>3
<1> QED BY <1>0, <1>2, <1>4, <1>5 DEF r, v

(* htable_add, where there is room: the line, and nothing else, is new.    *)
LEMMA CellsAdded ==
  ASSUME HtableOK, NEW p \in Nat, NEW l \in Lines,
         IsLastRow(htable.rows, p) \/ Len(htable.rows) < TableSize,
         HtableAdd(p * LinesPerPage + l)
  PROVE  Cells(htable'.rows) = Cells(htable.rows) \cup {<<p, l>>}
<1> DEFINE v    == p * LinesPerPage + l
           rows == htable.rows
           n    == Len(rows)
           row  == [page |-> p, bits |-> {l}]
<1>1. LinesPerPage \in Nat \ {0} /\ l \in 0 .. LinesPerPage - 1
  BY TableAssumption DEF Lines
<1>2. PageOf(v) = p /\ LineOf(v) = l
  BY <1>1, DivPage, ModLine DEF PageOf, LineOf
<1>3. rows \in Seq(Row) /\ n \in Nat /\ TableSize \in Nat /\ DOMAIN rows = 1 .. n
  BY TableAssumption DEF HtableOK
<1>4. htable \in [iter : Nat, rows : Seq(Row)]
  BY DEF HtableOK
<1>5. CASE IsLastRow(rows, p)
  <2> DEFINE wider == [rows[n] EXCEPT !.bits = rows[n].bits \cup {l}]
             new   == [rows EXCEPT ![n] = wider]
  <2>1. n \in DOMAIN rows /\ rows[n].page = p /\ rows[n] \in Row
    BY <1>3, <1>5 DEF IsLastRow
  <2>2. htable' = [htable EXCEPT !.rows = new]
    <3>1. htable' = [htable EXCEPT !.rows = [rows EXCEPT ![n].bits = @ \cup {l}]]
      BY <1>2, <1>5 DEF HtableAdd
    <3> QED BY <2>1, <3>1
  <2>3. htable'.rows = new
    BY <1>4, <2>2
  <2>4. wider.page = p /\ wider.bits = rows[n].bits \cup {l}
    BY <2>1 DEF Row
  <2>5. /\ DOMAIN new = DOMAIN rows /\ new[n] = wider
        /\ \A a \in DOMAIN rows : a # n => new[a] = rows[a]
    BY <2>1
  <2> HIDE DEF new
  <2>6. ASSUME NEW x
        PROVE  x \in Cells(new) <=> x \in Cells(rows) \/ x = <<p, l>>
    <3>1. x \in Cells(new) <=>
            \E a \in DOMAIN rows : \E b \in new[a].bits : x = <<new[a].page, b>>
      BY <2>5, InCells
    <3>2. x \in Cells(rows) <=>
            \E a \in DOMAIN rows : \E b \in rows[a].bits : x = <<rows[a].page, b>>
      BY InCells
    <3>3. (\E b \in wider.bits : x = <<p, b>>)
            <=> x = <<p, l>> \/ \E b \in rows[n].bits : x = <<rows[n].page, b>>
      BY <2>1, <2>4
    <3> QED BY <2>1, <2>4, <2>5, <3>1, <3>2, <3>3
  <2> QED BY <2>3, <2>6
<1>6. CASE ~IsLastRow(rows, p)
  <2> DEFINE new == Append(rows, row)
  <2>1. ~(n + 1 >= TableSize + 1)
    BY <1>3, <1>6
  <2>2. htable' = [htable EXCEPT !.rows = new]
    BY <1>2, <1>6, <2>1 DEF HtableAdd
  <2>3. htable'.rows = new
    BY <1>4, <2>2
  <2>4. /\ DOMAIN new = 1 .. n + 1 /\ new[n + 1] = row
        /\ \A a \in 1 .. n : new[a] = rows[a]
    BY <1>3
  <2>5. \A a \in 1 .. n + 1 : a = n + 1 \/ a \in 1 .. n
    BY <1>3
  <2> HIDE DEF new
  <2>6. ASSUME NEW x
        PROVE  x \in Cells(new) <=> x \in Cells(rows) \/ x = <<p, l>>
    <3>1. x \in Cells(new) <=>
            \E a \in 1 .. n + 1 : \E b \in new[a].bits : x = <<new[a].page, b>>
      BY <2>4, InCells
    <3>2. x \in Cells(rows) <=>
            \E a \in 1 .. n : \E b \in rows[a].bits : x = <<rows[a].page, b>>
      BY <1>3, InCells
    <3>3. (\E b \in row.bits : x = <<row.page, b>>) <=> x = <<p, l>>
      OBVIOUS
    <3>4. n + 1 \in 1 .. n + 1 /\ \A a \in 1 .. n : a \in 1 .. n + 1
      BY <1>3
    <3> HIDE DEF row
    <3>5. x \in Cells(new) <=>
            \/ \E b \in row.bits : x = <<row.page, b>>
            \/ \E a \in 1 .. n : \E b \in rows[a].bits : x = <<rows[a].page, b>>
      BY <2>4, <2>5, <3>1, <3>4
    <3> QED BY <3>2, <3>3, <3>5
  <2> QED BY <2>3, <2>6
<1> QED BY <1>5, <1>6

----------------------------------------------------------------------------
(* The state of WriteSets, as the refinement maps it.                      *)

Cell       == Readable \X Lines
MemoryNow  == [c \in Cell |-> memory[c[1]][c[2]]]
MappedNow  == {p \in Readable : prot[p] # "none"}
SnapshotNow == [c \in Cell |-> Copied(c[1], c[2])]
Living     == alive /\ ~Lost
Current    == Cells(htable.rows) \cup Pending

Same == UNCHANGED <<MemoryNow, MappedNow, SnapshotNow, Reports, Living>>

(* The step of WriteSets, in these names.                                  *)
LEMMA PromiseStep ==
  ASSUME \/ Promise!Next
         \/ Same
  PROVE  [Promise!Next]_<<MemoryNow, MappedNow, SnapshotNow, Reports, Living>>
BY DEF Same

(* A sequence that is another one with one more element.                   *)
LEMMA OneMore ==
  ASSUME NEW n \in Nat, NEW f, NEW g,
         f = [i \in 1 .. n |-> f[i]], g = [i \in 1 .. n + 1 |-> g[i]],
         \A i \in 1 .. n : g[i] = f[i]
  PROVE  g = Append(f, g[n + 1]) /\ (f = << >> <=> n = 0)
<1> DEFINE S == {f[i] : i \in 1 .. n} \cup {g[n + 1]}
<1>1. f \in [1 .. n -> S]
  OBVIOUS
<1>2. f \in Seq(S)
  BY <1>1, SeqDef
<1>3. Len(f) = n /\ DOMAIN f = 1 .. n
  BY <1>1, <1>2
<1> HIDE DEF S
<1>4. /\ DOMAIN Append(f, g[n + 1]) = 1 .. n + 1
      /\ \A i \in 1 .. n : Append(f, g[n + 1])[i] = f[i]
      /\ Append(f, g[n + 1])[n + 1] = g[n + 1]
      /\ Append(f, g[n + 1]) = [i \in 1 .. n + 1 |-> Append(f, g[n + 1])[i]]
  BY <1>2, <1>3
<1>5. \A i \in 1 .. n + 1 : i = n + 1 \/ i \in 1 .. n
  OBVIOUS
<1>6. \A i \in 1 .. n + 1 : Append(f, g[n + 1])[i] = g[i]
  BY <1>4, <1>5
<1>7. g = Append(f, g[n + 1])
  BY <1>4, <1>6
<1>8. f = << >> <=> n = 0
  BY <1>2, <1>3, EmptySeq
<1> QED BY <1>7, <1>8

LEMMA SameMemory ==
  ASSUME UNCHANGED <<memory, prot>>
  PROVE  UNCHANGED <<MemoryNow, MappedNow>>
BY DEF MemoryNow, MappedNow

(* In the window the reports are the blocks of the file; during a snapshot *)
(* the last one is what has been found and what is ahead.                  *)
LEMMA SameReports ==
  ASSUME UNCHANGED <<taken, file>>,
         Collecting' <=> Collecting,
         Collecting => Current' = Current
  PROVE  Reports' = Reports
BY DEF Reports, Block, Current

LEMMA SameSnapshot ==
  ASSUME \A p \in Readable, l \in Lines : Copied(p, l)' = Copied(p, l)
  PROVE  SnapshotNow' = SnapshotNow
<1>1. \A c \in Cell : c[1] \in Readable /\ c[2] \in Lines
  BY DEF Cell
<1>2. \A c \in Cell : Copied(c[1], c[2])' = Copied(c[1], c[2])
  BY <1>1
<1> QED BY <1>2 DEF SnapshotNow

(* A step inside find_dirty_data is a stutter of WriteSets, if it moves no *)
(* cell into or out of the report.                                         *)
LEMMA Quiet ==
  ASSUME Collecting, Collecting',
         UNCHANGED <<memory, prot, alive, taken, file>>,
         Current' = Current,
         \A p \in Readable, l \in Lines : Copied(p, l)' = Copied(p, l)
  PROVE  Same
<1>1. UNCHANGED Living
  BY DEF Living, Collecting
<1> QED BY <1>1, SameMemory, SameReports, SameSnapshot DEF Same

(* Between the pages nothing is compared.                                  *)
LEMMA AtPages ==
  phase = "page" => Collecting /\ \A p \in Readable : ~InHand(p)
BY DEF Collecting, Lost, InHand

(* So it is when the next state is between the pages.                      *)
LEMMA AtNextPages ==
  phase' = "page" => Collecting' /\ \A p \in Readable : ~InHand(p)'
BY DEF Collecting, Lost, InHand

----------------------------------------------------------------------------
(* Each action is a step of WriteSets or a stutter.                        *)

MemoryIsOne == Promise!IsMemory(MemoryNow, MappedNow)

LEMMA MemoryTyped == IInv /\ ReportInv => MemoryIsOne
<1> SUFFICES ASSUME IInv, ReportInv PROVE MemoryIsOne
  OBVIOUS
<1>1. \A c \in Cell : /\ c[1] \in Readable /\ c[1] \in Pages /\ c[2] \in Lines
                      /\ memory[c[1]][c[2]] \in Values
  <2> SUFFICES ASSUME NEW c \in Cell
               PROVE  /\ c[1] \in Readable /\ c[1] \in Pages /\ c[2] \in Lines
                      /\ memory[c[1]][c[2]] \in Values
    OBVIOUS
  <2>1. c[1] \in Readable /\ c[1] \in Pages /\ c[2] \in Lines
    BY DEF Cell, Readable
  <2>2. memory[c[1]] \in [Lines -> Values]
    BY <2>1 DEF IInv, Typed, TypeOK
  <2> QED BY <2>1, <2>2
<1>2. MemoryNow \in [Cell -> Values]
  BY <1>1 DEF MemoryNow
<1>3. \A c \in Cell : c[1] \notin MappedNow => MemoryNow[c] = Clean
  BY <1>1 DEF MemoryNow, MappedNow, ReportInv, UnmappedClean, CleanPage
<1> QED BY <1>2, <1>3 DEF MemoryIsOne, Cell, Promise!IsMemory, Promise!Memories, Promise!Cell

LEMMA MemoryStaysTyped == IInv' /\ ReportInv' => MemoryIsOne'
BY MemoryTyped, PTL

LEMMA InitRefines == Init => Promise!Init
<1> SUFFICES ASSUME Init PROVE Promise!Init
  OBVIOUS
<1>1. MemoryIsOne
  BY InitKeeps, InitReports, MemoryTyped
<1>2. /\ copy = << >> /\ taken = 0
      /\ ~Collecting /\ Living = TRUE
  BY DEF Init, Collecting, Living, Lost
<1>3. SnapshotNow = [c \in Cell |-> Clean]
  BY <1>2 DEF SnapshotNow, Copied, Held, CleanPage, Cell
<1>4. Reports = << >>
  <2>1. Reports = [n \in 1 .. 0 |-> Block(n - 1)]
    BY <1>2 DEF Reports
  <2> QED BY <2>1
<1>5. MappedNow \subseteq Readable
  BY DEF MappedNow
<1> QED BY <1>1, <1>2, <1>3, <1>4, <1>5
        DEF MemoryIsOne, MemoryNow, MappedNow, SnapshotNow, Living, Cell, Promise!Init,
            Promise!Cell

(* Writes, mmap, munmap and mprotect change the memory only.               *)
LEMMA ApplicationRefines ==
  ASSUME ~Protects, IInv, ReportInv, Application
  PROVE  Promise!Next
<1>1. /\ phase = "window" /\ alive = TRUE
      /\ UNCHANGED <<alive, phase, maps, copy, at, diff_cl, taken, file, htable>>
  BY DEF Application, Write, Mmap, Munmap, Mprotect, Runs, IInv, Typed, TypeOK
<1>2. MemoryIsOne'
  BY ApplicationKeeps, ApplicationReports, MemoryStaysTyped
<1>3. ~Collecting /\ ~Collecting' /\ Living /\ Living'
  BY <1>1 DEF Collecting, Living, Lost
<1>4. SnapshotNow' = SnapshotNow
  <2>1. \A p \in Readable, l \in Lines : Copied(p, l)' = Copied(p, l)
    BY <1>1, <1>3 DEF Copied, Held
  <2> QED BY <2>1, SameSnapshot
<1>5. Reports' = Reports
  BY <1>1, <1>3, SameReports
<1>6. MappedNow' \subseteq Readable
  BY DEF MappedNow
<1>7. Living' = Living
  BY <1>3 DEF Living
<1> QED BY <1>2, <1>3, <1>4, <1>5, <1>6, <1>7
        DEF MemoryIsOne, MemoryNow, MappedNow, SnapshotNow, Living, Cell, Promise!Next,
            Promise!Change

(* What is lost with the application or the tracker is part of the last    *)
(* report.                                                                 *)
LEMMA DieRefines ==
  ASSUME taken \in Nat, taken > 0, UNCHANGED <<memory, prot, taken, file>>,
         Living, ~Living', NEW left, left \subseteq Current,
         Reports = [n \in 1 .. taken |-> IF n = taken THEN Current ELSE Block(n - 1)],
         Reports' = [n \in 1 .. taken |-> IF n = taken THEN left ELSE Block(n - 1)]
  PROVE  Promise!Next
<1> DEFINE lost == Current \ left
<1>1. /\ Reports # << >> /\ Len(Reports) = taken
      /\ Reports[taken] = Current
      /\ Reports' = [Reports EXCEPT ![taken] = @ \ lost]
  <2> DEFINE S == {Reports[n] : n \in 1 .. taken}
  <2>1. Reports \in [1 .. taken -> S]
    OBVIOUS
  <2> HIDE DEF S
  <2>2. Reports \in Seq(S)
    BY <2>1, SeqDef
  <2>3. DOMAIN Reports = 1 .. taken /\ taken \in 1 .. taken
    BY <2>1
  <2>4. Len(Reports) = taken
    BY <2>2, <2>3
  <2>5. Current \ lost = left
    OBVIOUS
  <2>6. Reports[taken] = Current
    BY <2>3
  <2> HIDE DEF lost
  <2>7. Reports' = [Reports EXCEPT ![taken] = @ \ lost]
    BY <2>3, <2>5
  <2>8. Reports # << >>
    BY <2>4
  <2> QED BY <2>4, <2>6, <2>7, <2>8
<1>2. UNCHANGED <<MemoryNow, MappedNow>>
  BY SameMemory
<1>3. lost \in SUBSET Reports[Len(Reports)]
  BY <1>1
<1> HIDE DEF lost
<1>4. Living = TRUE /\ Living' = FALSE
  BY DEF Living
<1> QED BY <1>1, <1>2, <1>3, <1>4
        DEF MemoryNow, MappedNow, Living, Cell, Promise!Next, Promise!Die

(* With the application goes what was ahead of the loops; when the tracker *)
(* is about to be killed itself, nothing happens to the reports any more.  *)
LEMMA KillRefines ==
  ASSUME IInv, ReportInv, Kill
  PROVE  Promise!Next \/ Same
<1>1. /\ phase \in {"page", "line"} /\ alive /\ ~alive' /\ phase' = phase
      /\ UNCHANGED <<memory, prot, maps, copy, at, diff_cl, taken, file, htable>>
  BY DEF Kill, IInv, Typed, TypeOK
<1>2. taken \in Nat /\ taken > 0
  BY <1>1, WriteSetAssumption DEF IInv, Typed, TypeOK, ReportInv, Numbered, InSnapshot
<1>3. (Lost' <=> Lost) /\ (Collecting' <=> Collecting)
  BY <1>1 DEF Lost, Collecting, Page
<1>4. CASE Lost
  <2>1. ~Collecting /\ ~Collecting' /\ ~Living /\ ~Living'
    BY <1>3, <1>4 DEF Collecting, Living
  <2>2. \A p \in Readable, l \in Lines : Copied(p, l)' = Copied(p, l)
    BY <1>1, <2>1 DEF Copied, Held
  <2>3. Living' = Living
    BY <2>1 DEF Living
  <2> QED BY <1>1, <2>1, <2>2, <2>3, SameMemory, SameReports, SameSnapshot DEF Same
<1>5. CASE ~Lost
  <2>1. Collecting /\ Collecting' /\ Living /\ ~Living'
    BY <1>1, <1>3, <1>5 DEF Collecting, Living
  <2>2. Current' \subseteq Current
    <3>1. Pending' \subseteq Pending
      BY <1>1 DEF Pending, Ahead, InHand, Differs, Held, InMappings, Page
    <3> QED BY <1>1, <3>1 DEF Current
  <2>3. /\ Reports = [n \in 1 .. taken |-> IF n = taken THEN Current ELSE Block(n - 1)]
        /\ Reports' = [n \in 1 .. taken |-> IF n = taken THEN Current' ELSE Block(n - 1)]
    BY <1>1, <2>1 DEF Reports, Current, Block
  <2> QED BY <1>1, <1>2, <2>1, <2>2, <2>3, DieRefines
<1> QED BY <1>4, <1>5

(* The merge copies from NULL, with no snapshot begun: no report is lost.  *)
LEMMA UpdateCrashRefines ==
  ASSUME IInv, UpdateCrash
  PROVE  Promise!Next
<1>1. /\ phase = "window" /\ phase' = "crashed" /\ alive
      /\ UNCHANGED <<memory, prot, alive, maps, copy, at, diff_cl, taken, file, htable>>
  BY DEF UpdateCrash
<1>2. ~Collecting /\ ~Collecting' /\ Living /\ ~Living'
  BY <1>1 DEF Collecting, Living, Lost
<1>3. Reports' = Reports
  BY <1>1, <1>2, SameReports
<1>4. UNCHANGED <<MemoryNow, MappedNow>>
  BY <1>1, SameMemory
<1>5. Living = TRUE /\ Living' = FALSE
  BY <1>2 DEF Living
<1> QED BY <1>3, <1>4, <1>5
        DEF MemoryNow, MappedNow, Living, Cell, Promise!Next, Promise!Die

(* The crash at a page without copy was promised when the page was read.   *)
LEMMA CompareCrashRefines ==
  ASSUME CompareCrash
  PROVE  Same
<1>1. /\ phase = "line" /\ phase' = "crashed" /\ Page \notin DOMAIN copy
      /\ UNCHANGED <<memory, prot, alive, maps, copy, at, diff_cl, taken, file, htable>>
  BY DEF CompareCrash
<1>2. ~Collecting /\ ~Collecting' /\ ~Living /\ ~Living'
  BY <1>1 DEF Collecting, Living, Lost
<1>3. \A p \in Readable, l \in Lines : Copied(p, l)' = Copied(p, l)
  BY <1>1, <1>2 DEF Copied, Held
<1>4. Living' = Living
  BY <1>2 DEF Living
<1> QED BY <1>1, <1>2, <1>3, <1>4, SameMemory, SameReports, SameSnapshot DEF Same

(* A page that has a copy keeps it as long as it stays in the mappings: it *)
(* lies below the end of the old list, where the merge comes to all.       *)
LEMMA HeldStays ==
  ASSUME IInv, NEW list \in Lists, copy' = UpdateLocalMaps(list), NEW p \in Covered(list)
  PROVE  Held(p)' = Held(p)
<1>1. \A q \in DOMAIN copy' : copy'[q] = IF q \in DOMAIN copy THEN copy[q] ELSE CleanPage
  BY DEF UpdateLocalMaps
<1>2. DOMAIN copy' = WithCopy(list)
  BY DEF UpdateLocalMaps
<1>3. CASE p \notin DOMAIN copy
  BY <1>1, <1>3 DEF Held, CleanPage
<1>4. CASE p \in DOMAIN copy
  <2>1. PICK i \in DOMAIN list : p \in PagesOf(list[i])
    BY DEF Covered
  <2>2. \A j \in DOMAIN maps : maps[j] = list[i] => HasCopy(j)
    BY <1>4, <2>1 DEF HasCopy
  <2>3. /\ IsMappingList(list)
        /\ \A k \in DOMAIN list : list[k].lo \in Nat /\ list[k].hi \in Nat
    <3>1. list \in Seq(Mapping)
      BY ListsAssumption DEF IsMappingList
    <3>2. \A k \in DOMAIN list : list[k] \in Mapping
      BY <3>1
    <3> QED BY <3>2, ListsAssumption DEF Mapping
  <2>4. p \in Covered(maps)
    BY <1>4 DEF IInv, Typed, TypeOK
  <2>5. PICK j \in DOMAIN maps : p \in Nat /\ maps[j].lo <= p /\ p < maps[j].hi
    BY <2>4, CoveredPage DEF IInv
  <2>6. maps # << >> /\ maps[j].hi <= End(maps) /\ End(maps) \in Nat
    <3>1. /\ maps \in Seq(Mapping) /\ Len(maps) \in Nat /\ DOMAIN maps = 1 .. Len(maps)
          /\ j \in Nat
      BY MapsInOrder DEF IInv
    <3>2. Len(maps) \in DOMAIN maps /\ maps # << >> /\ (j = Len(maps) \/ j < Len(maps))
      BY <3>1
    <3>3. /\ maps[j].hi \in Nat /\ maps[Len(maps)].lo \in Nat /\ maps[Len(maps)].hi \in Nat
          /\ maps[Len(maps)].lo < maps[Len(maps)].hi
          /\ j < Len(maps) => maps[j].hi <= maps[Len(maps)].lo
      BY <3>2, MapsInOrder DEF IInv
    <3> QED BY <3>2, <3>3 DEF End
  <2>7. i = 1 \/ list[i - 1].hi < End(maps)
    <3> SUFFICES ASSUME i # 1 PROVE list[i - 1].hi < End(maps)
      OBVIOUS
    <3>1. list \in Seq(Mapping) /\ i \in Nat
      BY <2>3 DEF IsMappingList
    <3>2. i - 1 \in DOMAIN list /\ i - 1 < i
      BY <3>1
    <3>3. list[i - 1].hi <= list[i].lo
      BY <2>3, <3>2 DEF IsMappingList
    <3>4. list[i].lo <= p
      BY <2>1, <2>3 DEF PagesOf
    <3>5. maps[j].hi \in Nat
      BY MapsInOrder DEF IInv
    <3> QED BY <2>3, <2>5, <2>6, <3>2, <3>3, <3>4, <3>5
  <2>8. GetsCopy(list, i)
    BY <2>2, <2>6, <2>7 DEF GetsCopy, Reached
  <2>9. p \in WithCopy(list)
    BY <2>1, <2>8 DEF WithCopy
  <2> QED BY <1>1, <1>2, <1>4, <2>9 DEF Held
<1> QED BY <1>3, <1>4

(* The first snapshot reports every page, a later one what differs from    *)
(* the copies, which are the last snapshot's memory.                       *)
LEMMA BeginRefines ==
  ASSUME IInv, ReportInv, BeginSnapshot
  PROVE  Promise!Next
<1>1. /\ phase = "window" /\ phase' = "page" /\ alive = TRUE
      /\ UNCHANGED <<memory, prot, alive, file>>
      /\ taken' = taken + 1 /\ htable'.iter = taken /\ htable'.rows = << >>
      /\ at'.i = 1 /\ at'.size = 0 /\ at'.line = 0
      /\ maps' \in Lists /\ Covered(maps') = Writable
      /\ copy' = UpdateLocalMaps(maps')
  BY DEF BeginSnapshot, HtableAddIter, Start, ParseMapsFile, IInv, Typed, TypeOK
<1>2. taken \in Nat
  BY WriteSetAssumption DEF IInv, Typed, TypeOK
<1>3. UNCHANGED <<MemoryNow, MappedNow>>
  BY <1>1, SameMemory
<1>0. ~Collecting /\ Collecting' /\ Living = TRUE /\ Living' = TRUE
  BY <1>1 DEF Collecting, Living, Lost
<1>4. SnapshotNow' = MemoryNow
  <2>1. \A p \in Readable, l \in Lines : Copied(p, l)' = memory[p][l]
    BY <1>0, <1>1 DEF Copied
  <2>2. \A c \in Cell : c[1] \in Readable /\ c[2] \in Lines
    BY DEF Cell
  <2>3. \A c \in Cell : Copied(c[1], c[2])' = memory[c[1]][c[2]]
    BY <2>1, <2>2
  <2> QED BY <2>3 DEF SnapshotNow, MemoryNow
<1>5. ASSUME NEW p \in Readable, NEW l \in Lines
      PROVE  /\ Ahead(p, l)' <=> p \in MappedNow
             /\ p \in MappedNow =>
                  (Differs(p, l)' <=> memory[p][l] # Copied(p, l) \/ taken = 0)
  <2>1. p \in Covered(maps') <=> p \in MappedNow
    BY <1>1 DEF Writable, MappedNow, Readable, ReportInv, Unprotected
  <2>2. ASSUME p \in Covered(maps') PROVE Ahead(p, l)'
    <3>1. IsMappingList(maps')
      BY <1>1, ListsAssumption
    <3>2. 1 \in DOMAIN maps' /\ maps'[1].lo \in Nat /\ p \in Nat /\ maps'[1].lo <= p
      BY <2>2, <3>1, FirstPage
    <3>3. InMappings' /\ Page' = maps'[1].lo
      BY <1>1, <3>2 DEF InMappings, Page
    <3>4. l >= 0
      BY TableAssumption DEF Lines
    <3> QED BY <1>1, <2>2, <3>2, <3>3, <3>4 DEF Ahead
  <2>3. Ahead(p, l)' => p \in Covered(maps')
    BY DEF Ahead
  <2>4. ASSUME p \in MappedNow
        PROVE  Differs(p, l)' <=> memory[p][l] # Copied(p, l) \/ taken = 0
    <3>1. Held(p)' = Held(p)
      BY <1>1, <2>1, <2>4, HeldStays
    <3>2. Copied(p, l) = Held(p)[l]
      BY <1>0 DEF Copied
    <3> QED BY <1>1, <3>1, <3>2 DEF Differs
  <2> QED BY <2>1, <2>2, <2>3, <2>4
<1> DEFINE Found == IF taken = 0 THEN MappedNow \X Lines
                    ELSE {c \in MappedNow \X Lines : MemoryNow[c] # SnapshotNow[c]}
<1>6. Current' = Found
  <2>1. Cells(htable'.rows) = {}
    BY <1>1 DEF Cells
  <2>2. \A c \in Cell : c[1] \in Readable /\ c[2] \in Lines
    BY DEF Cell
  <2>3. \A c : c \in MappedNow \X Lines <=> c \in Cell /\ c[1] \in MappedNow
    BY DEF Cell, MappedNow
  <2>4. \A c \in Cell : MemoryNow[c] = memory[c[1]][c[2]] /\ SnapshotNow[c] = Copied(c[1], c[2])
    BY DEF MemoryNow, SnapshotNow
  <2>5. Pending' = {c \in Cell : Ahead(c[1], c[2])' /\ Differs(c[1], c[2])'}
    BY DEF Pending, Cell
  <2>6. \A c \in Cell :
          /\ Ahead(c[1], c[2])' <=> c[1] \in MappedNow
          /\ c[1] \in MappedNow =>
               (Differs(c[1], c[2])' <=> memory[c[1]][c[2]] # Copied(c[1], c[2]) \/ taken = 0)
    BY <1>5, <2>2
  <2>7. Pending' = Found
    BY <2>3, <2>4, <2>5, <2>6
  <2> QED BY <2>1, <2>7 DEF Current
<1>7. /\ Reports = [n \in 1 .. taken |-> Block(n - 1)]
      /\ Reports' = [n \in 1 .. taken + 1 |-> IF n = taken + 1 THEN Current' ELSE Block(n - 1)]
  BY <1>0, <1>1 DEF Reports, Current, Block
<1>8. Reports' = Append(Reports, Current') /\ (Reports = << >> <=> taken = 0)
  <2>1. /\ Reports = [n \in 1 .. taken |-> Reports[n]]
        /\ Reports' = [n \in 1 .. taken + 1 |-> Reports'[n]]
    BY <1>7
  <2>2. \A n \in 1 .. taken : n \in 1 .. taken + 1 /\ n # taken + 1
    BY <1>2
  <2>3. \A n \in 1 .. taken : Reports'[n] = Reports[n]
    BY <1>7, <2>2
  <2>4. taken + 1 \in 1 .. taken + 1
    BY <1>2
  <2>5. Reports'[taken + 1] = Current'
    BY <1>7, <2>4
  <2>6. Reports' = Append(Reports, Reports'[taken + 1]) /\ (Reports = << >> <=> taken = 0)
    BY <1>2, <2>1, <2>3, OneMore
  <2> QED BY <2>5, <2>6
<1> HIDE DEF Found
<1>9. Reports' = Append(Reports, Found) /\ (Reports = << >> <=> taken = 0)
  BY <1>6, <1>8
<1>10. Promise!Take
  BY <1>0, <1>3, <1>4, <1>9
     DEF MemoryNow, MappedNow, SnapshotNow, Living, Cell, Found, Promise!Take,
         Promise!Dirty
<1> QED BY <1>10 DEF Promise!Next

(* The steps of find_dirty_data are stutters, but for a page without copy. *)

LEMMA SamePending ==
  ASSUME UNCHANGED htable,
         \A p \in Readable, l \in Lines :
           Ahead(p, l)' /\ Differs(p, l)' <=> Ahead(p, l) /\ Differs(p, l)
  PROVE  Current' = Current
<1>1. \A c \in Readable \X Lines : c[1] \in Readable /\ c[2] \in Lines
  OBVIOUS
<1>2. \A c \in Readable \X Lines :
        Ahead(c[1], c[2])' /\ Differs(c[1], c[2])' <=> Ahead(c[1], c[2]) /\ Differs(c[1], c[2])
  BY <1>1
<1>3. Pending' = Pending
  BY <1>2 DEF Pending
<1> QED BY <1>3 DEF Current

(* When a page without copy has been read, the tracker is as good as dead, *)
(* and the table of this snapshot with it.                                 *)
LEMMA ReadRefines ==
  ASSUME IInv, ReportInv, ReadPage
  PROVE  Promise!Next \/ Same
<1>1. /\ phase = "page" /\ phase' = "line" /\ alive
      /\ UNCHANGED <<memory, prot, alive, maps, copy, at, taken, file, htable>>
  BY DEF ReadPage
<1>2. Page' = Page /\ Collecting /\ ~Lost
  BY <1>1, AtPages DEF Page, Lost
<1>3. CASE Page \in DOMAIN copy
  <2>1. Collecting'
    BY <1>1, <1>2, <1>3 DEF Collecting, Lost
  <2>2. \A p \in Readable, l \in Lines :
          Ahead(p, l)' /\ Differs(p, l)' <=> Ahead(p, l) /\ Differs(p, l)
    BY <1>1 DEF Ahead, Differs, Held, InMappings, Page
  <2>3. \A p \in Readable, l \in Lines : Copied(p, l)' = Copied(p, l)
    BY <1>1, <1>2, <2>1 DEF Copied
  <2> QED BY <1>1, <1>2, <2>1, <2>2, <2>3, SamePending, Quiet
<1>4. CASE Page \notin DOMAIN copy
  <2>1. ~Collecting' /\ Living /\ ~Living'
    BY <1>1, <1>2, <1>4 DEF Collecting, Living, Lost
  <2>2. /\ taken \in Nat /\ taken > 0
        /\ \A d \in DOMAIN file : file[d].iter < taken - 1
    BY <1>1, WriteSetAssumption
       DEF IInv, Typed, TypeOK, ReportInv, Numbered, InSnapshot
  <2>3. \A n \in 1 .. taken : n = taken => Block(n - 1) = {}
    <3>1. ASSUME NEW d \in DOMAIN file PROVE file[d].iter # taken - 1
      <4>1. file \in Seq([iter : 0 .. MaxSnapshots - 1, rows : Seq(Row)])
        BY DEF IInv, Typed, TypeOK
      <4>2. ASSUME NEW S, file \in Seq(S) PROVE file[d] \in S
        BY <4>2
      <4>3. file[d] \in [iter : 0 .. MaxSnapshots - 1, rows : Seq(Row)]
        BY <4>1, <4>2
      <4>4. file[d].iter \in Int
        BY <4>3, WriteSetAssumption
      <4> QED BY <2>2, <4>4
    <3> QED BY <3>1 DEF Block
  <2>4. /\ Reports = [n \in 1 .. taken |-> IF n = taken THEN Current ELSE Block(n - 1)]
        /\ Reports' = [n \in 1 .. taken |-> IF n = taken THEN {} ELSE Block(n - 1)]
    <3>1. Reports' = [n \in 1 .. taken |-> Block(n - 1)]
      BY <1>1, <2>1 DEF Reports, Block
    <3> QED BY <1>2, <2>3, <3>1 DEF Reports, Current
  <2> QED BY <1>1, <2>1, <2>2, <2>4, DieRefines
<1> QED BY <1>3, <1>4

(* Past a page with nothing left to compare the same cells are ahead.      *)
LEMMA NextPageAhead ==
  ASSUME IInv, InMapping, phase \in {"page", "line"}, phase' = "page",
         at' = NextPage, UNCHANGED Rest,
         phase = "line" => at.line = LinesPerPage,
         phase = "page" => Page \notin Readable,
         NEW p \in Readable, NEW l \in Lines
  PROVE  /\ Ahead(p, l)' <=> Ahead(p, l)
         /\ Ahead(p, l) => p # Page
<1>1. InMappings /\ InMappings' /\ Page \in Nat /\ Page' = Page + 1 /\ at'.line = 0
  BY AfterPage DEF IInv, InMapping, Rest
<1>2. CASE p \in Covered(maps)
  <2>1. p \in Nat
    BY <1>2, CoveredPage DEF IInv
  <2>2. l \in Nat /\ l < LinesPerPage /\ LinesPerPage \in Nat
    BY TableAssumption DEF Lines
  <2>4. p = Page => ~(l >= at.line)
    BY <2>2
  <2>5. (p > Page' \/ (p = Page' /\ l >= 0)) <=> p > Page
    BY <1>1, <2>1, <2>2
  <2>6. ~InHand(p)' /\ (p # Page => ~InHand(p))
    BY DEF InHand
  <2>7. p > Page => p # Page
    BY <1>1, <2>1
  <2>8. Ahead(p, l)' <=> p > Page /\ alive
    BY <1>1, <1>2, <2>5, <2>6 DEF Ahead, Rest
  <2>9. Ahead(p, l) <=> p > Page /\ alive
    BY <1>1, <1>2, <2>4, <2>6, <2>7 DEF Ahead
  <2> QED BY <2>7, <2>8, <2>9
<1>3. CASE p \notin Covered(maps)
  BY <1>3 DEF Ahead, Rest
<1> QED BY <1>2, <1>3

LEMMA ErrorRefines ==
  ASSUME IInv, ReportInv, ReadError
  PROVE  Same
<1>1. /\ phase = "page" /\ phase' = "page" /\ InMapping
      /\ UNCHANGED Rest /\ UNCHANGED copy
      /\ Collecting /\ Collecting'
  BY AtPages, AtNextPages DEF ReadError, Rest
<1>2. \A p \in Readable, l \in Lines : Copied(p, l)' = Copied(p, l)
  BY <1>1, AtPages, AtNextPages DEF Copied, Held, Rest
<1>3. CASE alive
  <2>1. at' = NextPage /\ Page \notin Readable
    BY <1>3 DEF ReadError, Readable
  <2>2. \A p \in Readable, l \in Lines : Ahead(p, l)' <=> Ahead(p, l)
    BY <1>1, <2>1, NextPageAhead
  <2>3. \A p \in Readable, l \in Lines :
          Ahead(p, l)' /\ Differs(p, l)' <=> Ahead(p, l) /\ Differs(p, l)
    BY <1>1, <2>2 DEF Differs, Held, Rest
  <2> QED BY <1>1, <1>2, <2>3, SamePending, Quiet DEF Rest
<1>4. CASE ~alive
  <2>1. \A p \in Readable, l \in Lines : ~Ahead(p, l) /\ ~Ahead(p, l)'
    BY <1>1, <1>4 DEF Ahead, InHand, Rest
  <2>2. \A p \in Readable, l \in Lines :
          Ahead(p, l)' /\ Differs(p, l)' <=> Ahead(p, l) /\ Differs(p, l)
    BY <2>1
  <2> QED BY <1>1, <1>2, <2>2, SamePending, Quiet DEF Rest
<1> QED BY <1>3, <1>4

LEMMA MappingDoneRefines ==
  ASSUME IInv, ReportInv, MappingDone
  PROVE  Same
<1>1. /\ phase = "page" /\ phase' = "page" /\ InMappings /\ ~InMapping
      /\ UNCHANGED Rest /\ UNCHANGED copy /\ at' = NextMapping
      /\ at.line = 0 /\ Collecting /\ Collecting'
  BY AtPages, AtNextPages DEF MappingDone, Rest, IInv, Typed, InLoops
<1>2. \A p \in Readable, l \in Lines : Copied(p, l)' = Copied(p, l)
  BY <1>1, AtPages, AtNextPages DEF Copied, Held, Rest
<1>3. ASSUME NEW p \in Readable, NEW l \in Lines
      PROVE  Ahead(p, l)' <=> Ahead(p, l)
  <2>1. CASE p \in Covered(maps)
    <3>1. /\ Page \in Nat /\ p \in Nat /\ at'.line = 0
          /\ InMappings' => Page' \in Nat
          /\ Page <= p <=> InMappings' /\ Page' <= p
      BY <1>1, <2>1, AfterMapping DEF IInv, Rest
    <3>2. l >= 0
      BY TableAssumption DEF Lines
    <3>3. Ahead(p, l) <=> Page <= p /\ alive
      BY <1>1, <2>1, <3>1, <3>2 DEF Ahead, InHand
    <3>4. Ahead(p, l)' <=> InMappings' /\ Page' <= p /\ alive
      BY <1>1, <2>1, <3>1, <3>2 DEF Ahead, InHand, Rest
    <3> QED BY <3>1, <3>3, <3>4
  <2>2. CASE p \notin Covered(maps)
    BY <1>1, <2>2 DEF Ahead, Rest
  <2> QED BY <2>1, <2>2
<1>4. \A p \in Readable, l \in Lines :
        Ahead(p, l)' /\ Differs(p, l)' <=> Ahead(p, l) /\ Differs(p, l)
  BY <1>1, <1>3 DEF Differs, Held, Rest
<1> QED BY <1>1, <1>2, <1>4, SamePending, Quiet DEF Rest

(* The copy of the page becomes its memory, if it was not: from here on a  *)
(* killed application leaves the copy behind.                              *)
LEMMA PageDoneRefines ==
  ASSUME IInv, ReportInv, PageDone
  PROVE  Same
<1>1. /\ phase = "line" /\ phase' = "page" /\ InMapping
      /\ UNCHANGED Rest /\ at' = NextPage
      /\ at.line = LinesPerPage
  BY DEF PageDone, Rest, IInv, Typed, TypeOK
<1>2. /\ Page \in DOMAIN copy /\ DOMAIN copy' = DOMAIN copy
      /\ copy'[Page] = memory[Page]
      /\ \A p \in DOMAIN copy : p # Page => copy'[p] = copy[p]
  BY Clean0
<1>3. Collecting /\ Collecting'
  BY <1>1, <1>2, AtNextPages DEF Collecting, Lost
<1>4. \A p : p # Page => Held(p)' = Held(p)
  BY <1>2 DEF Held
<1>5. \A p \in Readable, l \in Lines :
        Ahead(p, l)' /\ Differs(p, l)' <=> Ahead(p, l) /\ Differs(p, l)
  <2> SUFFICES ASSUME NEW p \in Readable, NEW l \in Lines
               PROVE  Ahead(p, l)' /\ Differs(p, l)' <=> Ahead(p, l) /\ Differs(p, l)
    OBVIOUS
  <2>1. /\ Ahead(p, l)' <=> Ahead(p, l)
        /\ Ahead(p, l) => p # Page
    BY <1>1, NextPageAhead
  <2>2. Ahead(p, l) => Held(p)' = Held(p)
    BY <1>4, <2>1
  <2> QED BY <1>1, <2>1, <2>2 DEF Differs, Rest
<1>6. \A p \in Readable, l \in Lines : Copied(p, l)' = Copied(p, l)
  <2> SUFFICES ASSUME NEW p \in Readable, NEW l \in Lines
               PROVE  Copied(p, l)' = Copied(p, l)
    OBVIOUS
  <2>1. CASE alive
    BY <1>1, <1>3, <2>1 DEF Copied, Rest
  <2>2. CASE ~alive /\ p = Page
    <3>1. Copied(p, l) = memory[p][l]
      BY <1>1, <1>3, <2>2 DEF Copied, InHand
    <3>2. Copied(p, l)' = copy'[p][l]
      BY <1>1, <1>2, <2>2, AtNextPages DEF Copied, Held, Rest
    <3> QED BY <1>2, <2>2, <3>1, <3>2
  <2>3. CASE ~alive /\ p # Page
    <3>1. Copied(p, l) = Held(p)[l]
      BY <2>3 DEF Copied, InHand
    <3>2. Copied(p, l)' = Held(p)'[l]
      BY <1>1, <2>3, AtNextPages DEF Copied, Rest
    <3> QED BY <1>4, <2>3, <3>1, <3>2
  <2> QED BY <2>1, <2>2, <2>3
<1> QED BY <1>1, <1>3, <1>5, <1>6, SamePending, Quiet DEF Rest

(* A dirty line moves from what is ahead into the table, which has room.   *)
LEMMA DiffLineRefines ==
  ASSUME IInv, ReportInv, Room, DiffLine
  PROVE  Same
<1>1. /\ phase = "line" /\ phase' = "line" /\ InMapping
      /\ UNCHANGED <<memory, prot, alive, maps, copy, taken, file>>
      /\ at'.i = at.i /\ at'.size = at.size /\ at'.line = at.line + 1
      /\ at.line \in Nat /\ at.line < LinesPerPage
      /\ Page \in DOMAIN copy
  BY TableAssumption DEF DiffLine, IInv, Typed, TypeOK
<1>2. InMappings /\ InMappings' /\ Page' = Page
  BY <1>1 DEF InMapping, InMappings, Page
<1>0. Collecting /\ Collecting'
  BY <1>1, <1>2 DEF Collecting, Lost
<1>3. Page \in Nat /\ Page \in Covered(maps) /\ Page \in Readable
  BY <1>1, PageCovered DEF IInv, ReportInv, AtPage, Readable
<1>4. at.line \in Lines
  BY <1>1, TableAssumption DEF Lines
<1>5. htable'.iter = htable.iter
  <2>1. HtableAdd(Page * LinesPerPage + at.line) => htable'.iter = htable.iter
    BY DEF HtableAdd, IInv, Typed, TypeOK, HtableOK
  <2> QED BY <2>1 DEF DiffLine
<1>6. \A p \in Readable, l \in Lines : Differs(p, l)' <=> Differs(p, l)
  BY <1>1, <1>5 DEF Differs, Held
<1>7. \A p \in Readable, l \in Lines : Copied(p, l)' = Copied(p, l)
  BY <1>0, <1>1, <1>2 DEF Copied, Held, InHand
<1>8. ASSUME NEW p \in Readable, NEW l \in Lines
      PROVE  Ahead(p, l) <=> Ahead(p, l)' \/ (p = Page /\ l = at.line)
  <2>1. l \in Nat
    BY TableAssumption DEF Lines
  <2>2. l >= at.line <=> l >= at.line + 1 \/ l = at.line
    BY <1>1, <2>1
  <2>3. p = Page /\ l = at.line => Ahead(p, l)
    BY <1>1, <1>2, <1>3, <2>2 DEF Ahead, InHand
  <2>4. InHand(p)' <=> InHand(p)
    BY <1>1, <1>2 DEF InHand
  <2> QED BY <1>1, <1>2, <2>2, <2>3, <2>4 DEF Ahead
<1> DEFINE here == <<Page, at.line>>
<1>9. here \in Readable \X Lines
  BY <1>3, <1>4
<1>10. \A c \in Readable \X Lines :
         /\ c[1] \in Readable /\ c[2] \in Lines
         /\ c = here <=> c[1] = Page /\ c[2] = at.line
  OBVIOUS
<1>11. \A c \in Readable \X Lines :
         /\ Differs(c[1], c[2])' <=> Differs(c[1], c[2])
         /\ Ahead(c[1], c[2]) <=> Ahead(c[1], c[2])' \/ c = here
  BY <1>6, <1>8, <1>10
<1>12. CASE Differs(Page, at.line)
  <2>1. HtableAdd(Page * LinesPerPage + at.line)
    BY <1>12 DEF DiffLine
  <2>2. Cells(htable'.rows) = Cells(htable.rows) \cup {here}
    <3>1. IsLastRow(htable.rows, Page) \/ Len(htable.rows) < TableSize
      BY <1>1, <1>12 DEF Room
    <3>2. HtableOK
      BY DEF IInv, Typed, TypeOK
    <3> QED BY <1>3, <1>4, <2>1, <3>1, <3>2, CellsAdded
  <2>3. Differs(here[1], here[2])
    BY <1>12
  <2> HIDE DEF here
  <2>4. Pending = Pending' \cup {here}
    <3>1. \A c \in Readable \X Lines :
            Ahead(c[1], c[2]) /\ Differs(c[1], c[2]) <=>
              (Ahead(c[1], c[2])' /\ Differs(c[1], c[2])') \/ c = here
      BY <1>11, <2>3
    <3> QED BY <1>9, <3>1 DEF Pending
  <2>5. Current' = Current
    BY <2>2, <2>4 DEF Current
  <2> QED BY <1>0, <1>1, <1>7, <2>5, Quiet
<1>13. CASE ~Differs(Page, at.line)
  <2>1. htable' = htable
    BY <1>13 DEF DiffLine
  <2>2. ~Differs(here[1], here[2])
    BY <1>13
  <2> HIDE DEF here
  <2>3. \A p \in Readable, l \in Lines :
          Ahead(p, l)' /\ Differs(p, l)' <=> Ahead(p, l) /\ Differs(p, l)
    BY <1>6, <1>8, <1>13
  <2> QED BY <1>0, <1>1, <1>7, <2>1, <2>3, SamePending, Quiet
<1> QED BY <1>12, <1>13

(* The loops are through: the report of the snapshot is its block, and the *)
(* copies are the memory.                                                  *)
LEMMA EndRefines ==
  ASSUME IInv, ReportInv, EndSnapshot
  PROVE  Same
<1>1. /\ phase = "page" /\ phase' = "window" /\ ~InMappings
      /\ UNCHANGED <<memory, prot, alive, maps, copy, at, diff_cl, taken, htable>>
      /\ file' = IF htable.rows = << >> THEN file ELSE Append(file, htable)
      /\ Collecting /\ ~Collecting' /\ InSnapshot
  BY AtPages DEF EndSnapshot, HtablePrint, Collecting, InSnapshot
<1>0. Living' = Living
  BY <1>1 DEF Living, Lost
<1>2. /\ taken \in Nat /\ taken > 0 /\ htable.iter = taken - 1
      /\ \A d \in DOMAIN file : file[d].iter < taken - 1
  BY <1>1, WriteSetAssumption DEF ReportInv, Numbered, IInv, Typed, TypeOK
<1>3. file \in Seq([iter : 0 .. MaxSnapshots - 1, rows : Seq(Row)])
  BY DEF IInv, Typed, TypeOK
<1>4. \A p \in Readable, l \in Lines : Copied(p, l)' = Copied(p, l)
  <2> SUFFICES ASSUME NEW p \in Readable, NEW l \in Lines
               PROVE  Copied(p, l)' = Copied(p, l)
    OBVIOUS
  <2>1. DOMAIN copy \subseteq Covered(maps) /\ Covered(maps) = Writable
    BY <1>1 DEF IInv, Typed, TypeOK, ReportInv, AsListed
  <2>2. p \in Pages /\ p \notin Unreadable
    BY DEF Readable
  <2>3. Copied(p, l)' = Held(p)[l]
    BY <1>1 DEF Copied, Held
  <2>4. CASE alive
    <3>1. Copied(p, l) = memory[p][l]
      BY <1>1, <2>4 DEF Copied
    <3>2. CASE p \in Covered(maps)
      BY <1>1, <2>2, <2>3, <2>4, <3>1, <3>2 DEF ReportInv, CaughtUp, Held
    <3>3. CASE p \notin Covered(maps)
      <4>1. prot[p] = "none"
        BY <2>1, <2>2, <3>3 DEF Writable, ReportInv, Unprotected
      <4>2. memory[p] = CleanPage
        BY <4>1 DEF ReportInv, UnmappedClean
      <4>3. Held(p) = CleanPage
        BY <2>1, <3>3 DEF Held
      <4> QED BY <2>3, <3>1, <4>2, <4>3
    <3> QED BY <3>2, <3>3
  <2>5. CASE ~alive
    BY <1>1, <2>3, <2>5, AtPages DEF Copied
  <2> QED BY <2>4, <2>5
<1>5. Pending = {}
  BY <1>1 DEF Pending, Ahead
<1>6. ASSUME NEW n \in 1 .. taken, n = taken
      PROVE  Block(n - 1)' = Cells(htable.rows)
  <2>1. CASE htable.rows = << >>
    <3>1. Cells(htable.rows) = {}
      BY <2>1 DEF Cells
    <3>2. ~ \E d \in DOMAIN file' : file'[d].iter = n - 1
      <4> SUFFICES ASSUME NEW d \in DOMAIN file, file[d].iter = n - 1 PROVE FALSE
        BY <1>1, <2>1
      <4> QED BY <1>2, <1>6
    <3> QED BY <1>1, <3>1, <3>2 DEF Block
  <2>2. CASE htable.rows # << >>
    <3>1. /\ Len(file) \in Nat /\ DOMAIN file = 1 .. Len(file)
          /\ DOMAIN file' = 1 .. Len(file) + 1
          /\ file'[Len(file) + 1] = htable
          /\ \A d \in 1 .. Len(file) : file'[d] = file[d]
      BY <1>1, <1>3, <2>2
    <3>2. \A d \in 1 .. Len(file) : file'[d].iter # n - 1
      <4> SUFFICES ASSUME NEW d \in 1 .. Len(file), file[d].iter = n - 1 PROVE FALSE
        BY <3>1
      <4> QED BY <1>2, <1>6, <3>1
    <3>3. {d \in DOMAIN file' : file'[d].iter = n - 1} = {Len(file) + 1}
      BY <1>2, <1>6, <3>1, <3>2
    <3> QED BY <1>1, <3>1, <3>3 DEF Block
  <2> QED BY <2>1, <2>2
<1>7. ASSUME NEW n \in 1 .. taken, n # taken
      PROVE  Block(n - 1)' = Block(n - 1)
  <2>1. n - 1 # taken - 1
    BY <1>2, <1>7
  <2>2. CASE htable.rows = << >>
    BY <1>1, <2>2 DEF Block
  <2>3. CASE htable.rows # << >>
    <3>1. /\ Len(file) \in Nat /\ DOMAIN file = 1 .. Len(file)
          /\ DOMAIN file' = 1 .. Len(file) + 1
          /\ file'[Len(file) + 1] = htable
          /\ \A d \in 1 .. Len(file) : file'[d] = file[d]
      BY <1>1, <1>3, <2>3
    <3>2. {d \in DOMAIN file' : file'[d].iter = n - 1} =
            {d \in DOMAIN file : file[d].iter = n - 1}
      <4>1. \A d \in DOMAIN file' : d = Len(file) + 1 \/ d \in DOMAIN file
        BY <3>1
      <4>2. file'[Len(file) + 1].iter # n - 1
        BY <1>2, <2>1, <3>1
      <4>3. \A d \in DOMAIN file : d \in DOMAIN file' /\ file'[d] = file[d]
        BY <3>1
      <4> QED BY <4>1, <4>2, <4>3
    <3> DEFINE D == {d \in DOMAIN file : file[d].iter = n - 1}
    <3>3. \A d \in D : file'[d] = file[d]
      BY <3>1
    <3>4. Block(n - 1)' = UNION {Cells(file'[d].rows) : d \in D}
      BY <3>2 DEF Block
    <3>5. Block(n - 1) = UNION {Cells(file[d].rows) : d \in D}
      BY DEF Block
    <3> HIDE DEF D
    <3> QED BY <3>3, <3>4, <3>5
  <2> QED BY <2>2, <2>3
<1>8. Reports' = Reports
  <2>1. /\ Reports = [n \in 1 .. taken |-> Reports[n]]
        /\ \A n \in 1 .. taken :
             Reports[n] = IF n = taken THEN Cells(htable.rows) ELSE Block(n - 1)
    BY <1>1, <1>5 DEF Reports
  <2>2. /\ Reports' = [n \in 1 .. taken |-> Reports'[n]]
        /\ \A n \in 1 .. taken : Reports'[n] = Block(n - 1)'
    BY <1>1 DEF Reports
  <2>3. ASSUME NEW n \in 1 .. taken
        PROVE  Reports'[n] = Reports[n]
    <3>1. Reports'[n] = Block(n - 1)'
      BY <2>2
    <3>2. Reports[n] = IF n = taken THEN Cells(htable.rows) ELSE Block(n - 1)
      BY <2>1
    <3> QED BY <1>6, <1>7, <3>1, <3>2
  <2> QED BY <2>1, <2>2, <2>3
<1> QED BY <1>0, <1>1, <1>4, <1>8, SameMemory, SameSnapshot DEF Same

----------------------------------------------------------------------------
LEMMA NextRefines ==
  ASSUME ~Protects
  PROVE  IInv /\ ReportInv /\ Room /\ [Next]_vars
           => [Promise!Next]_<<MemoryNow, MappedNow, SnapshotNow, Reports, Living>>
<1> SUFFICES ASSUME IInv, ReportInv, Room, [Next]_vars
             PROVE  Promise!Next \/ Same
  BY PromiseStep
<1>1. CASE Application
  BY <1>1, ApplicationRefines
<1>2. CASE Kill \/ UpdateCrash
  BY <1>2, KillRefines, UpdateCrashRefines
<1>3. CASE BeginSnapshot
  BY <1>3, BeginRefines
<1>4. CASE FindDirtyData
  BY <1>4, ReadRefines, ErrorRefines, DiffLineRefines, CompareCrashRefines,
     PageDoneRefines, MappingDoneRefines, EndRefines DEF FindDirtyData
<1>5. CASE UNCHANGED vars
  <2>1. (Lost' <=> Lost) /\ (Collecting' <=> Collecting)
    BY <1>5 DEF vars, Lost, Collecting, Page
  <2>2. \A p \in Readable, l \in Lines : Copied(p, l)' = Copied(p, l)
    BY <1>5, <2>1 DEF vars, Copied, Held, InHand, Page
  <2>3. Current' = Current
    BY <1>5 DEF vars, Current, Pending, Ahead, InHand, InMappings, Differs, Held, Page
  <2>4. UNCHANGED <<memory, prot, taken, file>> /\ Living' = Living
    BY <1>5, <2>1 DEF vars, Living
  <2> QED BY <2>1, <2>2, <2>3, <2>4, SameMemory, SameReports, SameSnapshot DEF Same
<1> QED BY <1>1, <1>2, <1>3, <1>4, <1>5 DEF Next, Stopped

(* As long as no protection changes and htable_add never has to drop a     *)
(* line, the blocks of the file are the write sets: whatever the           *)
(* application writes, maps and unmaps in its windows, whichever pages     *)
(* cannot be read, and whenever it is killed.  A mapping without local     *)
(* copy (the merge of update_local_maps ends with the old list) kills the  *)
(* tracker: the block of that snapshot is missing and none follows.        *)
THEOREM ReportsWhileRoom ==
  ASSUME ~Protects
  PROVE  Spec /\ []Room => ReportsWriteSet
<1>1. Init => IInv /\ ReportInv
  BY InitKeeps, InitReports
<1>2. IInv /\ ReportInv /\ [Next]_vars => (IInv /\ ReportInv)'
  BY NextKeeps, NextReports
<1>3. Spec => [](IInv /\ ReportInv)
  BY <1>1, <1>2, PTL DEF Spec
<1>4. Spec /\ []Room
        => [][Promise!Next]_<<MemoryNow, MappedNow, SnapshotNow, Reports, Living>>
  BY <1>3, NextRefines, PTL DEF Spec
<1>5. Spec => Promise!Init
  BY InitRefines DEF Spec
<1> QED
  BY <1>4, <1>5, PTL
     DEF ReportsWriteSet, Promise!Spec, MemoryNow, MappedNow, SnapshotNow, Living, Cell

----------------------------------------------------------------------------
(* A table of as many rows as pages can be read is never full.             *)

LEMMA RowsStayReadable ==
  IInv /\ ReportInv /\ RowsReadable /\ [Next]_vars => RowsReadable'
<1> SUFFICES ASSUME IInv, ReportInv, RowsReadable, [Next]_vars PROVE RowsReadable'
  OBVIOUS
<1>1. CASE UNCHANGED htable
  BY <1>1 DEF RowsReadable
<1>2. CASE BeginSnapshot
  BY <1>2 DEF BeginSnapshot, HtableAddIter, RowsReadable
<1>3. CASE DiffLine /\ ~UNCHANGED htable
  <2> DEFINE v    == Page * LinesPerPage + at.line
             rows == htable.rows
  <2>1. /\ phase = "line" /\ InMapping /\ HtableAdd(v)
        /\ at.line \in 0 .. LinesPerPage - 1
    BY <1>3, TableAssumption DEF DiffLine, IInv, Typed, TypeOK
  <2>2. Page \in Nat /\ Page \in Readable
    BY <2>1, PageCovered DEF IInv, ReportInv, AtPage, Readable
  <2>3. PageOf(v) = Page
    BY <2>1, <2>2, TableAssumption, DivPage DEF PageOf
  <2>4. /\ rows \in Seq(Row) /\ Len(rows) \in Nat /\ DOMAIN rows = 1 .. Len(rows)
        /\ htable \in [iter : Nat, rows : Seq(Row)]
    BY DEF IInv, Typed, TypeOK, HtableOK
  <2>5. CASE IsLastRow(rows, Page)
    <3> DEFINE n   == Len(rows)
               new == [rows EXCEPT ![n].bits = @ \cup {LineOf(v)}]
    <3>1. htable' = [htable EXCEPT !.rows = new]
      BY <2>1, <2>3, <2>5 DEF HtableAdd
    <3>2. htable'.rows = new
      BY <2>4, <3>1
    <3>3. n \in DOMAIN rows /\ rows[n] \in Row
      BY <2>4, <2>5 DEF IsLastRow
    <3>4. DOMAIN new = DOMAIN rows /\ \A a \in DOMAIN rows : new[a].page = rows[a].page
      BY <3>3 DEF Row
    <3> QED BY <3>2, <3>4 DEF RowsReadable
  <2>6. CASE ~IsLastRow(rows, Page) /\ Len(rows) + 1 >= TableSize + 1
    <3>1. htable' = [htable EXCEPT !.rows = rows]
      BY <2>1, <2>3, <2>6 DEF HtableAdd
    <3> QED BY <2>4, <3>1 DEF RowsReadable
  <2>7. CASE ~IsLastRow(rows, Page) /\ ~(Len(rows) + 1 >= TableSize + 1)
    <3> DEFINE new == Append(rows, [page |-> Page, bits |-> {LineOf(v)}])
    <3>1. htable' = [htable EXCEPT !.rows = new]
      BY <2>1, <2>3, <2>7 DEF HtableAdd
    <3>2. htable'.rows = new
      BY <2>4, <3>1
    <3>3. \A a \in DOMAIN new : new[a].page = Page \/ (a \in DOMAIN rows /\ new[a] = rows[a])
      BY <2>4
    <3> HIDE DEF new
    <3> QED BY <2>2, <3>2, <3>3 DEF RowsReadable
  <2> QED BY <2>5, <2>6, <2>7
<1> QED
  BY <1>1, <1>2, <1>3 DEF Next, Stopped, vars, Application, Kill, FindDirtyData,
     ReadPage, ReadError, PageDone, MappingDone, EndSnapshot, UpdateCrash, CompareCrash

(* The pages of the rows, and the one that is compared, are different.     *)
LEMMA LargeTableHasRoom ==
  ASSUME IsFiniteSet(Readable), Cardinality(Readable) <= TableSize,
         IInv, ReportInv, RowsReadable
  PROVE  Room
<1> DEFINE rows == htable.rows
           n    == Len(rows)
           f    == [i \in 1 .. n + 1 |-> IF i = n + 1 THEN Page ELSE rows[i].page]
<1>1. SUFFICES ASSUME phase = "line", ~IsLastRow(rows, Page)
               PROVE  n < TableSize
  BY DEF Room
<1>2. InMapping /\ rows \in Seq(Row) /\ n \in Nat /\ DOMAIN rows = 1 .. n
  BY <1>1 DEF IInv, Typed, TypeOK, HtableOK
<1>3. Page \in Nat /\ Page \in Readable
  BY <1>1, <1>2, PageCovered DEF IInv, ReportInv, AtPage, Readable
<1>4. \A i \in 1 .. n : rows[i] \in Row
  BY <1>2
<1>5. \A i \in 1 .. n : rows[i].page \in Nat /\ rows[i].page \in Readable /\ rows[i].page <= Page
  BY <1>1, <1>2, <1>4 DEF Row, RowsReadable, IInv, Behind
<1>6. \A i, j \in 1 .. n : i < j => rows[i].page < rows[j].page
  BY <1>2 DEF IInv, Ascending
<1>7. \A i \in 1 .. n : rows[i].page # Page
  <2> SUFFICES ASSUME NEW i \in 1 .. n, rows[i].page = Page PROVE FALSE
    OBVIOUS
  <2>1. n \in 1 .. n /\ rows # << >>
    BY <1>2
  <2>2. i = n \/ i < n
    BY <1>2
  <2>3. i # n
    BY <1>1, <2>1 DEF IsLastRow
  <2>4. rows[i].page < rows[n].page /\ rows[n].page <= Page /\ rows[n].page \in Nat
    BY <1>5, <1>6, <2>1, <2>2, <2>3
  <2> QED BY <1>3, <2>4
<1>8. \A i \in 1 .. n + 1 : i = n + 1 \/ i \in 1 .. n
  BY <1>2
<1>9. f \in [1 .. n + 1 -> Readable]
  BY <1>3, <1>5, <1>8
<1>10. \A i, j \in 1 .. n + 1 : f[i] = f[j] => i = j
  <2> SUFFICES ASSUME NEW i \in 1 .. n + 1, NEW j \in 1 .. n + 1, f[i] = f[j], i # j
               PROVE  FALSE
    OBVIOUS
  <2>1. CASE i \in 1 .. n /\ j \in 1 .. n
    <3>1. rows[i].page = rows[j].page
      BY <1>2, <2>1
    <3>2. i < j \/ j < i
      BY <2>1
    <3> QED BY <1>5, <1>6, <2>1, <3>1, <3>2
  <2>2. CASE i = n + 1 \/ j = n + 1
    BY <1>2, <1>7, <1>8, <2>2
  <2> QED BY <1>8, <2>1, <2>2
<1> HIDE DEF f
<1>11. f \in Injection(1 .. n + 1, Readable)
  BY <1>9, <1>10 DEF Injection, IsInjective
<1>12. Cardinality(1 .. n + 1) <= Cardinality(Readable)
  BY <1>11, FS_Injection
<1>13. Cardinality(1 .. n + 1) = n + 1
  <2>1. n + 1 \in Int /\ ~(1 > n + 1)
    BY <1>2
  <2>2. Cardinality(1 .. n + 1) = IF 1 > n + 1 THEN 0 ELSE (n + 1) - 1 + 1
    BY <2>1, FS_Interval
  <2> QED BY <1>2, <2>1, <2>2
<1>14. Cardinality(Readable) \in Nat /\ TableSize \in Nat
  BY FS_CardinalityType, TableAssumption
<1> QED BY <1>2, <1>12, <1>13, <1>14

(* With a row for every page that can be read, and no protection changed,  *)
(* the blocks of the dcl file are the write sets of the windows: KTracker  *)
(* finds "an application's cache-line granularity write set in fixed time  *)
(* windows" (README.md), until the application or the tracker is killed.   *)
THEOREM ReportsWriteSetHolds ==
  ASSUME ~Protects, IsFiniteSet(Readable), Cardinality(Readable) <= TableSize
  PROVE  Spec => ReportsWriteSet
<1>1. Init => IInv /\ ReportInv /\ RowsReadable
  <2>1. Init => RowsReadable
    BY DEF Init, HtableInit, RowsReadable
  <2> QED BY <2>1, InitKeeps, InitReports
<1>2. IInv /\ ReportInv /\ RowsReadable /\ [Next]_vars => (IInv /\ ReportInv /\ RowsReadable)'
  BY NextKeeps, NextReports, RowsStayReadable
<1>3. IInv /\ ReportInv /\ RowsReadable => Room
  BY LargeTableHasRoom
<1>4. Spec => []Room
  BY <1>1, <1>2, <1>3, PTL DEF Spec
<1> QED BY <1>4, ReportsWhileRoom, PTL

=============================================================================

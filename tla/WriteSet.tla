------------------------------ MODULE WriteSet ------------------------------
(***************************************************************************)
(* How the write set is found: the memory side of proc_trace and           *)
(* find_dirty_data of src/tracker.c.  In each window the application       *)
(* writes, maps and unmaps; when it is stopped the tracker lists its       *)
(* writable mappings, adjusts the local copies, reads page after page,     *)
(* enters the cache lines that differ from the copy in the table, updates  *)
(* the copy, and appends the table to the dcl file.                        *)
(*                                                                         *)
(* The application does not run during a snapshot: Tracker is about that.  *)
(* It can only be killed.  A mapping can be left without a local copy;     *)
(* then the tracker itself ends where it uses address 0 in its place.      *)
(***************************************************************************)
EXTENDS Maps, HTable, FiniteSets

CONSTANTS
  Pages,          (* the pages of the application, numbers                 *)
  Values, Clean,  (* what a cache line can hold; a line of zeros           *)
  Unreadable,     (* the pages process_vm_readv fails on (EFAULT)          *)
  Protects,       (* TRUE: the application makes pages read-only           *)
  MaxSnapshots    (* bound: the number of snapshots                        *)

ASSUME WriteSetAssumption ==
  /\ Pages \subseteq Nat
  /\ Clean \in Values
  /\ Unreadable \subseteq Pages
  /\ Protects \in BOOLEAN
  /\ MaxSnapshots \in Nat

VARIABLES
  memory,     (* memory[p][l]: cache line l of page p                      *)
  prot,       (* the protection of each page                               *)
  alive,      (* the application has not been killed                       *)
  phase,      (* "window": it runs; "page", "line": in find_dirty_data;    *)
              (* "crashed": the tracker has been killed by SIGSEGV         *)
  maps,       (* procinf->proc_mappings of this snapshot                   *)
  copy,       (* the local copies: a page for each page of the mappings    *)
              (* that have one                                             *)
  at,         (* the position in the loops: mapping i, page size, line     *)
  diff_cl,    (* dirty lines of the current page                           *)
  taken,      (* snapshots begun: _num_iter + 1                            *)
  file        (* the blocks of the dcl file                                *)

appvars == <<memory, prot>>
vars == <<memory, prot, alive, phase, maps, copy, at, diff_cl, taken, file,
          htable>>

CleanPage == [l \in Lines |-> Clean]
Start     == [i |-> 1, size |-> 0, line |-> 0]

Init ==
  /\ prot \in [Pages -> {"none", "rw"}]
  /\ memory \in {m \in [Pages -> [Lines -> Values]] :
                   \A p \in Pages : prot[p] = "none" \/ p \in Unreadable
                                      => m[p] = CleanPage}
  /\ alive = TRUE
  /\ phase = "window"
  /\ maps = << >>
  /\ copy = << >>
  /\ at = Start
  /\ diff_cl = 0
  /\ taken = 0
  /\ file = << >>
  /\ HtableInit

----------------------------------------------------------------------------
(* The application in its window.  What it writes to an unreadable page    *)
(* (device memory) nobody looks at.                                        *)

Runs == phase = "window" /\ alive

Write(p, l, v) ==
  /\ Runs /\ prot[p] = "rw" /\ p \notin Unreadable
  /\ memory' = [memory EXCEPT ![p][l] = v]
  /\ UNCHANGED prot

(* mmap of anonymous memory, munmap.                                       *)
Mmap(p) ==
  /\ Runs /\ prot[p] = "none"
  /\ prot' = [prot EXCEPT ![p] = "rw"]
  /\ UNCHANGED memory

Munmap(p) ==
  /\ Runs /\ prot[p] # "none"
  /\ prot' = [prot EXCEPT ![p] = "none"]
  /\ memory' = [memory EXCEPT ![p] = CleanPage]

Mprotect(p) ==
  /\ Runs /\ Protects /\ prot[p] # "none"
  /\ prot' = [prot EXCEPT ![p] = IF @ = "rw" THEN "r" ELSE "rw"]
  /\ UNCHANGED memory

Application ==
  /\ \E p \in Pages :
       \/ \E l \in Lines, v \in Values : Write(p, l, v)
       \/ Mmap(p) \/ Munmap(p) \/ Mprotect(p)
  /\ UNCHANGED <<alive, phase, maps, copy, at, diff_cl, taken, file, htable>>

(* kill -9 while the application is stopped.                               *)
Kill ==
  /\ alive /\ phase \in {"page", "line"}
  /\ alive' = FALSE
  /\ UNCHANGED <<memory, prot, phase, maps, copy, at, diff_cl, taken, file, htable>>

----------------------------------------------------------------------------
(* parse_maps_file keeps the readable and writable mappings.               *)
Writable == {p \in Pages : prot[p] = "rw"}

ParseMapsFile(list) == list \in Lists /\ Covered(list) = Writable

(* local_vaddr_start of the mapping j is not NULL.                         *)
HasCopy(j) == \E p \in PagesOf(maps[j]) : p \in DOMAIN copy

(* update_local_maps: module LocalMaps shows that it comes to this.  The   *)
(* first call gives every mapping a copy; later the mappings behind the    *)
(* end of the old list get none, and one that was in the old list keeps    *)
(* what it had.                                                            *)
GetsCopy(list, i) ==
  \/ taken = 0
  \/ /\ Reached(maps, list, i)
     /\ \A j \in DOMAIN maps : maps[j] = list[i] => HasCopy(j)

WithCopy(list) ==
  UNION {PagesOf(list[i]) : i \in {j \in DOMAIN list : GetsCopy(list, j)}}

(* Mutant: a page that has left the mappings keeps its copy.               *)
UpdateLocalMapsKeeps(list) ==
  [p \in WithCopy(list) \cup DOMAIN copy |->
     IF p \in DOMAIN copy THEN copy[p] ELSE CleanPage]

UpdateLocalMaps(list) ==
  [p \in WithCopy(list) |-> IF p \in DOMAIN copy THEN copy[p] ELSE CleanPage]

(* The merge copies from NULL: a mapping without copy has changed.         *)
Torn(list) ==
  /\ taken > 0
  /\ \E i \in DOMAIN list, j \in DOMAIN maps :
       /\ ~HasCopy(j) /\ maps[j] # list[i]
       /\ PagesOf(list[i]) \cap PagesOf(maps[j]) # {}

(* proc_trace: the next snapshot, up to the loop of find_dirty_data.       *)
BeginSnapshot ==
  /\ phase = "window" /\ alive
  /\ taken < MaxSnapshots
  /\ \E list \in Lists :
       /\ ParseMapsFile(list) /\ ~Torn(list)
       /\ maps' = list
       /\ copy' = UpdateLocalMaps(list)
  /\ HtableAddIter(taken)
  /\ taken' = taken + 1
  /\ at' = Start
  /\ diff_cl' = 0
  /\ phase' = "page"
  /\ UNCHANGED <<memory, prot, alive, file>>

UpdateCrash ==
  /\ phase = "window" /\ alive
  /\ taken < MaxSnapshots
  /\ \E list \in Lists : ParseMapsFile(list) /\ Torn(list)
  /\ phase' = "crashed"
  /\ UNCHANGED <<memory, prot, alive, maps, copy, at, diff_cl, taken, file, htable>>

InMappings == at.i \in DOMAIN maps
InMapping  == InMappings /\ at.size < Size(maps[at.i])
Page       == maps[at.i].lo + at.size

NextPage    == [i |-> at.i, size |-> at.size + 1, line |-> 0]
NextMapping == [i |-> at.i + 1, size |-> 0, line |-> 0]

(* Mutant: diff_cl goes on counting from page to page.                     *)
ReadPageNoReset ==
  /\ phase = "page" /\ InMapping /\ alive
  /\ Page \notin Unreadable
  /\ phase' = "line"
  /\ UNCHANGED <<memory, prot, alive, maps, copy, at, diff_cl, taken, file, htable>>

(* process_vm_readv returns a whole page.                                  *)
ReadPage ==
  /\ phase = "page" /\ InMapping /\ alive
  /\ Page \notin Unreadable
  /\ phase' = "line"
  /\ diff_cl' = 0
  /\ UNCHANGED <<memory, prot, alive, maps, copy, at, taken, file, htable>>

(* It fails: the page is skipped, or with ESRCH the rest of the mapping.   *)
ReadError ==
  /\ phase = "page" /\ InMapping
  /\ Page \in Unreadable \/ ~alive
  /\ at' = IF alive THEN NextPage ELSE NextMapping
  /\ UNCHANGED <<memory, prot, alive, phase, maps, copy, diff_cl, taken, file, htable>>

(* What the last snapshot had of a page.                                   *)
Held(p) == IF p \in DOMAIN copy THEN copy[p] ELSE CleanPage

(* memcmp of one cache line; in iteration 0 every line is dirty.           *)
Differs(p, l) == memory[p][l] # Held(p)[l] \/ htable.iter = 0

DiffLine ==
  /\ phase = "line" /\ at.line < LinesPerPage /\ Page \in DOMAIN copy
  /\ IF Differs(Page, at.line)
       THEN HtableAdd(Page * LinesPerPage + at.line) /\ diff_cl' = diff_cl + 1
       ELSE UNCHANGED <<htable, diff_cl>>
  /\ at' = [at EXCEPT !.line = @ + 1]
  /\ UNCHANGED <<memory, prot, alive, phase, maps, copy, taken, file>>

(* memcmp with address 0.                                                  *)
CompareCrash ==
  /\ phase = "line" /\ at.line < LinesPerPage /\ Page \notin DOMAIN copy
  /\ phase' = "crashed"
  /\ UNCHANGED <<memory, prot, alive, maps, copy, at, diff_cl, taken, file, htable>>

PageDone ==
  /\ phase = "line" /\ at.line = LinesPerPage
  /\ copy' = IF diff_cl > 0 THEN [copy EXCEPT ![Page] = memory[Page]] ELSE copy
  /\ at' = NextPage
  /\ phase' = "page"
  /\ UNCHANGED <<memory, prot, alive, maps, diff_cl, taken, file, htable>>

MappingDone ==
  /\ phase = "page" /\ InMappings /\ ~InMapping
  /\ at' = NextMapping
  /\ UNCHANGED <<memory, prot, alive, phase, maps, copy, diff_cl, taken, file, htable>>

(* htable_print: an empty table leaves no block in the file.               *)
HtablePrint ==
  file' = IF htable.rows = << >> THEN file ELSE Append(file, htable)

EndSnapshot ==
  /\ phase = "page" /\ ~InMappings
  /\ HtablePrint
  /\ phase' = "window"
  /\ UNCHANGED <<memory, prot, alive, maps, copy, at, diff_cl, taken, htable>>

FindDirtyData ==
  \/ ReadPage \/ ReadError \/ DiffLine \/ CompareCrash \/ PageDone
  \/ MappingDone \/ EndSnapshot

(* The end: the tracker or the application is gone, or the bound reached.  *)
Stopped ==
  /\ \/ phase = "crashed"
     \/ phase = "window" /\ (~alive \/ taken = MaxSnapshots)
  /\ UNCHANGED vars

Next ==
  \/ Application \/ Kill \/ BeginSnapshot \/ UpdateCrash \/ FindDirtyData
  \/ Stopped

Spec == Init /\ [][Next]_vars

----------------------------------------------------------------------------
(* The positions of the loops and the local copies belong to the mappings  *)
(* of this snapshot, and the count of dirty lines to the current page.     *)
TypeOK ==
  /\ memory \in [Pages -> [Lines -> Values]]
  /\ prot \in [Pages -> {"none", "r", "rw"}]
  /\ alive \in BOOLEAN
  /\ phase \in {"window", "page", "line", "crashed"}
  /\ maps \in Lists \cup {<< >>}
  /\ DOMAIN copy \subseteq Covered(maps)
  /\ copy \in [DOMAIN copy -> [Lines -> Values]]
  /\ at \in [i : Nat \ {0}, size : Nat, line : 0 .. LinesPerPage]
  /\ phase = "line" => InMapping
  /\ diff_cl \in 0 .. LinesPerPage
  /\ taken \in 0 .. MaxSnapshots
  /\ file \in Seq([iter : 0 .. MaxSnapshots - 1, rows : Seq(Row)])
  /\ HtableOK

(* htable_add compares with the last row only; the loops of                *)
(* find_dirty_data visit the pages in such an order that this is enough:   *)
(* no page has two rows in a block.                                        *)
OneRowPerPage ==
  \A a, b \in DOMAIN htable.rows :
    htable.rows[a].page = htable.rows[b].page => a = b

(* The comment of find_dirty_data calls it a safe optimization to look at  *)
(* writable mappings only: a page that was written since it was last       *)
(* copied, and is still mapped, is in a mapping that it looks at.          *)
NoWriteSkipped ==
  [][phase = "window" /\ phase' = "page" =>
       \A p \in DOMAIN copy :
         prot[p] # "none" /\ memory[p] # copy[p] => p \in Covered(maps')]_vars

(* Every mapping has a local copy.                                         *)
AllCopies == DOMAIN copy = Covered(maps)

(* The loop of update_local_maps ends with the old list.  As long as the   *)
(* highest mapping, the stack, ends no higher than before, this leaves no  *)
(* mapping without a local copy: only at a list whose end moves up does it *)
(* begin that the tracker is in danger of using address 0.                 *)
CopiesBelowEnd ==
  [][/\ phase = "window" /\ phase' = "page"
     /\ taken = 0 \/ (AllCopies /\ End(maps') <= End(maps))
     => AllCopies']_vars

----------------------------------------------------------------------------
(* The refinement of WriteSets.  A snapshot is taken there when it begins  *)
(* here: what find_dirty_data has still to find is already reported.       *)

Readable == Pages \ Unreadable

(* A snapshot is being taken, and the tracker is not about to compare a    *)
(* page with address 0.                                                    *)
Lost       == phase = "crashed" \/ (phase = "line" /\ Page \notin DOMAIN copy)
Collecting == phase # "window" /\ ~Lost

(* The page has been read and is being compared.                           *)
InHand(p) == phase = "line" /\ p = Page

(* The part of the mappings that the loops have not passed.                *)
Ahead(p, l) ==
  /\ InMappings /\ p \in Covered(maps)
  /\ p > Page \/ (p = Page /\ l >= at.line)
  /\ alive \/ InHand(p)

Pending == {c \in Readable \X Lines : Ahead(c[1], c[2]) /\ Differs(c[1], c[2])}

Block(n) == UNION {Cells(file[b].rows) : b \in {d \in DOMAIN file : file[d].iter = n}}

Reports ==
  [n \in 1 .. taken |->
    IF n = taken /\ Collecting THEN Cells(htable.rows) \cup Pending
                               ELSE Block(n - 1)]

Copied(p, l) ==
  IF Collecting /\ (alive \/ InHand(p)) THEN memory[p][l] ELSE Held(p)[l]

Promise == INSTANCE WriteSets WITH
  Pages    <- Readable,
  memory   <- [c \in Readable \X Lines |-> memory[c[1]][c[2]]],
  mapped   <- {p \in Readable : prot[p] # "none"},
  snapshot <- [c \in Readable \X Lines |-> Copied(c[1], c[2])],
  reports  <- Reports,
  alive    <- alive /\ ~Lost

(* The blocks of the dcl file are the write sets that KTracker promises.   *)
ReportsWriteSet == Promise!Spec


----------------------------------------------------------------------------
(* The inductive invariant behind TypeOK and OneRowPerPage.                *)

(* The loops stay inside the mappings, which are pages of the application, *)
(* the count of dirty lines below the line, the iteration below the bound; *)
(* only a page that has a copy is compared further than its first line.    *)
InLoops ==
  /\ Covered(maps) \subseteq Pages
  /\ InMappings => at.size <= Size(maps[at.i])
  /\ phase = "line" => diff_cl <= at.line
  /\ phase = "page" => at.line = 0
  /\ phase = "line" /\ at.line > 0 => Page \in DOMAIN copy
  /\ phase \in {"page", "line"} => htable.iter < MaxSnapshots

Typed == TypeOK /\ InLoops

Ascending ==
  \A a, b \in DOMAIN htable.rows :
    a < b => htable.rows[a].page < htable.rows[b].page

(* The rows are of pages that the loops have reached.                      *)
Behind ==
  \A a \in DOMAIN htable.rows :
    /\ phase = "line" => htable.rows[a].page <= Page
    /\ phase = "page" /\ InMappings => htable.rows[a].page < Page

IInv == Typed /\ Ascending /\ Behind
=============================================================================

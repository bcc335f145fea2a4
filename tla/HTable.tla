------------------------------- MODULE HTable -------------------------------
(***************************************************************************)
(* src/htable.c: the table of the dirty cache lines of one iteration.      *)
(* tble[0], tble[1] hold the iteration and the number of rows, and row r   *)
(* is tble[2r], tble[2r+1]: a page address and the bitmap of its dirty     *)
(* cache lines, here the set of their indices.  Rows behind the count are  *)
(* leftovers that nothing reads.  An address is the number of a cache line.*)
(***************************************************************************)
EXTENDS Naturals, Sequences

CONSTANTS
  TableSize,     (* TABLE_SIZE: the rows that htable_init allocates        *)
  LinesPerPage   (* PAGE_SIZE / CL_SIZE                                    *)

ASSUME TableAssumption ==
  /\ TableSize \in Nat
  /\ LinesPerPage \in Nat \ {0}

VARIABLE htable

Lines == 0 .. LinesPerPage - 1
Row   == [page : Nat, bits : SUBSET Lines]

(* Never more rows than were allocated, and no empty row.                  *)
HtableOK ==
  /\ htable \in [iter : Nat, rows : Seq(Row)]
  /\ Len(htable.rows) <= TableSize
  /\ \A r \in DOMAIN htable.rows : htable.rows[r].bits # {}

HtableInit == htable = [iter |-> 0, rows |-> << >>]

(* htable_add_iter.                                                        *)
HtableAddIter(iter) == htable' = [iter |-> iter, rows |-> << >>]

PageOf(vaddr) == vaddr \div LinesPerPage
LineOf(vaddr) == vaddr % LinesPerPage

(* Mutant: every cache line gets a row of its own.                         *)
IsLastRowNever(rows, page) == FALSE

IsLastRow(rows, page) == rows # << >> /\ rows[Len(rows)].page = page

(* htable_add: only the row added last is looked at.  A full table drops   *)
(* the line.                                                               *)
HtableAdd(vaddr) ==
  LET rows == htable.rows
      page == PageOf(vaddr)
      line == LineOf(vaddr)
      added == [page |-> page, bits |-> {line}]
  IN  htable' = [htable EXCEPT !.rows =
        IF IsLastRow(rows, page)
          THEN [rows EXCEPT ![Len(rows)].bits = @ \cup {line}]
        ELSE IF Len(rows) + 1 >= TableSize + 1 THEN rows
        ELSE Append(rows, added)]

(* The cache lines of a block of rows.                                     *)
Cells(rows) ==
  UNION {{rows[r].page} \X rows[r].bits : r \in DOMAIN rows}
=============================================================================

----------------------------- MODULE WriteSets -----------------------------
(***************************************************************************)
(* What KTracker promises: "an application's cache-line granularity write  *)
(* set in fixed time windows", found "by comparing snapshots" of its       *)
(* memory (README.md).  Each snapshot reports the cells, cache lines of    *)
(* mapped pages, that differ from the snapshot before; the first one       *)
(* reports all of them.  A page that is not mapped counts as a page of     *)
(* zeros.                                                                  *)
(***************************************************************************)
EXTENDS Naturals, Sequences

CONSTANTS
  Pages,    (* the pages of the address space                              *)
  Lines,    (* the cache lines of a page                                   *)
  Values,   (* what a cache line can hold                                  *)
  Clean     (* a cache line of zeros                                       *)

VARIABLES
  memory,     (* the memory of the application                             *)
  mapped,     (* its mapped pages                                          *)
  snapshot,   (* the memory at the last snapshot                           *)
  reports,    (* the write set of each window, the first snapshot first    *)
  alive       (* neither the application nor the tracker has been killed   *)

Cell == Pages \X Lines

Memories == [Cell -> Values]

IsMemory(m, pages) ==
  m \in Memories /\ \A c \in Cell : c[1] \notin pages => m[c] = Clean

Init ==
  /\ mapped \in SUBSET Pages
  /\ IsMemory(memory, mapped)
  /\ snapshot = [c \in Cell |-> Clean]
  /\ reports = << >>
  /\ alive = TRUE

(* The application writes, maps and unmaps.                                *)
Change ==
  /\ alive
  /\ mapped' \in SUBSET Pages
  /\ IsMemory(memory', mapped')
  /\ UNCHANGED <<snapshot, reports, alive>>

Dirty == {c \in mapped \X Lines : memory[c] # snapshot[c]}

Take ==
  /\ alive
  /\ reports' = Append(reports, IF reports = << >> THEN mapped \X Lines ELSE Dirty)
  /\ snapshot' = memory
  /\ UNCHANGED <<memory, mapped, alive>>

(* The application or the tracker is killed: the write set of the last     *)
(* window may be incomplete, and there is no snapshot to come.             *)
Die ==
  /\ alive
  /\ alive' = FALSE
  /\ \/ UNCHANGED reports
     \/ /\ reports # << >>
        /\ \E lost \in SUBSET reports[Len(reports)] :
             reports' = [reports EXCEPT ![Len(reports)] = @ \ lost]
  /\ UNCHANGED <<memory, mapped>>

Next == Change \/ Take \/ Die

Spec == Init /\ [][Next]_<<memory, mapped, snapshot, reports, alive>>
=============================================================================

----------------------------- MODULE WriteWindow -----------------------------
(***************************************************************************)
(* What the whole program promises of each window: it "tracks an           *)
(* application's write set [...] by comparing snapshots" (README.md).  A   *)
(* snapshot is the memory of one moment, though the tracker reads it page  *)
(* after page from an application whose threads run, are created and are   *)
(* killed; the report of a window is what changed from one such moment to  *)
(* the next.  WriteSets keeps the reports of all windows and knows of      *)
(* lines and mappings, but not of threads.                                 *)
(***************************************************************************)

CONSTANTS
  Pages,    (* the pages of the application                                *)
  Values,   (* what a page can hold                                        *)
  Clean     (* a page of zeros                                             *)

VARIABLES
  memory,     (* the memory of the application                             *)
  snapshot,   (* the memory at the last snapshot                           *)
  report,     (* the write set of the last window                          *)
  begun,      (* there has been a snapshot                                 *)
  alive       (* the memory of the application can be read                 *)

Memories == [Pages -> Values]

Init ==
  /\ memory \in Memories
  /\ snapshot = [p \in Pages |-> Clean]
  /\ report = {}
  /\ begun = FALSE
  /\ alive = TRUE

(* The application writes, or executes another program.                    *)
Change ==
  /\ alive
  /\ memory' \in Memories
  /\ UNCHANGED <<snapshot, report, begun, alive>>

(* The first snapshot reports every page.                                  *)
Take ==
  /\ alive
  /\ report' = {p \in Pages : begun => memory[p] # snapshot[p]}
  /\ snapshot' = memory
  /\ begun' = TRUE
  /\ UNCHANGED <<memory, alive>>

(* The memory is gone: the report may be incomplete, and it is the last.   *)
Lose ==
  /\ alive' = FALSE
  /\ memory' \in Memories
  /\ snapshot' \in Memories
  /\ report' \in SUBSET report
  /\ begun' \in {begun, TRUE}

Next == Change \/ Take \/ Lose

Spec == Init /\ [][Next]_<<memory, snapshot, report, begun, alive>>
=============================================================================

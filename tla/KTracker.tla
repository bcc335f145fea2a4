------------------------------ MODULE KTracker ------------------------------
(***************************************************************************)
(* The whole program on one application: the control of Tracker, the       *)
(* timers around it, and the memory that the threads of the application    *)
(* write and the tracker reads through the pid of the leader, page by page *)
(* (module WriteSet has the details of the reading: lines, mappings, the   *)
(* table).  Every mapping is writable and stays.                           *)
(***************************************************************************)
EXTENDS Tracker, Timers

CONSTANTS
  Pages,     (* the application's memory is 1 .. Pages                     *)
  Values,    (* what a page can hold                                       *)
  Clean      (* a page of zeros                                            *)

ASSUME KTrackerAssumption ==
  /\ Pages \in Nat \ {0}
  /\ Clean \in Values

VARIABLES
  memory,    (* the application's pages                                    *)
  copy,      (* the tracker's local copy of them                           *)
  page,      (* the loop of find_dirty_data: the page to read next         *)
  dirty,     (* the pages with dirty lines in htable                       *)
  written    (* history: the pages written since the last snapshot         *)

memvars == <<memory, copy, page, dirty, written>>
kkvars  == <<vars, started, memvars>>

Memories == [1 .. Pages -> Values]

(* A snapshot is being taken.                                              *)
Reading == pc \in {"work0", "work"}

KInit ==
  /\ Init
  /\ TimersInit
  /\ memory \in Memories
  /\ copy = [p \in 1 .. Pages |-> Clean]
  /\ page = 1
  /\ dirty = {}
  /\ written = 1 .. Pages

----------------------------------------------------------------------------
(* The application's threads, and a new program's memory after execve.     *)

Write(t, p, v) ==
  /\ pc \notin Ended
  /\ Active(t) /\ launched /\ t \notin forked
  /\ memory' = [memory EXCEPT ![p] = v]
  /\ written' = written \cup {p}
  /\ UNCHANGED <<vars, started, copy, page, dirty>>

NewImage ==
  /\ memory' \in Memories
  /\ written' = 1 .. Pages
  /\ UNCHANGED <<copy, page, dirty>>

Application ==
  \/ \E t \in Threads, p \in 1 .. Pages, v \in Values : Write(t, p, v)
  \/ /\ Environment
     /\ IF Exec THEN NewImage ELSE UNCHANGED memvars
     /\ UNCHANGED started

----------------------------------------------------------------------------
(* find_dirty_data.  The leader that has exited is still a pid, but one    *)
(* without memory: /proc/pid/maps is empty, process_vm_readv fails.        *)
HasMemory == state[Leader] \notin {"zombie", "reaped"}

(* Mutant: the table keeps the rows of the last snapshot.                  *)
BeginSnapshotStale ==
  /\ page' = 1
  /\ UNCHANGED <<memory, copy, dirty, written>>

(* htable_add_iter empties the table.                                      *)
BeginSnapshot ==
  /\ page' = 1
  /\ dirty' = {}
  /\ UNCHANGED <<memory, copy, written>>

(* Mutant: iteration 0 compares with the copy of zeros, too.               *)
ReadPageCompared ==
  /\ Reading /\ page <= Pages /\ HasMemory
  /\ IF memory[page] # copy[page]
       THEN /\ dirty' = dirty \cup {page}
            /\ copy' = [copy EXCEPT ![page] = memory[page]]
       ELSE UNCHANGED <<dirty, copy>>
  /\ page' = page + 1
  /\ UNCHANGED <<vars, started, memory, written>>

ReadPage ==
  /\ Reading /\ page <= Pages /\ HasMemory
  /\ IF memory[page] # copy[page] \/ pc = "work0"
       THEN /\ dirty' = dirty \cup {page}
            /\ copy' = [copy EXCEPT ![page] = memory[page]]
       ELSE UNCHANGED <<dirty, copy>>
  /\ page' = page + 1
  /\ UNCHANGED <<vars, started, memory, written>>

(* Mutant: the size is advanced behind the break, too.                     *)
ReadNothingSkips ==
  /\ Reading /\ page <= Pages /\ ~HasMemory
  /\ page' = page + 2
  /\ UNCHANGED <<vars, started, memory, copy, dirty, written>>

(* It breaks the loop.                                                     *)
ReadNothing ==
  /\ Reading /\ page <= Pages /\ ~HasMemory
  /\ page' = Pages + 1
  /\ UNCHANGED <<vars, started, memory, copy, dirty, written>>

----------------------------------------------------------------------------
(* The steps of Tracker with their timers and snapshots.                   *)

(* Mutant: the first pause is not timed.                                   *)
GetTidsNoTimer ==
  /\ GetTids
  /\ UNCHANGED <<started, memvars>>

(* timer_paused_start of proc_seize_and_pause.                             *)
GetTidsTimed ==
  /\ GetTids
  /\ TimerStart("paused")
  /\ UNCHANGED memvars

FirstSnapshotBegins ==
  /\ SeizeDone
  /\ BeginSnapshot
  /\ UNCHANGED started

SnapshotTaken ==
  /\ page > Pages
  /\ FirstSnapshot \/ Snapshot
  /\ UNCHANGED <<started, memvars>>

(* write_protect_pages writes to clear_refs, which neither stops the       *)
(* application nor changes its data.                                       *)
WriteProtectPages == UNCHANGED <<memory, copy, page, dirty>>

(* Mutant: the application's timer is not started.                         *)
LoopNoTimer ==
  /\ Loop
  /\ UNCHANGED started
  /\ written' = IF stop THEN written ELSE {}
  /\ WriteProtectPages

(* The call of proc_resume_all, up to its loop.                            *)
LoopTimed ==
  /\ Loop
  /\ IF stop THEN UNCHANGED <<started, written>>
             ELSE TimerStart("app") /\ written' = {}
  /\ WriteProtectPages

ResumeDoneTimed ==
  /\ ResumeDone
  /\ TimerStop("paused")
  /\ UNCHANGED memvars

(* proc_pause_all: timer_paused_start behind its proc_check_status(0).     *)
CheckDoneTimed ==
  /\ CheckDone
  /\ IF pc = "drain" THEN TimerStart("paused") ELSE UNCHANGED started
  /\ UNCHANGED memvars

PauseDoneTimed ==
  /\ PauseDone
  /\ TimerStop("app")
  /\ IF pc' = "work" THEN BeginSnapshot ELSE UNCHANGED memvars

(* The steps of the tracker without a timer or a snapshot.                 *)
Handle ==
  \/ \E t \in Threads : OnExited(t) \/ OnExitEvent(t) \/ OnForkEvent(t)
       \/ OnExecEvent(t) \/ OnCloneOrSignal(t) \/ OnNewThread(t) \/ OnPaused(t)
  \/ NoChild

Control ==
  /\ \/ SeizeLeader \/ SeizeNext \/ SeizedPause \/ Handle
     \/ ResumeNext \/ Wake \/ PauseNext
     \/ SigInt \/ SigIntInWait \/ Terminated
  /\ UNCHANGED <<started, memvars>>

KNext ==
  \/ Application
  \/ ReadPage \/ ReadNothing
  \/ GetTidsTimed \/ FirstSnapshotBegins \/ SnapshotTaken \/ LoopTimed
  \/ ResumeDoneTimed \/ CheckDoneTimed \/ PauseDoneTimed
  \/ Control

KSpec == KInit /\ [][KNext]_kkvars

----------------------------------------------------------------------------
(* Every variable has a value of its kind; only pages of the application   *)
(* are reported.                                                           *)
KTypeOK ==
  /\ started \subseteq TimerNames
  /\ memory \in Memories
  /\ copy \in Memories
  /\ page \in 1 .. Pages + 1
  /\ dirty \subseteq 1 .. Pages
  /\ written \subseteq 1 .. Pages

(* The application goes on: one of its threads has not begun to exit.      *)
GoesOn ==
  \E t \in Threads \ forked :
    /\ state[t] \notin Leaving \cup {"unborn"}
    /\ ~Doomed(t)

(* When the application is about to be resumed, the local copy is its      *)
(* memory, whatever its threads did during the pause: each write is in     *)
(* the snapshot just taken or comes after the resume, and is never lost    *)
(* between two of them.                                                    *)
SnapshotCurrent == pc = "loop" /\ GoesOn => copy = memory

(* No page is reported that was not written in the window just closed.     *)
ReportsAreWrites == Reading => dirty \subseteq written

(* App_time covers the execution: from the first resume on, no thread runs *)
(* the application's code while the application's timer stands still.      *)
ExecutionTimed ==
  pc \notin Startup \cup Ended /\ (\E t \in Threads : Active(t)) =>
    "app" \in started

(* Paused_time has each pause from its first interrupt to the last resume  *)
(* and nothing of the window, App_time nothing of the snapshot; no timer   *)
(* is stopped that was not started, or started twice.                      *)
TimesApart ==
  /\ pc \in {"seize", "gettids"} => started = {}
  /\ pc \in {"sp", "spPause", "spWait", "work0", "loop", "work"} => started = {"paused"}
  /\ pc \in {"sleep", "drain"} => started = {"app"}
  /\ pc \in {"resume", "pa", "paWait"} => started = TimerNames
----------------------------------------------------------------------------
(* The refinement of WriteWindow, for an application that the tracker has  *)
(* started.  A snapshot is taken there when it begins here: the pages that *)
(* find_dirty_data has still to find are already reported.                 *)

Pending ==
  {p \in page .. Pages :
     Reading /\ HasMemory /\ (memory[p] # copy[p] \/ pc = "work0")}

Window == INSTANCE WriteWindow WITH
  Pages    <- 1 .. Pages,
  snapshot <- IF Reading /\ HasMemory THEN memory ELSE copy,
  report   <- dirty \cup Pending,
  begun    <- Reading \/ page > 1,
  alive    <- HasMemory

(* Each report is the difference of the memory at two moments: what the    *)
(* tracker reads page by page, while threads are born, stop, exit and are  *)
(* killed around it, is the memory at the moment the pause was complete.   *)
ReportsWindow == Window!Spec

----------------------------------------------------------------------------
(* The inductive invariant behind SnapshotCurrent and ReportsAreWrites,    *)
(* for an application that the tracker has started (Seized, Tracker).      *)

(* What has been read in this pause is up to date.                         *)
CopyCurrent ==
  HasMemory =>
    /\ Reading => \A p \in 1 .. page - 1 : copy[p] = memory[p]
    /\ pc = "loop" => copy = memory

(* A page that is not up to date has been written since the last snapshot; *)
(* before the first one every page counts as written.                      *)
Accounted ==
  /\ HasMemory => \A p \in 1 .. Pages : copy[p] # memory[p] => p \in written
  /\ pc \in Startup => written = 1 .. Pages

MemoryInv == CopyCurrent /\ Accounted /\ ReportsAreWrites

(* The leader begins to exit as the last thread, or with all the others,   *)
(* unless it can leave before them.                                        *)
LeaderStays == "leaderexit" \notin Ops

LeaderLast == GoesOn => state[Leader] \notin Leaving
=============================================================================

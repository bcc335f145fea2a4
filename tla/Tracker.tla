------------------------------ MODULE Tracker ------------------------------
(***************************************************************************)
(* The tracker process: main and proc_trace of src/tracker.c and the       *)
(* proc_* functions of src/common.c that stop and resume the application.  *)
(* One action is one turn of a loop: one waitpid with the handling of what *)
(* it returned, one PTRACE_INTERRUPT, one PTRACE_CONT.  Between two        *)
(* actions the application and the kernel take steps of their own.         *)
(***************************************************************************)
EXTENDS Tracees, Sequences

CONSTANT NoPid   (* the pid 0: an erased table entry, "no thread awaited"  *)

ASSUME NoPidAssumption == NoPid \notin Threads

VARIABLES
  pc,         (* where the tracker is                                      *)
  idx,        (* the loop variable i of the proc_*_all functions           *)
  tid,        (* the table tid[0 .. tids-1]                                *)
  ntids,      (* the tids argument of proc_seize_and_pause                 *)
  waitfor,    (* the pid that proc_check_status awaits, NoPid for -1       *)
  paused,     (* r of proc_pause_all                                       *)
  stop,       (* _stop_requested                                           *)
  failed      (* the assertion that ended the tracker                      *)

kvars == <<pc, idx, tid, ntids, waitfor, paused, stop, failed>>
vars  == <<tvars, kvars>>

(* The tracker inside proc_check_status, by call site.                     *)
Waiting == {"spWait", "drain", "paWait"}
Startup == {"seize", "gettids", "sp", "spPause", "spWait", "work0"}
Ended   == {"finished", "aborted"}
PCs     == Startup \cup Waiting \cup Ended
             \cup {"loop", "resume", "sleep", "pa", "work"}
Asserts == {"no", "seize", "eintr", "echild", "stray"}

(* Every variable has a value of its kind.                                 *)
TypeOK ==
  /\ TraceesTypeOK
  /\ pc      \in PCs
  /\ idx     \in Nat \ {0}
  /\ tid     \in Seq(Threads \cup {NoPid})
  /\ ntids   \in Nat
  /\ waitfor \in Threads \cup {NoPid}
  /\ paused  \in BOOLEAN
  /\ stop    \in BOOLEAN
  /\ failed  \in Asserts

Init ==
  /\ TraceesInit
  /\ pc = "seize"
  /\ idx = 1
  /\ tid = << >>
  /\ ntids = 0
  /\ waitfor = NoPid
  /\ paused = FALSE
  /\ stop = FALSE
  /\ failed = "no"

Known == {tid[i] : i \in DOMAIN tid} \ {NoPid}

Goto(label, i) == pc' = label /\ idx' = i

(* assert(0), or an assert that does not hold: the tracker is gone.        *)
Abort(assertion) ==
  /\ pc' = "aborted"
  /\ failed' = assertion
  /\ UNCHANGED <<idx, tid, ntids, waitfor, paused, stop>>

----------------------------------------------------------------------------
(* main: proc_seize(pid), get_tids.                                        *)

SeizeLeader ==
  /\ pc = "seize"
  /\ Seize(Leader)
  /\ Goto("gettids", 1)
  /\ UNCHANGED <<tid, ntids, waitfor, paused, stop, failed>>

(* /proc/pid/task lists the living threads, the leader first.              *)
GetTids ==
  /\ pc = "gettids"
  /\ \E n \in 1..Cardinality(Threads) :
       \E list \in [1..n -> {t \in Threads : state[t] \notin Absent}] :
         /\ list[1] = Leader
         /\ \A t \in Threads : state[t] \notin Absent =>
              \E i \in 1..n : list[i] = t
         /\ \A i, j \in 1..n : list[i] = list[j] => i = j
         /\ tid' = list
         /\ ntids' = n
  /\ Goto("sp", 1)
  /\ UNCHANGED tvars
  /\ UNCHANGED <<waitfor, paused, stop, failed>>

----------------------------------------------------------------------------

(* proc_pause: interrupt a thread and wait for it in proc_check_status.    *)
ProcPause(t, wait, next) ==
  IF CanInterrupt(t)
    THEN /\ Interrupt(t)
         /\ waitfor' = t
         /\ Goto(wait, idx)
    ELSE /\ Goto(next, idx + 1)
         /\ UNCHANGED <<tvars, waitfor>>

(* proc_seize_and_pause, whose bound is the number of threads at its call. *)
SeizeNext ==
  /\ pc = "sp"
  /\ idx <= ntids
  /\ IF tid[idx] = Leader
       THEN Goto("spPause", idx) /\ UNCHANGED <<tvars, tid, ntids, waitfor, paused, stop, failed>>
       ELSE IF tid[idx] # NoPid /\ CanSeize(tid[idx])
         THEN Seize(tid[idx]) /\ Goto("spPause", idx)
              /\ UNCHANGED <<tid, ntids, waitfor, paused, stop, failed>>
         ELSE Abort("seize") /\ UNCHANGED tvars

SeizedPause ==
  /\ pc = "spPause"
  /\ ProcPause(tid[idx], "spWait", "sp")
  /\ UNCHANGED <<tid, ntids, paused, stop, failed>>

(* Mutant: the last thread of the list is not paused.                      *)
SeizeDoneEarly ==
  /\ pc = "sp"
  /\ idx >= ntids
  /\ Goto("work0", 1)
  /\ UNCHANGED <<tvars, tid, ntids, waitfor, paused, stop, failed>>

SeizeDone ==
  /\ pc = "sp"
  /\ idx > ntids
  /\ Goto("work0", 1)
  /\ UNCHANGED <<tvars, tid, ntids, waitfor, paused, stop, failed>>

----------------------------------------------------------------------------
(* proc_check_status: what it does with one result of waitpid.             *)

Awaited(t) == pc \in Waiting /\ waitfor \in {t, NoPid} /\ Reportable(t)

(* proc_mark_exited, proc_is_new and "if (curpid == pid) pid = 0".         *)
MarkExited(t) == [i \in DOMAIN tid |-> IF tid[i] = t THEN NoPid ELSE tid[i]]

(* Mutant: every thread that reports PTRACE_EVENT_STOP is taken for new.   *)
ProcIsNewAlways(t) == TRUE

ProcIsNew(t)  == t \notin Known
DoneWith(t)   == IF waitfor = t THEN NoPid ELSE waitfor

(* Mutant: "if (curpid == pid) pid = 0" is forgotten.                      *)
OnExitedStillAwaited(t) ==
  /\ Awaited(t) /\ state[t] = "zombie"
  /\ Reap(t)
  /\ tid' = MarkExited(t)
  /\ UNCHANGED <<pc, idx, ntids, waitfor, paused, stop, failed>>

OnExited(t) ==
  /\ Awaited(t) /\ state[t] = "zombie"
  /\ Reap(t)
  /\ tid' = MarkExited(t)
  /\ waitfor' = DoneWith(t)
  /\ UNCHANGED <<pc, idx, ntids, paused, stop, failed>>

(* Mutant: the exiting thread is crossed out and not continued.            *)
OnExitEventNoResume(t) ==
  /\ Awaited(t) /\ state[t] = "exit"
  /\ tid' = MarkExited(t)
  /\ Notice(t)
  /\ UNCHANGED <<pc, idx, ntids, waitfor, paused, stop, failed>>

OnExitEvent(t) ==
  /\ Awaited(t) /\ state[t] = "exit"
  /\ tid' = MarkExited(t)
  /\ Cont(t)
  /\ UNCHANGED <<pc, idx, ntids, waitfor, paused, stop, failed>>

(* The fork event is printed and nothing else.                             *)
OnForkEvent(t) ==
  /\ Awaited(t) /\ state[t] = "fork"
  /\ Notice(t)
  /\ UNCHANGED kvars

(* Mutant: a thread that execs while it is being paused is continued.      *)
OnExecEventResume(t) ==
  /\ Awaited(t) /\ state[t] = "exec"
  /\ Cont(t)
  /\ waitfor' = DoneWith(t)
  /\ UNCHANGED <<pc, idx, tid, ntids, paused, stop, failed>>

OnExecEvent(t) ==
  /\ Awaited(t) /\ state[t] = "exec"
  /\ IF waitfor = t THEN Notice(t) ELSE Cont(t)
  /\ waitfor' = DoneWith(t)
  /\ UNCHANGED <<pc, idx, tid, ntids, paused, stop, failed>>

(* Mutant: like a fork, a clone or a signal is only printed.               *)
OnCloneOrSignalNoResume(t) ==
  /\ Awaited(t) /\ state[t] \in {"clone", "signal"}
  /\ Notice(t)
  /\ UNCHANGED kvars

OnCloneOrSignal(t) ==
  /\ Awaited(t) /\ state[t] \in {"clone", "signal"}
  /\ Cont(t)
  /\ UNCHANGED kvars

(* Mutant: the new thread runs, but add_tid is not called.                 *)
OnNewThreadNotAdded(t) ==
  /\ Awaited(t) /\ state[t] = "stop" /\ ProcIsNew(t)
  /\ Cont(t)
  /\ UNCHANGED kvars

(* Mutant: the new thread is added and left in its stop.                   *)
OnNewThreadNoResume(t) ==
  /\ Awaited(t) /\ state[t] = "stop" /\ ProcIsNew(t)
  /\ tid' = Append(tid, t)
  /\ Notice(t)
  /\ UNCHANGED <<pc, idx, ntids, waitfor, paused, stop, failed>>

OnNewThread(t) ==
  /\ Awaited(t) /\ state[t] = "stop" /\ ProcIsNew(t)
  /\ tid' = Append(tid, t)
  /\ Cont(t)
  /\ UNCHANGED <<pc, idx, ntids, waitfor, paused, stop, failed>>

OnPaused(t) ==
  /\ Awaited(t) /\ state[t] = "stop" /\ ~ProcIsNew(t)
  /\ Notice(t)
  /\ IF waitfor = t
       THEN /\ waitfor' = NoPid
            /\ UNCHANGED <<pc, idx, tid, ntids, paused, stop, failed>>
       ELSE Abort("stray")

(* Mutant: waitpid(pid) too is called with WNOHANG.                        *)
NothingToReportNoHang ==
  /\ pc \in Waiting
  /\ Children # {}
  /\ \A t \in Threads : ~Reportable(t)

(* Nothing to report: waitpid(-1, WNOHANG) returns 0 and proc_check_status *)
(* returns to proc_seize_and_pause, proc_pause_all or proc_pause.          *)
NothingToReport ==
  /\ pc \in Waiting /\ waitfor = NoPid
  /\ Children # {}
  /\ \A t \in Threads : ~Reportable(t)

CheckDone ==
  /\ NothingToReport
  /\ \/ pc = "spWait" /\ Goto("sp", idx + 1) /\ UNCHANGED paused
     \/ pc = "drain"  /\ Goto("pa", 1)       /\ paused' = FALSE
     \/ pc = "paWait" /\ Goto("pa", idx + 1) /\ paused' = TRUE
  /\ UNCHANGED <<tvars, tid, ntids, waitfor, stop, failed>>

(* Mutant: without the assertion the loop polls for ever.                  *)
NoChildPolls ==
  /\ pc \in Waiting /\ waitfor = NoPid
  /\ Children = {}
  /\ UNCHANGED vars

(* waitpid returns -1: no child is left.                                   *)
NoChild ==
  /\ pc \in Waiting /\ waitfor = NoPid
  /\ Children = {}
  /\ Abort("echild")
  /\ UNCHANGED tvars

CheckStatus ==
  \/ \E t \in Threads : OnExited(t) \/ OnExitEvent(t) \/ OnForkEvent(t)
       \/ OnExecEvent(t) \/ OnCloneOrSignal(t) \/ OnNewThread(t) \/ OnPaused(t)
  \/ CheckDone
  \/ NoChild

----------------------------------------------------------------------------
(* proc_trace: the main loop.                                              *)

(* The first parse_maps_file, update_local_maps and find_dirty_data.       *)
FirstSnapshot ==
  /\ pc = "work0"
  /\ Goto("loop", 1)
  /\ UNCHANGED <<tvars, tid, ntids, waitfor, paused, stop, failed>>

(* Mutant: the loop of proc_resume_all starts one entry early.             *)
LoopOffByOne ==
  /\ pc = "loop"
  /\ Goto(IF stop THEN "finished" ELSE "resume", 0)
  /\ UNCHANGED <<tvars, tid, ntids, waitfor, paused, stop, failed>>

Loop ==
  /\ pc = "loop"
  /\ Goto(IF stop THEN "finished" ELSE "resume", 1)
  /\ UNCHANGED <<tvars, tid, ntids, waitfor, paused, stop, failed>>

(* proc_resume_all.                                                        *)
ResumeNext ==
  /\ pc = "resume"
  /\ idx <= Len(tid)
  /\ IF tid[idx] # NoPid THEN Cont(tid[idx]) ELSE UNCHANGED tvars
  /\ Goto("resume", idx + 1)
  /\ UNCHANGED <<tid, ntids, waitfor, paused, stop, failed>>

(* Mutant: the last entry of the table is not resumed.                     *)
ResumeDoneEarly ==
  /\ pc = "resume"
  /\ idx >= Len(tid)
  /\ Goto("sleep", 1)
  /\ UNCHANGED <<tvars, tid, ntids, waitfor, paused, stop, failed>>

ResumeDone ==
  /\ pc = "resume"
  /\ idx > Len(tid)
  /\ Goto("sleep", 1)
  /\ UNCHANGED <<tvars, tid, ntids, waitfor, paused, stop, failed>>

(* The end of sleep(SLEEP_TIME), and the call of proc_pause_all, which     *)
(* begins with proc_check_status(0).                                       *)
Wake ==
  /\ pc = "sleep"
  /\ Goto(IF stop THEN "finished" ELSE "drain", 1)
  /\ UNCHANGED <<tvars, tid, ntids, waitfor, paused, stop, failed>>

PauseNext ==
  /\ pc = "pa"
  /\ idx <= Len(tid)
  /\ IF tid[idx] = NoPid
       THEN Goto("pa", idx + 1) /\ UNCHANGED <<tvars, waitfor>>
       ELSE ProcPause(tid[idx], "paWait", "pa")
  /\ UNCHANGED <<tid, ntids, paused, stop, failed>>

(* Mutant: the bound is the argument loc_tids, not the growing tids.       *)
PauseDoneAtCall ==
  /\ pc = "pa"
  /\ idx > ntids
  /\ Goto(IF ~paused \/ stop THEN "finished" ELSE "work", 1)
  /\ UNCHANGED <<tvars, tid, ntids, waitfor, paused, stop, failed>>

PauseDone ==
  /\ pc = "pa"
  /\ idx > Len(tid)
  /\ Goto(IF ~paused \/ stop THEN "finished" ELSE "work", 1)
  /\ UNCHANGED <<tvars, tid, ntids, waitfor, paused, stop, failed>>

Snapshot ==
  /\ pc = "work"
  /\ Goto("loop", 1)
  /\ UNCHANGED <<tvars, tid, ntids, waitfor, paused, stop, failed>>

----------------------------------------------------------------------------
(* sigint_handler.  The handler is installed without SA_RESTART, so a      *)
(* signal that arrives while waitpid(pid) sleeps makes it return -1.       *)

SigInt ==
  /\ pc \notin Ended
  /\ stop' = TRUE
  /\ UNCHANGED <<tvars, pc, idx, tid, ntids, waitfor, paused, failed>>

SigIntInWait ==
  /\ pc \in Waiting /\ waitfor # NoPid
  /\ ~Reportable(waitfor)
  /\ stop' = TRUE
  /\ pc' = "aborted"
  /\ failed' = "eintr"
  /\ UNCHANGED <<tvars, idx, tid, ntids, waitfor, paused>>

Tracker ==
  \/ SeizeLeader \/ GetTids \/ SeizeNext \/ SeizedPause \/ SeizeDone
  \/ CheckStatus
  \/ FirstSnapshot \/ Loop \/ ResumeNext \/ ResumeDone
  \/ Wake \/ PauseNext \/ PauseDone \/ Snapshot

(* The model follows the application for as long as the tracker lives.     *)
Environment ==
  /\ pc \notin Ended
  /\ App \/ \E t \in Threads : Kernel(t)
  /\ UNCHANGED kvars

Terminated == pc \in Ended /\ UNCHANGED vars

Next == Tracker \/ Environment \/ SigInt \/ SigIntInWait \/ Terminated

Spec == Init /\ [][Next]_vars

(* The tracker is one sequential process that is always scheduled, and the *)
(* kernel delivers the traps and the deaths it owes.  Nothing is assumed   *)
(* of the application, which may compute for ever.                         *)
FairSpec ==
  /\ Spec
  /\ WF_vars(Tracker)
  /\ \A t \in Threads : WF_vars(pc \notin Ended /\ Kernel(t) /\ UNCHANGED kvars)

----------------------------------------------------------------------------
(* Safety.                                                                 *)

(* The thread executes the application's code.                             *)
Active(t) == state[t] = "running" /\ ~Doomed(t)

(* find_dirty_data and parse_maps_file of the main loop read the memory of *)
(* a stopped application: no thread the tracker traces runs meanwhile.     *)
TracedStopped == pc = "work" => \A t \in Threads : traced[t] => ~Active(t)

(* The same for every thread of an application the tracker started.        *)
WorldStopped ==
  Parent /\ "early" \notin Ops /\ pc = "work" =>
    \A t \in Threads : ~Active(t)

(* While the tracker sleeps, every traced thread that can run is in the    *)
(* table, so that the next proc_pause_all reaches it.                      *)
Adopted ==
  pc = "sleep" => \A t \in Threads : traced[t] /\ Active(t) => t \in Known

(* proc_resume_all leaves nobody behind: when the tracker goes to sleep no *)
(* thread remains in a stop that waitpid has already returned.             *)
NoForgottenStop == pc = "sleep" => \A t \in Threads : ~(state[t] \in Stops /\ seen[t])

(* The thread t will be returned by waitpid(t) without any other thread    *)
(* being served first.                                                     *)
WillAnswer(t) ==
  \/ state[t] \in Stops /\ ~seen[t]
  \/ state[t] = "starting"
  \/ state[t] = "running" /\ (intr[t] \/ Doomed(t))
  \/ state[t] \in Stops \ {"exit"} /\ Doomed(t)
  \/ state[t] \in {"dying", "zombie"} /\ (t = Leader => Alone(t))

(* A blocking waitpid(pid, &status, 0) can be answered: the tracker and    *)
(* the application never wait for each other.                              *)
Answerable == pc \in Waiting /\ waitfor # NoPid => WillAnswer(waitfor)

(* A living thread is in the table at most once, so that one resume and    *)
(* one pause reach it.                                                     *)
TableInjective ==
  \A i, j \in DOMAIN tid : tid[i] = tid[j] /\ i # j => tid[i] = NoPid

(* The first snapshot too sees a stopped application.                      *)
FirstStopped == pc = "work0" => \A t \in Threads : traced[t] => ~Active(t)

(* assert(r >= 0) of proc_check_status: waitpid(-1) always has a child.    *)
WaitSucceeds == failed # "echild"

----------------------------------------------------------------------------
(* The tracker implements StopTheWorld: the memory is read in the main     *)
(* loop only while no traced thread runs, and none starts meanwhile.       *)
World == INSTANCE StopTheWorld WITH
  reading <- pc = "work",
  active  <- {t \in Threads : traced[t] /\ Active(t)}

ReadsStoppedWorld == World!Spec

----------------------------------------------------------------------------
(* Liveness, under FairSpec.                                               *)

(* The tracker keeps taking snapshots until it ends.                       *)
Progress == []<>(pc \in {"work0", "work"} \cup Ended)

(* No thread stays stopped for ever: the clones, exits, signals and pauses *)
(* of the application are all followed by a PTRACE_CONT.                   *)
StopsEnd ==
  \A t \in Threads : traced[t] /\ state[t] \in Stops ~> state[t] \notin Stops \/ pc \in Ended

(* SIGINT ends the tracker, whatever it was doing.                         *)
StopHonoured == stop ~> pc \in Ended

(* The end of the application ends the tracker.                            *)
EndsWithApplication ==
  (traced[Leader] /\ Children = {}) ~> pc \in Ended
----------------------------------------------------------------------------
(* The inductive invariant behind WorldStopped and ReadsStoppedWorld.      *)

(* The loops over the table, also the one whose bound was fixed at its     *)
(* call, stay inside it although proc_check_status changes it meanwhile.   *)
InTable ==
  /\ ntids <= Len(tid)
  /\ pc \in {"spPause", "spWait"} => idx <= ntids
  /\ pc = "paWait" => idx <= Len(tid)
  /\ pc = "spPause" => tid[idx] # NoPid

(* The invariant behind the types.                                         *)
Typed == TypeOK /\ InTable

(* t cannot execute until somebody continues it, or never will again.      *)
Quiet(t) ==
  \/ state[t] \in {"exit", "dying", "zombie", "reaped"}
  \/ state[t] \in {"stop", "exec", "fork"} /\ seen[t]

(* Nothing is left to do for t in this pause.                              *)
Held(t) == state[t] # "unborn" /\ (traced[t] => Quiet(t))

(* t is traced, and runs or will run when its current stop is served.      *)
Runs(t) == traced[t] /\ state[t] \in {"running", "clone", "fork", "exec", "signal"}

Born == \A i \in DOMAIN tid : tid[i] # NoPid => state[tid[i]] # "unborn"

InKnown == pc \notin {"seize", "gettids"} => \A t \in Threads : Runs(t) => t \in Known

(* The entries that proc_pause_all has passed are held.                    *)
Passed ==
  \A i \in DOMAIN tid :
    pc = "work" \/ (pc \in {"pa", "paWait"} /\ i < idx) =>
      tid[i] = NoPid \/ Held(tid[i])

(* The entry it is at becomes held before proc_check_status returns.       *)
Current ==
  pc = "paWait" =>
    \/ tid[idx] = NoPid
    \/ tid[idx] = waitfor
    \/ waitfor = NoPid /\ Held(tid[idx])

(* No thread is traced before it is born, and from its birth on every      *)
(* thread of an application that the tracker started.                      *)
BornTraced ==
  /\ state[Leader] # "unborn"
  /\ \A t \in Threads : traced[t] => state[t] # "unborn"
  /\ Parent /\ "early" \notin Ops =>
       /\ traced[Leader] \/ (~launched /\ pc = "seize")
       /\ \A t \in Threads \ {Leader} : state[t] # "unborn" => traced[t]

IInv == Typed /\ Born /\ InKnown /\ Passed /\ Current /\ BornTraced
----------------------------------------------------------------------------
(* The start of an application that the tracker itself started (-c) and    *)
(* seized before its execvp; in this mode the first snapshot, too, sees a  *)
(* stopped application.                                                    *)

Seized == Parent /\ "early" \notin Ops

(* The states of a thread that has begun to exit.                          *)
Leaving == {"exit", "dying", "zombie", "reaped"}

(* The child is the only thread there is.  It runs start_child, or has     *)
(* stopped, at the latest at its execvp.                                   *)
LeaderAlone ==
  pc \in Startup =>
    /\ \A t \in Threads \ {Leader} : state[t] = "unborn"
    /\ state[Leader] \in {"running", "exec", "stop"} \cup Leaving
    /\ launched => state[Leader] # "running"

(* It is the only entry of the table, until it exits, and is held when     *)
(* proc_seize_and_pause is done with it.                                   *)
FirstPause ==
  pc \in Startup \ {"seize", "gettids"} =>
    /\ Len(tid) = 1 /\ ntids = 1
    /\ tid[1] \in {Leader, NoPid}
    /\ state[Leader] \notin Leaving => tid[1] = Leader
    /\ \/ pc = "sp" /\ idx > 1
       \/ pc = "spWait" /\ waitfor = NoPid
       \/ pc = "work0"
       => Held(Leader)

(* From the last stop of a pause to the next resume nobody runs.           *)
Still == pc \in {"work0", "work", "loop"} => \A t \in Threads : ~Active(t)

StartInv == LeaderAlone /\ FirstPause /\ Still
============================================================================

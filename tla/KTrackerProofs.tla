--------------------------- MODULE KTrackerProofs ---------------------------
(***************************************************************************)
(* Theorems about the whole program, for any number of threads and pages   *)
(* and any behaviour of the application: the timers, and, when the tracker *)
(* has started the application itself, that no write of it is lost between *)
(* two snapshots and that none is invented.                                *)
(***************************************************************************)
EXTENDS KTracker, StartupProofs

USE DEF Stops, Absent, States, AppOps

----------------------------------------------------------------------------
(* KTracker is Tracker with more variables.                                *)

LEMMA StepOfTracker ==
  ASSUME [KNext]_kkvars
  PROVE  [Next]_vars
<1>1. CASE Application
  BY <1>1 DEF Application, Write, Next
<1>2. CASE ReadPage \/ ReadNothing
  BY <1>2 DEF ReadPage, ReadNothing
<1>3. CASE \/ GetTidsTimed \/ FirstSnapshotBegins \/ SnapshotTaken \/ LoopTimed
           \/ ResumeDoneTimed \/ CheckDoneTimed \/ PauseDoneTimed
  BY <1>3 DEF GetTidsTimed, FirstSnapshotBegins, SnapshotTaken, LoopTimed,
     ResumeDoneTimed, CheckDoneTimed, PauseDoneTimed, Next, Tracker, CheckStatus
<1>4. CASE Control
  BY <1>4 DEF Control, Handle, Next, Tracker, CheckStatus
<1>5. CASE UNCHANGED kkvars
  BY <1>5 DEF kkvars
<1> QED
  BY <1>1, <1>2, <1>3, <1>4, <1>5 DEF KNext

(* The program takes no step that Tracker does not take.                   *)
LEMMA ImplementsTracker == KSpec => Spec
<1>1. KInit => Init
  BY DEF KInit
<1> QED
  BY <1>1, StepOfTracker, PTL DEF KSpec, Spec

LEMMA ControlInvariance == KSpec => [](IInv /\ (Seized => StartInv))
BY ImplementsTracker, Invariance, StartInvariance, PTL

(* The world stands still at every snapshot of the whole program, too.     *)
THEOREM SnapshotsStopTheWorld == KSpec => []WorldStopped
BY ImplementsTracker, WorldStoppedHolds, PTL

----------------------------------------------------------------------------
(* Types.                                                                  *)

LEMMA KTypeInit == KInit => KTypeOK
<1> SUFFICES ASSUME KInit  PROVE KTypeOK
  OBVIOUS
<1> USE KTrackerAssumption
<1>1. started \subseteq TimerNames
  BY DEF KInit, TimersInit
<1>2. copy \in Memories /\ memory \in Memories
  BY DEF KInit, Memories
<1>3. page \in 1 .. Pages + 1
  BY DEF KInit
<1>4. dirty \subseteq 1 .. Pages /\ written \subseteq 1 .. Pages
  BY DEF KInit
<1> QED
  BY <1>1, <1>2, <1>3, <1>4 DEF KTypeOK

LEMMA KTypeNext == KTypeOK /\ [KNext]_kkvars => KTypeOK'
<1> SUFFICES ASSUME KTypeOK, [KNext]_kkvars  PROVE KTypeOK'
  OBVIOUS
<1> USE KTrackerAssumption
<1>1. CASE Application
  <2>1. ASSUME NEW t \in Threads, NEW p \in 1 .. Pages, NEW v \in Values, Write(t, p, v)
        PROVE  KTypeOK'
    BY <2>1 DEF Write, KTypeOK, Memories
  <2>2. CASE NewImage /\ UNCHANGED started
    BY <2>2 DEF NewImage, KTypeOK
  <2>3. CASE UNCHANGED memvars /\ UNCHANGED started
    BY <2>3 DEF memvars, KTypeOK
  <2> QED
    BY <1>1, <2>1, <2>2, <2>3 DEF Application
<1>2. CASE ReadPage
  <2>1. page \in 1 .. Pages /\ page' = page + 1 /\ UNCHANGED <<started, memory, written>>
    BY <1>2 DEF ReadPage, KTypeOK
  <2>2. page' \in 1 .. Pages + 1
    BY <2>1
  <2>3. memory[page] \in Values
    BY <2>1 DEF KTypeOK, Memories
  <2>4. copy' \in Memories
    BY <1>2, <2>3 DEF ReadPage, KTypeOK, Memories
  <2>5. dirty' \subseteq 1 .. Pages
    BY <1>2, <2>1 DEF ReadPage, KTypeOK
  <2> QED
    BY <2>1, <2>2, <2>4, <2>5 DEF KTypeOK
<1>3. CASE ReadNothing
  <2>1. page' \in 1 .. Pages + 1
    BY <1>3 DEF ReadNothing
  <2> QED
    BY <1>3, <2>1 DEF ReadNothing, KTypeOK
<1>4. CASE GetTidsTimed \/ ResumeDoneTimed \/ CheckDoneTimed \/ SnapshotTaken \/ Control
  BY <1>4 DEF GetTidsTimed, ResumeDoneTimed, CheckDoneTimed, SnapshotTaken, Control,
     TimerStart, TimerStop, TimerNames, memvars, KTypeOK
<1>5. CASE LoopTimed
  BY <1>5 DEF LoopTimed, WriteProtectPages, TimerStart, TimerNames, KTypeOK
<1>6. CASE FirstSnapshotBegins \/ PauseDoneTimed
  <2>1. started' \subseteq TimerNames
    BY <1>6 DEF FirstSnapshotBegins, PauseDoneTimed, TimerStop, KTypeOK
  <2>2. BeginSnapshot \/ UNCHANGED memvars
    BY <1>6 DEF FirstSnapshotBegins, PauseDoneTimed
  <2>3. CASE BeginSnapshot
    BY <2>1, <2>3 DEF BeginSnapshot, KTypeOK
  <2>4. CASE UNCHANGED memvars
    BY <2>1, <2>4 DEF memvars, KTypeOK
  <2> QED
    BY <2>2, <2>3, <2>4
<1>7. CASE UNCHANGED kkvars
  BY <1>7 DEF kkvars, memvars, KTypeOK
<1> QED
  BY <1>1, <1>2, <1>3, <1>4, <1>5, <1>6, <1>7 DEF KNext

(* Every variable has a value of its kind; only pages of the application   *)
(* are read and reported.                                                  *)
THEOREM KTypeCorrect == KSpec => []KTypeOK
BY KTypeInit, KTypeNext, PTL DEF KSpec

----------------------------------------------------------------------------
(* The timers.                                                             *)

LEMMA TimesNext == TimesApart /\ [KNext]_kkvars => TimesApart'
<1> SUFFICES ASSUME TimesApart, [KNext]_kkvars  PROVE TimesApart'
  OBVIOUS
<1> USE DEF TimesApart, TimerNames, Goto, Abort
<1>1. CASE UNCHANGED <<pc, started>>
  BY <1>1
<1>2. CASE Application \/ ReadPage \/ ReadNothing \/ UNCHANGED kkvars
  <2>1. UNCHANGED <<pc, started>>
    BY <1>2 DEF Application, Write, Environment, ReadPage, ReadNothing, kkvars, vars, kvars
  <2> QED
    BY <2>1
<1>3. CASE GetTidsTimed
  <2>1. pc = "gettids" /\ pc' = "sp" /\ started' = started \cup {"paused"}
    BY <1>3 DEF GetTidsTimed, GetTids, TimerStart
  <2> QED
    BY <2>1
<1>4. CASE FirstSnapshotBegins \/ SnapshotTaken
  <2>1. /\ pc \in {"sp", "work0", "work"} /\ pc' \in {"work0", "loop"}
        /\ started' = started
    BY <1>4 DEF FirstSnapshotBegins, SnapshotTaken, SeizeDone, FirstSnapshot, Snapshot
  <2> QED
    BY <2>1
<1>5. CASE LoopTimed
  <2>1. pc = "loop"
    BY <1>5 DEF LoopTimed, Loop
  <2>2. CASE stop
    BY <1>5, <2>2 DEF LoopTimed, Loop
  <2>3. CASE ~stop
    BY <1>5, <2>1, <2>3 DEF LoopTimed, Loop, TimerStart
  <2> QED
    BY <2>2, <2>3
<1>6. CASE ResumeDoneTimed
  <2>1. pc = "resume" /\ pc' = "sleep" /\ started' = started \ {"paused"}
    BY <1>6 DEF ResumeDoneTimed, ResumeDone, TimerStop
  <2> QED
    BY <2>1
<1>7. CASE CheckDoneTimed
  <2>1. \/ pc = "spWait" /\ pc' = "sp" /\ started' = started
        \/ pc = "drain" /\ pc' = "pa" /\ started' = started \cup {"paused"}
        \/ pc = "paWait" /\ pc' = "pa" /\ started' = started
    BY <1>7 DEF CheckDoneTimed, CheckDone, TimerStart
  <2> QED
    BY <2>1
<1>8. CASE PauseDoneTimed
  <2>1. pc = "pa" /\ pc' \in {"work", "finished"} /\ started' = started \ {"app"}
    BY <1>8 DEF PauseDoneTimed, PauseDone, TimerStop
  <2> QED
    BY <2>1
<1>9. CASE Control
  <2>0. started' = started
    BY <1>9 DEF Control
  <2>1. CASE SeizeLeader
    <3>1. pc = "seize" /\ pc' = "gettids"
      BY <2>1 DEF SeizeLeader
    <3> QED
      BY <2>0, <3>1
  <2>2. CASE SeizeNext \/ SeizedPause
    <3>1. pc \in {"sp", "spPause"} /\ pc' \in {"sp", "spPause", "spWait", "aborted"}
      BY <2>2 DEF SeizeNext, SeizedPause, ProcPause
    <3> QED
      BY <2>0, <3>1
  <2>3. CASE Handle
    <3>1. pc' = pc \/ pc' = "aborted"
      BY <2>3 DEF Handle, OnExited, OnExitEvent, OnForkEvent, OnExecEvent,
         OnCloneOrSignal, OnNewThread, OnPaused, NoChild, kvars
    <3> QED
      BY <2>0, <3>1
  <2>4. CASE ResumeNext \/ SigInt \/ Terminated
    <3>1. pc' = pc
      BY <2>4 DEF ResumeNext, SigInt, Terminated, vars, kvars
    <3> QED
      BY <2>0, <3>1
  <2>5. CASE Wake
    <3>1. pc = "sleep" /\ pc' \in {"drain", "finished"}
      BY <2>5 DEF Wake
    <3> QED
      BY <2>0, <3>1
  <2>6. CASE PauseNext
    <3>1. pc = "pa" /\ pc' \in {"pa", "paWait"}
      BY <2>6 DEF PauseNext, ProcPause
    <3> QED
      BY <2>0, <3>1
  <2>7. CASE SigIntInWait
    <3>1. pc' = "aborted"
      BY <2>7 DEF SigIntInWait
    <3> QED
      BY <3>1
  <2> QED
    BY <1>9, <2>1, <2>2, <2>3, <2>4, <2>5, <2>6, <2>7 DEF Control
<1> QED
  BY <1>2, <1>3, <1>4, <1>5, <1>6, <1>7, <1>8, <1>9 DEF KNext

(* Each timer runs exactly where its total is meant to, is never stopped   *)
(* without having been started, and never started twice, whatever the      *)
(* application and SIGINT do.                                              *)
THEOREM TimesApartHolds == KSpec => []TimesApart
<1>1. KInit => TimesApart
  BY DEF KInit, Init, TimersInit, TimesApart
<1> QED
  BY <1>1, TimesNext, PTL DEF KSpec

(* App_time misses no execution of an application that the tracker has     *)
(* started: it does not run while its timer stands still.                  *)
THEOREM ExecutionTimedHolds == KSpec => [](Seized => ExecutionTimed)
<1>1. TypeOK /\ TimesApart /\ (Seized => StartInv) => (Seized => ExecutionTimed)
  BY DEF TypeOK, PCs, Startup, Waiting, Ended, TimesApart, TimerNames, StartInv, Still,
         ExecutionTimed
<1>2. IInv => TypeOK
  BY DEF IInv, Typed
<1> QED
  BY <1>1, <1>2, TimesApartHolds, ControlInvariance, PTL

(* When the register cannot be read, readMSR returns 2200 as a frequency   *)
(* in MHz, but getFrequency takes it for the register: the times are then  *)
(* computed for 800 MHz.                                                   *)
THEOREM FallbackFrequency == GetFrequency(FallbackMSR) = 800
BY DEF GetFrequency, FallbackMSR

----------------------------------------------------------------------------
(* The memory and its copy.                                                *)

(* What a step of Tracker is for the tracees.                              *)
LEMMA TrackerRequests ==
  ASSUME IInv, Tracker
  PROVE  \/ UNCHANGED tvars
         \/ \E t \in Threads : \/ Seize(t) \/ Interrupt(t) \/ Cont(t) \/ Notice(t)
                               \/ Reap(t) /\ state[t] = "zombie"
<1> DEFINE Requests ==
      \/ UNCHANGED tvars
      \/ \E t \in Threads : \/ Seize(t) \/ Interrupt(t) \/ Cont(t) \/ Notice(t)
                            \/ Reap(t) /\ state[t] = "zombie"
<1>t. /\ Leader \in Threads
      /\ Typed /\ TypeOK
  BY TraceesAssumption DEF IInv, Typed
<1>e. /\ Len(tid) \in Nat /\ DOMAIN tid = 1..Len(tid)
      /\ \A i \in DOMAIN tid : tid[i] \in Threads \cup {NoPid}
      /\ idx \in Nat \ {0} /\ ntids <= Len(tid) /\ ntids \in Nat
  BY <1>t, Entries DEF Typed, TypeOK, InTable
<1>1. CASE SeizeLeader
  BY <1>1, <1>t DEF SeizeLeader
<1>2. CASE \/ GetTids \/ SeizeDone \/ FirstSnapshot \/ Loop \/ ResumeDone \/ Wake
           \/ PauseDone \/ Snapshot
  BY <1>2 DEF GetTids, SeizeDone, FirstSnapshot, Loop, ResumeDone, Wake, PauseDone, Snapshot
<1>3. CASE SeizeNext
  <2>1. idx \in DOMAIN tid
    BY <1>3, <1>e DEF SeizeNext
  <2>2. tid[idx] # NoPid => tid[idx] \in Threads
    BY <2>1, <1>e
  <2> QED
    BY <1>3, <2>2 DEF SeizeNext
<1>4. CASE SeizedPause
  <2>1. CanInterrupt(tid[idx]) => tid[idx] \in Threads
    BY DEF CanInterrupt, Children
  <2> QED
    BY <1>4, <2>1 DEF SeizedPause, ProcPause
<1>5. CASE PauseNext
  <2>1. CanInterrupt(tid[idx]) => tid[idx] \in Threads
    BY DEF CanInterrupt, Children
  <2> QED
    BY <1>5, <2>1 DEF PauseNext, ProcPause
<1>6. CASE ResumeNext
  <2>1. idx \in DOMAIN tid
    BY <1>6, <1>e DEF ResumeNext
  <2>2. tid[idx] # NoPid => tid[idx] \in Threads
    BY <2>1, <1>e
  <2> QED
    BY <1>6, <2>2 DEF ResumeNext
<1>7. CASE CheckStatus
  <2>1. ASSUME NEW t \in Threads,
               \/ OnExited(t) \/ OnExitEvent(t) \/ OnForkEvent(t) \/ OnExecEvent(t)
               \/ OnCloneOrSignal(t) \/ OnNewThread(t) \/ OnPaused(t)
        PROVE  Requests
    BY <2>1 DEF OnExited, OnExitEvent, OnForkEvent, OnExecEvent, OnCloneOrSignal,
       OnNewThread, OnPaused
  <2>2. CASE CheckDone \/ NoChild
    BY <2>2 DEF CheckDone, NoChild
  <2> QED
    BY <1>7, <2>1, <2>2 DEF CheckStatus
<1> QED
  BY <1>1, <1>2, <1>3, <1>4, <1>5, <1>6, <1>7 DEF Tracker

(* The memory of the leader does not come back, and an application that    *)
(* has ended does not go on.                                               *)
LEMMA RequestKeepsGone ==
  ASSUME TraceesTypeOK,
         \/ UNCHANGED tvars
         \/ \E t \in Threads : \/ Seize(t) \/ Interrupt(t) \/ Cont(t) \/ Notice(t)
                               \/ Reap(t) /\ state[t] = "zombie"
  PROVE  /\ HasMemory' => HasMemory
         /\ GoesOn' => GoesOn
         /\ state'[Leader] \in Leaving => state[Leader] \in Leaving
<1> DEFINE Dead == {"unborn"} \cup Leaving
           Keeps == \A u \in Threads :
             /\ state[u] \in Dead <=> state'[u] \in Dead
             /\ state[u] \in Leaving <=> state'[u] \in Leaving
             /\ state[u] \in {"zombie", "reaped"} => state'[u] \in {"zombie", "reaped"}
<1>t. /\ state \in [Threads -> States]
      /\ Leader \in Threads
  BY TraceesAssumption DEF TraceesTypeOK
<1>1. UNCHANGED <<forked, killed>>
  BY DEF tvars, Seize, Interrupt, Cont, Notice, Reap
<1>2. Keeps
  <2>1. CASE UNCHANGED state
    BY <2>1
  <2>2. ASSUME NEW t \in Threads, Cont(t)
        PROVE  Keeps
    BY <2>2, <1>t DEF Cont, Continued, Leaving
  <2>3. ASSUME NEW t \in Threads, Reap(t), state[t] = "zombie"
        PROVE  Keeps
    BY <2>3, <1>t DEF Reap, Leaving
  <2>4. ASSUME NEW t \in Threads, Seize(t) \/ Interrupt(t) \/ Notice(t)
        PROVE  UNCHANGED state
    BY <2>4 DEF Seize, Interrupt, Notice
  <2>5. UNCHANGED tvars => UNCHANGED state
    BY DEF tvars
  <2> QED
    BY <2>1, <2>2, <2>3, <2>4, <2>5
<1> QED
  BY <1>1, <1>2, <1>t DEF HasMemory, GoesOn, Doomed

LEMMA EnvironmentKeepsGone ==
  ASSUME TraceesTypeOK, App \/ \E t \in Threads : Kernel(t)
  PROVE  /\ HasMemory' => HasMemory
         /\ GoesOn' => GoesOn
<1> DEFINE Keeps == /\ HasMemory' => HasMemory
                    /\ GoesOn' => GoesOn
<1> USE TraceesAssumption DEF TraceesTypeOK, HasMemory, GoesOn, Doomed, Leaving
<1>1. ASSUME NEW t \in Threads, NEW u \in Threads, Clone(t, u)
      PROVE  Keeps
  <2>1. /\ state[t] = "running" /\ ~Doomed(t) /\ t \notin forked
        /\ state[u] = "unborn"
    BY <1>1 DEF Clone, Does
  <2>2. GoesOn
    BY <2>1
  <2>3. HasMemory' => HasMemory
    BY <1>1, <2>1 DEF Clone
  <2> QED
    BY <2>2, <2>3
<1>2. ASSUME NEW t \in Threads, NEW u \in Threads, Fork(t, u)
      PROVE  Keeps
  <2>1. /\ state[t] = "running" /\ ~Doomed(t) /\ t \notin forked
        /\ u # Leader
    BY <1>2 DEF Fork, Does
  <2>2. GoesOn
    BY <2>1
  <2>3. HasMemory' => HasMemory
    BY <1>2, <2>1 DEF Fork
  <2> QED
    BY <2>2, <2>3
<1>3. ASSUME NEW t \in Threads, Exit(t)
      PROVE  Keeps
  BY <1>3 DEF Exit, Does, Trap
<1>4. ASSUME NEW t \in Threads, Signal(t)
      PROVE  Keeps
  BY <1>4 DEF Signal, Does, Trap
<1>5. ASSUME NEW t \in Threads, ExitGroup(t)
      PROVE  Keeps
  <2>1. state[t] = "running" /\ state'[Leader] = IF Leader = t THEN "exit" ELSE Killed(Leader)
    BY <1>5 DEF ExitGroup, Does
  <2>2. HasMemory' => HasMemory
    BY <2>1 DEF Killed
  <2>3. killed' /\ forked' = forked
    BY <1>5 DEF ExitGroup
  <2> QED
    BY <2>2, <2>3
<1>6. CASE Exec
  BY <1>6 DEF Exec, Trap
<1>7. CASE SigKill
  <2>1. state'[Leader] = Killed(Leader)
    BY <1>7 DEF SigKill
  <2>2. HasMemory' => HasMemory
    BY <2>1 DEF Killed
  <2>3. killed' /\ forked' = forked
    BY <1>7 DEF SigKill
  <2> QED
    BY <2>2, <2>3
<1>8. ASSUME NEW t \in Threads, EventStop(t) \/ KilledStop(t)
      PROVE  Keeps
  BY <1>8 DEF EventStop, KilledStop, Trap
<1>9. ASSUME NEW t \in Threads, Die(t)
      PROVE  Keeps
  BY <1>9 DEF Die
<1> QED
  BY <1>1, <1>2, <1>3, <1>4, <1>5, <1>6, <1>7, <1>8, <1>9 DEF App, Kernel

LEMMA MemoryNotRegained ==
  ASSUME IInv, [Next]_vars
  PROVE  HasMemory' => HasMemory
<1>t. TraceesTypeOK
  BY DEF IInv, Typed, TypeOK
<1>1. CASE Tracker
  BY <1>1, <1>t, TrackerRequests, RequestKeepsGone
<1>2. CASE Environment
  BY <1>2, <1>t, EnvironmentKeepsGone DEF Environment
<1>3. CASE SigInt \/ SigIntInWait \/ Terminated \/ UNCHANGED vars
  BY <1>3, <1>t, RequestKeepsGone DEF SigInt, SigIntInWait, Terminated, vars
<1> QED
  BY <1>1, <1>2, <1>3 DEF Next

(* A step that reads and writes nothing and begins no snapshot.            *)
LEMMA KeepMemory ==
  ASSUME MemoryInv, UNCHANGED memvars,
         HasMemory' => HasMemory,
         pc' \in {"work0", "work", "loop"} => pc' = pc,
         pc' \in Startup => pc \in Startup
  PROVE  MemoryInv'
<1>1. UNCHANGED <<memory, copy, page, dirty, written>>
  BY DEF memvars
<1> QED
  BY <1>1 DEF MemoryInv, CopyCurrent, Accounted, ReportsAreWrites, Reading

(* Nothing is read at the beginning.                                       *)
LEMMA BeginMemory ==
  ASSUME MemoryInv, BeginSnapshot, UNCHANGED state,
         pc' \in {"work0", "work"},
         pc' \in Startup => pc \in Startup
  PROVE  MemoryInv'
<1>1. page' = 1 /\ dirty' = {} /\ UNCHANGED <<memory, copy, written>>
  BY DEF BeginSnapshot
<1>2. 1 .. page' - 1 = {}
  BY <1>1
<1>3. HasMemory' <=> HasMemory
  BY DEF HasMemory
<1>4. CopyCurrent'
  BY <1>2 DEF CopyCurrent
<1>5. Accounted' /\ ReportsAreWrites'
  BY <1>1, <1>3 DEF MemoryInv, Accounted, ReportsAreWrites
<1> QED
  BY <1>4, <1>5 DEF MemoryInv

LEMMA ReadPageMemory ==
  ASSUME KTypeOK, MemoryInv, ReadPage
  PROVE  MemoryInv'
<1> USE KTrackerAssumption
<1>1. /\ page \in 1 .. Pages /\ page' = page + 1 /\ Reading /\ HasMemory
      /\ UNCHANGED <<memory, written, pc, state>>
  BY DEF ReadPage, KTypeOK, vars, kvars, tvars
<1>2. copy \in [1 .. Pages -> Values] /\ memory \in [1 .. Pages -> Values]
  BY DEF KTypeOK, Memories
<1>3. copy' = [copy EXCEPT ![page] = memory[page]]
  <2>1. CASE memory[page] # copy[page] \/ pc = "work0"
    BY <2>1 DEF ReadPage
  <2>2. CASE ~(memory[page] # copy[page] \/ pc = "work0")
    BY <1>1, <1>2, <2>2 DEF ReadPage
  <2> QED
    BY <2>1, <2>2
<1>4. \A p \in 1 .. Pages : copy'[p] = IF p = page THEN memory[page] ELSE copy[p]
  BY <1>2, <1>3
<1>5. \A p \in 1 .. page' - 1 : p = page \/ p \in 1 .. page - 1
  BY <1>1
<1>6. \A p \in 1 .. page' - 1 : p \in 1 .. Pages
  BY <1>1
<1>7. pc # "loop"
  BY <1>1 DEF Reading
<1>8. \A p \in 1 .. page' - 1 : copy'[p] = memory'[p]
  BY <1>1, <1>4, <1>5, <1>6 DEF MemoryInv, CopyCurrent
<1>9. CopyCurrent'
  BY <1>1, <1>7, <1>8 DEF CopyCurrent
<1>10. Accounted'
  BY <1>1, <1>4 DEF MemoryInv, Accounted, HasMemory
<1>11. dirty' \subseteq dirty \cup {page} /\ (page \notin written => dirty' = dirty)
  <2>1. CASE memory[page] # copy[page]
    <3>1. page \in written
      BY <2>1, <1>1 DEF MemoryInv, Accounted
    <3> QED
      BY <2>1, <3>1 DEF ReadPage
  <2>2. CASE pc = "work0"
    <3>1. page \in written
      BY <2>2, <1>1 DEF MemoryInv, Accounted, Startup
    <3> QED
      BY <2>2, <3>1 DEF ReadPage
  <2>3. CASE memory[page] = copy[page] /\ pc # "work0"
    BY <2>3 DEF ReadPage
  <2> QED
    BY <2>1, <2>2, <2>3
<1>12. ReportsAreWrites'
  BY <1>1, <1>11 DEF MemoryInv, ReportsAreWrites, Reading
<1> QED
  BY <1>9, <1>10, <1>12 DEF MemoryInv

(* The application writes outside the snapshots only.                      *)
LEMMA ApplicationMemory ==
  ASSUME IInv, StartInv, KTypeOK, MemoryInv, Application
  PROVE  MemoryInv'
<1>1. ASSUME NEW t \in Threads, NEW p \in 1 .. Pages, NEW v \in Values, Write(t, p, v)
      PROVE  MemoryInv'
  <2>1. /\ UNCHANGED <<pc, state, copy, page, dirty>>
        /\ Active(t)
        /\ written' = written \cup {p}
        /\ memory' = [memory EXCEPT ![p] = v]
    BY <1>1 DEF Write, vars, kvars, tvars
  <2>2. pc \notin {"work0", "work", "loop"}
    BY <2>1 DEF StartInv, Still
  <2>3. CopyCurrent' /\ ReportsAreWrites'
    BY <2>1, <2>2 DEF CopyCurrent, ReportsAreWrites, Reading
  <2>4. \A q \in 1 .. Pages \ {p} : memory'[q] = memory[q]
    BY <2>1 DEF KTypeOK, Memories
  <2>5. Accounted'
    BY <2>1, <2>4 DEF MemoryInv, Accounted, HasMemory
  <2> QED
    BY <2>3, <2>5 DEF MemoryInv
<1>2. CASE Environment /\ Exec /\ NewImage
  <2>1. /\ pc' = pc /\ written' = 1 .. Pages /\ UNCHANGED <<copy, page, dirty>>
    BY <1>2 DEF Environment, kvars, NewImage
  <2>2. Active(Leader)
    BY <1>2 DEF Exec, Active, Doomed
  <2>3. pc \notin {"work0", "work", "loop"}
    BY <2>2, TraceesAssumption DEF StartInv, Still
  <2>4. CopyCurrent' /\ ReportsAreWrites'
    BY <2>1, <2>3 DEF CopyCurrent, ReportsAreWrites, Reading
  <2>5. Accounted'
    BY <2>1 DEF Accounted
  <2> QED
    BY <2>4, <2>5 DEF MemoryInv
<1>3. CASE Environment /\ UNCHANGED memvars
  <2>1. pc' = pc
    BY <1>3 DEF Environment, kvars
  <2>2. HasMemory' => HasMemory
    BY <1>3, MemoryNotRegained DEF Next
  <2> QED
    BY <1>3, <2>1, <2>2, KeepMemory
<1> QED
  BY <1>1, <1>2, <1>3 DEF Application

LEMMA LoopMemory ==
  ASSUME KTypeOK, MemoryInv, LoopTimed
  PROVE  MemoryInv'
<1>1. /\ pc = "loop" /\ pc' \in {"finished", "resume"}
      /\ UNCHANGED <<state, memory, copy, page, dirty>>
  BY DEF LoopTimed, WriteProtectPages, Loop, Goto, tvars
<1>2. CopyCurrent' /\ ReportsAreWrites'
  BY <1>1 DEF CopyCurrent, ReportsAreWrites, Reading
<1>3. HasMemory' => copy' = memory'
  BY <1>1 DEF MemoryInv, CopyCurrent, HasMemory
<1>4. Accounted'
  BY <1>1, <1>3 DEF Accounted, Startup
<1> QED
  BY <1>2, <1>4 DEF MemoryInv

(* With every page read the copy is the memory.                            *)
LEMMA TakenMemory ==
  ASSUME KTypeOK, MemoryInv, SnapshotTaken
  PROVE  MemoryInv'
<1> USE KTrackerAssumption
<1>1. /\ Reading /\ page > Pages /\ pc' = "loop"
      /\ UNCHANGED <<state, memory, copy, page, dirty, written>>
  BY DEF SnapshotTaken, FirstSnapshot, Snapshot, Goto, memvars, tvars, Reading
<1>2. page - 1 = Pages
  BY <1>1 DEF KTypeOK
<1>3. HasMemory => \A p \in 1 .. Pages : copy[p] = memory[p]
  BY <1>1, <1>2 DEF MemoryInv, CopyCurrent
<1>4. HasMemory => copy = memory
  BY <1>3 DEF KTypeOK, Memories
<1>5. HasMemory' <=> HasMemory
  BY <1>1 DEF HasMemory
<1>6. CopyCurrent'
  BY <1>1, <1>4, <1>5 DEF CopyCurrent, Reading
<1>7. Accounted' /\ ReportsAreWrites'
  BY <1>1, <1>5 DEF MemoryInv, Accounted, ReportsAreWrites, Reading, Startup
<1> QED
  BY <1>6, <1>7 DEF MemoryInv

LEMMA MemoryNext ==
  ASSUME IInv, StartInv, KTypeOK, MemoryInv, [KNext]_kkvars
  PROVE  MemoryInv'
<1>h. HasMemory' => HasMemory
  BY StepOfTracker, MemoryNotRegained
<1>1. CASE Application
  BY <1>1, ApplicationMemory
<1>2. CASE ReadPage
  BY <1>2, ReadPageMemory
<1>3. CASE ReadNothing
  <2>1. ~HasMemory /\ UNCHANGED <<state, pc, dirty, written>>
    BY <1>3 DEF ReadNothing, vars, tvars, kvars
  <2> QED
    BY <2>1 DEF MemoryInv, CopyCurrent, Accounted, ReportsAreWrites, HasMemory, Reading
<1>4. CASE GetTidsTimed \/ ResumeDoneTimed \/ CheckDoneTimed
  <2>1. /\ pc' \in {"sp", "sleep", "pa"} /\ UNCHANGED memvars
        /\ pc' = "sp" => pc \in Startup
    BY <1>4 DEF GetTidsTimed, GetTids, ResumeDoneTimed, ResumeDone, CheckDoneTimed,
       CheckDone, Goto, Startup
  <2> QED
    BY <1>h, <2>1, KeepMemory DEF Startup
<1>5. CASE FirstSnapshotBegins
  <2>1. BeginSnapshot /\ UNCHANGED state /\ pc = "sp" /\ pc' = "work0"
    BY <1>5 DEF FirstSnapshotBegins, SeizeDone, Goto, tvars
  <2> QED
    BY <2>1, BeginMemory DEF Startup
<1>6. CASE SnapshotTaken
  BY <1>6, TakenMemory
<1>7. CASE LoopTimed
  BY <1>7, LoopMemory
<1>8. CASE PauseDoneTimed
  <2>1. UNCHANGED state /\ pc' \in {"finished", "work"}
    BY <1>8 DEF PauseDoneTimed, PauseDone, Goto, tvars
  <2>2. CASE pc' = "work"
    <3>1. BeginSnapshot
      BY <1>8, <2>2 DEF PauseDoneTimed
    <3> QED
      BY <2>1, <2>2, <3>1, BeginMemory DEF Startup
  <2>3. CASE pc' = "finished"
    <3>1. UNCHANGED memvars
      BY <1>8, <2>3 DEF PauseDoneTimed
    <3> QED
      BY <1>h, <2>3, <3>1, KeepMemory DEF Startup
  <2> QED
    BY <2>1, <2>2, <2>3
<1>9. CASE Control
  <2>1. UNCHANGED memvars
    BY <1>9 DEF Control
  <2>2. pc' = pc \/ pc' \notin Startup \cup {"work", "loop"}
        \/ (pc \in Startup /\ pc' # "work0" /\ pc' # "work" /\ pc' # "loop")
    <3>1. CASE SeizeLeader \/ SeizeNext \/ SeizedPause
      BY <3>1 DEF SeizeLeader, SeizeNext, SeizedPause, ProcPause, Goto, Abort, Startup
    <3>2. CASE Handle \/ SigInt \/ SigIntInWait \/ Terminated
      BY <3>2 DEF Handle, OnExited, OnExitEvent, OnForkEvent, OnExecEvent,
         OnCloneOrSignal, OnNewThread, OnPaused, NoChild, kvars, vars, Abort,
         SigInt, SigIntInWait, Terminated, Startup
    <3>3. CASE ResumeNext \/ Wake \/ PauseNext
      BY <3>3 DEF ResumeNext, Wake, PauseNext, ProcPause, Goto, Startup
    <3> QED
      BY <1>9, <3>1, <3>2, <3>3 DEF Control
  <2> QED
    BY <1>h, <2>1, <2>2, KeepMemory DEF Startup
<1>10. CASE UNCHANGED kkvars
  <2>1. UNCHANGED memvars /\ UNCHANGED pc
    BY <1>10 DEF kkvars, vars, kvars
  <2> QED
    BY <1>h, <2>1, KeepMemory
<1> QED
  BY <1>1, <1>2, <1>3, <1>4, <1>5, <1>6, <1>7, <1>8, <1>9, <1>10 DEF KNext

LEMMA MemoryInit == KInit => MemoryInv
<1> SUFFICES ASSUME KInit  PROVE MemoryInv
  OBVIOUS
<1>1. pc = "seize" /\ written = 1 .. Pages /\ dirty = {}
  BY DEF KInit, Init
<1> QED
  BY <1>1 DEF MemoryInv, CopyCurrent, Accounted, ReportsAreWrites, Reading

LEMMA MemoryInvariance == KSpec => [](Seized => MemoryInv)
<1>1. KInit => (Seized => MemoryInv)
  BY MemoryInit
<1>2. IInv /\ (Seized => StartInv) /\ KTypeOK /\ (Seized => MemoryInv) /\ [KNext]_kkvars
        => (Seized => MemoryInv)'
  BY MemoryNext DEF Seized
<1> QED
  BY <1>1, <1>2, ControlInvariance, KTypeCorrect, PTL DEF KSpec

(* No page is reported that was not written since the last snapshot.       *)
THEOREM ReportsAreWritesHolds == KSpec => [](Seized => ReportsAreWrites)
<1>1. (Seized => MemoryInv) => (Seized => ReportsAreWrites)
  BY DEF MemoryInv
<1> QED
  BY <1>1, MemoryInvariance, PTL

----------------------------------------------------------------------------
(* No write is lost.                                                       *)

LEMMA LeaderLastNext ==
  ASSUME IInv, LeaderStays, LeaderLast, [Next]_vars
  PROVE  LeaderLast'
<1>t. TraceesTypeOK /\ state \in [Threads -> States] /\ Leader \in Threads
      /\ forked \subseteq Threads \ {Leader}
  BY TraceesAssumption DEF IInv, Typed, TypeOK, TraceesTypeOK
<1>1. CASE Tracker \/ SigInt \/ SigIntInWait \/ Terminated \/ UNCHANGED vars
  <2>1. \/ UNCHANGED tvars
        \/ \E t \in Threads : \/ Seize(t) \/ Interrupt(t) \/ Cont(t) \/ Notice(t)
                              \/ Reap(t) /\ state[t] = "zombie"
    BY <1>1, TrackerRequests DEF SigInt, SigIntInWait, Terminated, vars
  <2>2. (GoesOn' => GoesOn) /\ (state'[Leader] \in Leaving => state[Leader] \in Leaving)
    BY <2>1, <1>t, RequestKeepsGone
  <2> QED
    BY <2>2 DEF LeaderLast
<1>2. CASE Environment
  <2>1. App \/ \E t \in Threads : Kernel(t)
    BY <1>2 DEF Environment
  <2>2. GoesOn' => GoesOn
    BY <2>1, <1>t, EnvironmentKeepsGone
  <2>3. SUFFICES ASSUME GoesOn'  PROVE state'[Leader] \notin Leaving
    BY DEF LeaderLast
  <2>4. state[Leader] \notin Leaving
    BY <2>2, <2>3 DEF LeaderLast
  <2>5. ~killed'
    BY <2>3 DEF GoesOn, Doomed
  <2> USE <1>t, <2>4, <2>5 DEF Leaving
  <2>6. ASSUME NEW t \in Threads, NEW u \in Threads, Clone(t, u) \/ Fork(t, u)
        PROVE  state'[Leader] \notin Leaving
    BY <2>6 DEF Clone, Fork
  <2>7. ASSUME NEW t \in Threads, Exit(t)
        PROVE  state'[Leader] \notin Leaving
    <3>1. CASE t = Leader
      <4>1. Alone(Leader)
        BY <2>7, <3>1 DEF Exit, Does, LeaderStays
      <4>2. state'[Leader] = "exit" /\ forked' = forked
        BY <2>7, <3>1 DEF Exit, Trap
      <4>3. \A u \in Threads \ {Leader} : state'[u] = state[u]
        BY <2>7, <3>1 DEF Exit, Trap
      <4>4. \A u \in Threads \ forked' : state'[u] \in Leaving \cup {"unborn"}
        BY <4>1, <4>2, <4>3 DEF Alone, Siblings
      <4>5. ~GoesOn'
        BY <4>4 DEF GoesOn
      <4> QED
        BY <4>5, <2>3
    <3>2. CASE t # Leader
      <4>1. state'[Leader] = state[Leader]
        BY <2>7, <3>2 DEF Exit, Trap
      <4> QED
        BY <4>1
    <3> QED
      BY <3>1, <3>2
  <2>8. ASSUME NEW t \in Threads, Signal(t)
        PROVE  state'[Leader] \notin Leaving
    BY <2>8 DEF Signal, Trap
  <2>9. CASE SigKill \/ \E t \in Threads : ExitGroup(t)
    BY <2>9 DEF SigKill, ExitGroup
  <2>10. CASE Exec
    BY <2>10 DEF Exec, Trap
  <2>11. ASSUME NEW t \in Threads, EventStop(t) \/ KilledStop(t) \/ Die(t)
         PROVE  state'[Leader] \notin Leaving
    <3>1. killed' = killed
      BY <2>11 DEF EventStop, KilledStop, Die
    <3>2. ~KilledStop(t)
      BY <3>1 DEF KilledStop, Doomed
    <3>3. EventStop(t) => state' = [state EXCEPT ![t] = "stop"]
      BY DEF EventStop, Trap
    <3>4. Die(t) => t # Leader /\ state' = [state EXCEPT ![t] = "zombie"]
      BY DEF Die
    <3> QED
      BY <2>11, <3>2, <3>3, <3>4
  <2> QED
    BY <2>1, <2>6, <2>7, <2>8, <2>9, <2>10, <2>11 DEF App, Kernel
<1> QED
  BY <1>1, <1>2 DEF Next

LEMMA LeaderLastInvariance == KSpec => [](LeaderStays => LeaderLast)
<1>1. KInit => (LeaderStays => LeaderLast)
  <2>1. KInit => state[Leader] = "running"
    BY TraceesAssumption DEF KInit, Init, TraceesInit
  <2> QED
    BY <2>1 DEF LeaderLast, Leaving
<1>2. IInv /\ (LeaderStays => LeaderLast) /\ [KNext]_kkvars => (LeaderStays => LeaderLast)'
  BY StepOfTracker, LeaderLastNext DEF LeaderStays
<1> QED
  BY <1>1, <1>2, ControlInvariance, PTL DEF KSpec

(* Before each resume the copy is the memory of the application: a write   *)
(* is in the snapshot just taken or happens after it, and none falls       *)
(* between two snapshots, as long as the leader does not leave first.      *)
THEOREM SnapshotCurrentHolds == KSpec => [](Seized /\ LeaderStays => SnapshotCurrent)
<1>1. (Seized => MemoryInv) /\ (LeaderStays => LeaderLast)
        => (Seized /\ LeaderStays => SnapshotCurrent)
  BY DEF MemoryInv, CopyCurrent, LeaderLast, HasMemory, Leaving, SnapshotCurrent
<1> QED
  BY <1>1, MemoryInvariance, LeaderLastInvariance, PTL

----------------------------------------------------------------------------
(* Every report is the difference of two moments.                          *)

SnapshotNow == IF Reading /\ HasMemory THEN memory ELSE copy
ReportNow   == dirty \cup Pending
BegunNow    == Reading \/ page > 1

Same == UNCHANGED <<memory, SnapshotNow, ReportNow, BegunNow, HasMemory>>

(* The loop of find_dirty_data is at its first page until the first        *)
(* snapshot, and behind its last one in every window.                      *)
Between ==
  /\ pc \in Startup \ {"work0"} => page = 1
  /\ pc \notin Startup \cup Ended \cup {"work"} => page = Pages + 1

LEMMA ControlWithinPhase ==
  ASSUME Control
  PROVE  /\ Reading' <=> Reading
         /\ pc' = "work0" <=> pc = "work0"
         /\ pc' \in Startup => pc \in Startup
         /\ pc \in Startup => pc' \in Startup \cup Ended
         /\ pc \in Ended => pc' \in Ended
         /\ pc' = "work" <=> pc = "work"
<1>1. CASE SeizeLeader \/ SeizeNext \/ SeizedPause
  BY <1>1 DEF SeizeLeader, SeizeNext, SeizedPause, ProcPause, Goto, Abort, Startup, Ended,
     Reading
<1>2. CASE Handle
  BY <1>2 DEF Handle, Awaited, OnExited, OnExitEvent, OnForkEvent, OnExecEvent,
     OnCloneOrSignal, OnNewThread, OnPaused, NoChild, kvars, Abort, Startup, Ended, Waiting,
     Reading
<1>3. CASE SigInt \/ SigIntInWait \/ Terminated
  BY <1>3 DEF SigInt, SigIntInWait, Terminated, vars, kvars, Startup, Ended, Waiting, Reading
<1>4. CASE ResumeNext \/ Wake \/ PauseNext
  BY <1>4 DEF ResumeNext, Wake, PauseNext, ProcPause, Goto, Startup, Ended, Reading
<1> QED
  BY <1>1, <1>2, <1>3, <1>4 DEF Control

LEMMA BetweenNext ==
  ASSUME KTypeOK, Between, [KNext]_kkvars
  PROVE  Between'
<1> USE KTrackerAssumption
<1>1. CASE Application \/ UNCHANGED kkvars
  <2>1. UNCHANGED <<pc, page>>
    BY <1>1 DEF Application, Write, Environment, NewImage, kkvars, vars, kvars, memvars
  <2> QED
    BY <2>1 DEF Between
<1>2. CASE ReadPage \/ ReadNothing
  <2>1. pc' = pc /\ pc \in {"work0", "work"}
    BY <1>2 DEF ReadPage, ReadNothing, Reading, vars, kvars
  <2> QED
    BY <2>1 DEF Between, Startup
<1>3. CASE FirstSnapshotBegins
  <2>1. pc' = "work0"
    BY <1>3 DEF FirstSnapshotBegins, SeizeDone, Goto
  <2> QED
    BY <2>1 DEF Between, Startup
<1>4. CASE SnapshotTaken
  <2>1. pc' = "loop" /\ page' = page /\ page > Pages
    BY <1>4 DEF SnapshotTaken, FirstSnapshot, Snapshot, Goto, memvars
  <2>2. page' = Pages + 1
    BY <2>1 DEF KTypeOK
  <2> QED
    BY <2>1, <2>2 DEF Between, Startup
<1>5. CASE GetTidsTimed \/ ResumeDoneTimed \/ CheckDoneTimed \/ LoopTimed
  <2>1. page' = page
    BY <1>5 DEF GetTidsTimed, ResumeDoneTimed, CheckDoneTimed, LoopTimed, WriteProtectPages,
       memvars
  <2>2. \/ <<pc, pc'>> \in {<<"gettids", "sp">>, <<"spWait", "sp">>}
        \/ <<pc, pc'>> \in {<<"resume", "sleep">>, <<"drain", "pa">>, <<"paWait", "pa">>,
                            <<"loop", "resume">>, <<"loop", "finished">>}
    BY <1>5 DEF GetTidsTimed, GetTids, ResumeDoneTimed, ResumeDone, CheckDoneTimed,
       CheckDone, LoopTimed, Loop, Goto
  <2> QED
    BY <2>1, <2>2 DEF Between, Startup, Ended
<1>6. CASE PauseDoneTimed
  <2>1. pc' \in {"finished", "work"}
    BY <1>6 DEF PauseDoneTimed, PauseDone, Goto
  <2> QED
    BY <2>1 DEF Between, Startup, Ended
<1>7. CASE Control
  <2>1. page' = page
    BY <1>7 DEF Control, memvars
  <2> QED
    BY <1>7, <2>1, ControlWithinPhase DEF Between
<1> QED
  BY <1>1, <1>2, <1>3, <1>4, <1>5, <1>6, <1>7 DEF KNext

(* The memory is gone: what has not been read stays out of the report.     *)
LEMMA LoseRefines ==
  ASSUME KTypeOK, KTypeOK', ~HasMemory',
         dirty' \subseteq ReportNow, BegunNow => BegunNow'
  PROVE  /\ HasMemory' = FALSE
         /\ memory' \in Memories /\ SnapshotNow' \in Memories
         /\ ReportNow' \in SUBSET ReportNow
         /\ BegunNow' \in {BegunNow, TRUE}
<1>1. Pending' = {}
  BY DEF Pending
<1>2. SnapshotNow' \in Memories /\ memory' \in Memories
  BY DEF SnapshotNow, KTypeOK
<1>3. HasMemory' = FALSE
  BY DEF HasMemory
<1>4. BegunNow' \in {BegunNow, TRUE}
  BY DEF BegunNow
<1> QED
  BY <1>1, <1>2, <1>3, <1>4 DEF ReportNow

(* A snapshot begins: every difference that there is will be reported.     *)
LEMMA TakeRefines ==
  ASSUME KTypeOK, Between, HasMemory, UNCHANGED state, ~Reading, BeginSnapshot,
         \/ pc \in Startup /\ pc' = "work0"
         \/ pc \notin Startup \cup Ended \cup {"work"} /\ pc' = "work"
  PROVE  /\ ReportNow' = {p \in 1 .. Pages : BegunNow => memory[p] # SnapshotNow[p]}
         /\ SnapshotNow' = memory
         /\ BegunNow' = TRUE
         /\ UNCHANGED <<memory, HasMemory>>
<1> USE KTrackerAssumption
<1>1. /\ page' = 1 /\ dirty' = {} /\ UNCHANGED <<memory, copy>>
      /\ Reading' /\ UNCHANGED HasMemory
  BY DEF BeginSnapshot, Reading, HasMemory
<1>2. SnapshotNow = copy /\ SnapshotNow' = memory
  BY <1>1 DEF SnapshotNow
<1>3. ReportNow' = {p \in 1 .. Pages : memory[p] # copy[p] \/ pc' = "work0"}
  BY <1>1 DEF ReportNow, Pending
<1>4. BegunNow <=> pc' = "work"
  <2>1. CASE pc \in Startup /\ pc' = "work0"
    <3>1. page = 1
      BY <2>1 DEF Between, Reading
    <3> QED
      BY <2>1, <3>1 DEF BegunNow
  <2>2. CASE pc \notin Startup \cup Ended \cup {"work"} /\ pc' = "work"
    <3>1. page = Pages + 1
      BY <2>2 DEF Between
    <3> QED
      BY <2>2, <3>1 DEF BegunNow
  <2> QED
    BY <2>1, <2>2
<1>5. pc' = "work" <=> pc' # "work0"
  OBVIOUS
<1>6. BegunNow' = TRUE
  BY <1>1 DEF BegunNow
<1> QED
  BY <1>1, <1>2, <1>3, <1>4, <1>5, <1>6

(* A step between the snapshots that leaves the memory and its copy alone. *)
LEMMA SameOutside ==
  ASSUME UNCHANGED memvars, HasMemory, HasMemory',
         Reading' <=> Reading, pc' = "work0" <=> pc = "work0"
  PROVE  Same
BY DEF Same, SnapshotNow, ReportNow, BegunNow, Pending, memvars

(* A page moves from what is pending to what has been found.               *)
LEMMA ReadPageSame ==
  ASSUME KTypeOK, ReadPage
  PROVE  Same
<1> USE KTrackerAssumption
<1>1. /\ page \in 1 .. Pages /\ page' = page + 1 /\ Reading /\ HasMemory
      /\ UNCHANGED <<memory, pc, state>>
  BY DEF ReadPage, KTypeOK, vars, kvars, tvars
<1>2. Reading' /\ HasMemory' /\ UNCHANGED HasMemory
  BY <1>1 DEF Reading, HasMemory
<1>3. SnapshotNow' = SnapshotNow /\ BegunNow' = BegunNow
  BY <1>1, <1>2 DEF SnapshotNow, BegunNow
<1>4. copy \in [1 .. Pages -> Values] /\ memory \in [1 .. Pages -> Values]
  BY DEF KTypeOK, Memories
<1> DEFINE Found(p) == memory[p] # copy[p] \/ pc = "work0"
<1>5. \A p \in page' .. Pages : copy'[p] = copy[p]
  <2>1. CASE Found(page)
    BY <2>1, <1>1, <1>4 DEF ReadPage
  <2>2. CASE ~Found(page)
    BY <2>2, <1>1 DEF ReadPage
  <2> QED
    BY <2>1, <2>2
<1>6. Pending' = {p \in page' .. Pages : Found(p)}
  BY <1>1, <1>2, <1>5 DEF Pending
<1>7. Pending = {p \in page .. Pages : Found(p)}
  BY <1>1 DEF Pending
<1>8. page .. Pages = {page} \cup (page' .. Pages)
  BY <1>1
<1>9. dirty' = IF Found(page) THEN dirty \cup {page} ELSE dirty
  BY DEF ReadPage
<1>10. ReportNow' = ReportNow
  BY <1>6, <1>7, <1>8, <1>9 DEF ReportNow
<1> QED
  BY <1>1, <1>2, <1>3, <1>10 DEF Same

(* The snapshot is finished: nothing is pending, the copy is the memory.   *)
LEMMA TakenSame ==
  ASSUME KTypeOK, MemoryInv, MemoryInv', HasMemory, SnapshotTaken
  PROVE  Same
<1> USE KTrackerAssumption
<1>1. /\ Reading /\ page > Pages /\ pc' = "loop"
      /\ UNCHANGED <<state, memory, copy, page, dirty>>
  BY DEF SnapshotTaken, FirstSnapshot, Snapshot, Goto, memvars, tvars, Reading
<1>2. ~Reading' /\ HasMemory' /\ UNCHANGED HasMemory
  BY <1>1 DEF Reading, HasMemory
<1>3. copy' = memory'
  BY <1>1, <1>2 DEF MemoryInv, CopyCurrent
<1>4. page .. Pages = {}
  BY <1>1 DEF KTypeOK
<1>5. ReportNow' = ReportNow
  BY <1>1, <1>4 DEF ReportNow, Pending
<1>6. SnapshotNow' = SnapshotNow
  BY <1>1, <1>2, <1>3 DEF SnapshotNow
<1>7. BegunNow' = BegunNow
  BY <1>1, <1>2 DEF BegunNow, KTypeOK
<1> QED
  BY <1>1, <1>2, <1>5, <1>6, <1>7 DEF Same

(* What a step does to the report and to the number of snapshots, whether  *)
(* there is a memory or not.                                               *)
LEMMA FoundWasPending ==
  ASSUME KTypeOK, Between, [KNext]_kkvars
  PROVE  /\ dirty' \subseteq ReportNow
         /\ BegunNow => BegunNow'
<1> USE KTrackerAssumption
<1>1. CASE ReadPage
  <2>1. dirty \subseteq ReportNow /\ dirty' \subseteq ReportNow'
    BY DEF ReportNow
  <2> QED
    BY <1>1, <2>1, ReadPageSame DEF Same
<1>2. CASE BeginSnapshot /\ (FirstSnapshotBegins \/ (PauseDoneTimed /\ pc' = "work"))
  <2>1. dirty' = {} /\ Reading'
    BY <1>2 DEF BeginSnapshot, FirstSnapshotBegins, SeizeDone, Goto, Reading
  <2> QED
    BY <2>1 DEF BegunNow
<1>3. CASE SnapshotTaken
  <2>1. UNCHANGED <<dirty, page>> /\ page > Pages
    BY <1>3 DEF SnapshotTaken, memvars
  <2> QED
    BY <2>1 DEF BegunNow, ReportNow, KTypeOK
<1>4. CASE ReadNothing
  <2>1. UNCHANGED <<dirty, pc>>
    BY <1>4 DEF ReadNothing, vars, kvars
  <2> QED
    BY <1>4, <2>1 DEF BegunNow, ReportNow, ReadNothing, Reading
<1>5. ASSUME UNCHANGED <<dirty, page>>, Reading => Reading'
      PROVE  /\ dirty' \subseteq ReportNow
             /\ BegunNow => BegunNow'
  BY <1>5 DEF BegunNow, ReportNow
<1>6. CASE Application \/ UNCHANGED kkvars
  <2>1. UNCHANGED <<pc, page, dirty>>
    BY <1>6 DEF Application, Write, Environment, NewImage, kkvars, vars, kvars, memvars
  <2> QED
    BY <2>1, <1>5 DEF Reading
<1>7. CASE GetTidsTimed \/ ResumeDoneTimed \/ CheckDoneTimed \/ LoopTimed
           \/ (PauseDoneTimed /\ pc' # "work")
  <2>1. UNCHANGED <<page, dirty>>
    BY <1>7 DEF GetTidsTimed, ResumeDoneTimed, CheckDoneTimed, LoopTimed, WriteProtectPages,
       PauseDoneTimed, memvars
  <2>2. ~Reading
    BY <1>7 DEF GetTidsTimed, GetTids, ResumeDoneTimed, ResumeDone, CheckDoneTimed,
       CheckDone, NothingToReport, LoopTimed, Loop, PauseDoneTimed, PauseDone, Waiting, Reading
  <2> QED
    BY <2>1, <2>2, <1>5
<1>8. CASE Control
  <2>1. UNCHANGED <<page, dirty>>
    BY <1>8 DEF Control, memvars
  <2> QED
    BY <1>8, <2>1, <1>5, ControlWithinPhase
<1>9. FirstSnapshotBegins => BeginSnapshot
  BY DEF FirstSnapshotBegins
<1>10. PauseDoneTimed /\ pc' = "work" => BeginSnapshot
  BY DEF PauseDoneTimed
<1> QED
  BY <1>1, <1>2, <1>3, <1>4, <1>6, <1>7, <1>8, <1>9, <1>10 DEF KNext

(* Every step is one of WriteWindow, or changes nothing there.             *)
LEMMA WindowNext ==
  ASSUME IInv, StartInv, KTypeOK, KTypeOK', MemoryInv, MemoryInv', Between, [KNext]_kkvars
  PROVE  Window!Next \/ Same
<1> USE KTrackerAssumption
<1>h. HasMemory' => HasMemory
  BY StepOfTracker, MemoryNotRegained
<1>1. CASE ~HasMemory'
  <2>1. Window!Lose
    BY <1>1, LoseRefines, FoundWasPending
       DEF Window!Lose, Window!Memories, Memories, SnapshotNow, ReportNow, BegunNow
  <2> QED
    BY <2>1 DEF Window!Next
<1>2. CASE HasMemory'
  <2>h. HasMemory /\ HasMemory' /\ UNCHANGED HasMemory
    BY <1>2, <1>h DEF HasMemory
  <2>1. ASSUME memory' \in Memories, ~Reading,
               UNCHANGED <<pc, copy, page, dirty>>
        PROVE  Window!Next
    <3>1. ~Reading'
      BY <2>1 DEF Reading
    <3>2. UNCHANGED <<SnapshotNow, ReportNow, BegunNow>>
      BY <2>1, <3>1 DEF SnapshotNow, ReportNow, BegunNow, Pending
    <3>3. Window!Change
      BY <2>1, <2>h, <3>2 DEF Window!Change, Window!Memories, Memories, SnapshotNow, ReportNow,
         BegunNow
    <3> QED
      BY <3>3 DEF Window!Next
  <2>2. CASE Application
    <3>1. ASSUME NEW t \in Threads, NEW p \in 1 .. Pages, NEW v \in Values, Write(t, p, v)
          PROVE  Window!Next
      <4>1. Active(t) /\ UNCHANGED <<pc, copy, page, dirty>>
        BY <3>1 DEF Write, vars, kvars
      <4>2. ~Reading
        BY <4>1 DEF StartInv, Still, Reading
      <4> QED
        BY <2>1, <4>1, <4>2 DEF KTypeOK
    <3>2. CASE Environment /\ Exec /\ NewImage
      <4>1. Active(Leader) /\ UNCHANGED <<pc, copy, page, dirty>>
        BY <3>2 DEF Environment, kvars, NewImage, Exec, Active, Doomed
      <4>2. ~Reading
        BY <4>1, TraceesAssumption DEF StartInv, Still, Reading
      <4> QED
        BY <2>1, <4>1, <4>2 DEF KTypeOK
    <3>3. CASE Environment /\ UNCHANGED memvars
      <4>1. pc' = pc
        BY <3>3 DEF Environment, kvars
      <4> QED
        BY <2>h, <3>3, <4>1, SameOutside DEF Reading
    <3> QED
      BY <2>2, <3>1, <3>2, <3>3 DEF Application
  <2>3. CASE ReadPage
    BY <2>3, ReadPageSame
  <2>4. CASE ReadNothing
    BY <2>4, <2>h DEF ReadNothing
  <2>5. ASSUME UNCHANGED state, ~Reading, BeginSnapshot,
               \/ pc \in Startup /\ pc' = "work0"
               \/ pc \notin Startup \cup Ended \cup {"work"} /\ pc' = "work"
        PROVE  Window!Next
    <3>1. Window!Take
      BY <2>5, <2>h, TakeRefines DEF Window!Take, SnapshotNow, ReportNow, BegunNow
    <3> QED
      BY <3>1 DEF Window!Next
  <2>6. CASE FirstSnapshotBegins
    <3>1. UNCHANGED state /\ BeginSnapshot /\ pc = "sp" /\ pc' = "work0"
      BY <2>6 DEF FirstSnapshotBegins, SeizeDone, Goto, tvars
    <3> QED
      BY <2>5, <3>1 DEF Startup, Reading
  <2>7. CASE PauseDoneTimed
    <3>1. UNCHANGED state /\ pc = "pa" /\ pc' \in {"finished", "work"}
      BY <2>7 DEF PauseDoneTimed, PauseDone, Goto, tvars
    <3>2. CASE pc' = "work"
      BY <2>5, <2>7, <3>1, <3>2 DEF PauseDoneTimed, Startup, Ended, Reading
    <3>3. CASE pc' = "finished"
      <4>1. UNCHANGED memvars
        BY <2>7, <3>3 DEF PauseDoneTimed
      <4> QED
        BY <2>h, <3>1, <3>3, <4>1, SameOutside DEF Reading
    <3> QED
      BY <3>1, <3>2, <3>3
  <2>8. CASE SnapshotTaken
    BY <2>8, <2>h, TakenSame
  <2>9. CASE GetTidsTimed \/ ResumeDoneTimed \/ CheckDoneTimed
    <3>1. /\ UNCHANGED memvars /\ pc' \in {"sp", "sleep", "pa"}
          /\ pc \in {"gettids", "resume"} \cup Waiting
      BY <2>9 DEF GetTidsTimed, GetTids, ResumeDoneTimed, ResumeDone, CheckDoneTimed,
         CheckDone, NothingToReport, Goto
    <3> QED
      BY <2>h, <3>1, SameOutside DEF Reading, Waiting
  <2>10. CASE LoopTimed
    <3>1. /\ pc = "loop" /\ pc' \in {"finished", "resume"}
          /\ UNCHANGED <<memory, copy, page, dirty>>
      BY <2>10 DEF LoopTimed, WriteProtectPages, Loop, Goto
    <3> QED
      BY <2>h, <3>1 DEF Same, SnapshotNow, ReportNow, BegunNow, Pending, Reading
  <2>11. CASE Control
    <3>1. UNCHANGED memvars
      BY <2>11 DEF Control
    <3> QED
      BY <2>h, <2>11, <3>1, ControlWithinPhase, SameOutside
  <2>12. CASE UNCHANGED kkvars
    <3>1. UNCHANGED memvars /\ UNCHANGED pc
      BY <2>12 DEF kkvars, vars, kvars
    <3> QED
      BY <2>h, <3>1, SameOutside DEF Reading
  <2> QED
    BY <2>2, <2>3, <2>4, <2>6, <2>7, <2>8, <2>9, <2>10, <2>11, <2>12 DEF KNext
<1> QED
  BY <1>1, <1>2

LEMMA WindowInit == KInit => Window!Init
<1> SUFFICES ASSUME KInit  PROVE Window!Init
  OBVIOUS
<1> USE KTrackerAssumption
<1>1. /\ memory \in Memories /\ copy = [p \in 1 .. Pages |-> Clean]
      /\ page = 1 /\ dirty = {} /\ pc = "seize"
  BY DEF KInit, Init
<1>2. ~Reading
  BY <1>1 DEF Reading
<1>3. HasMemory = TRUE
  BY TraceesAssumption DEF KInit, Init, TraceesInit, HasMemory
<1>4. Pending = {} /\ BegunNow = FALSE
  BY <1>1, <1>2 DEF Pending, BegunNow
<1> QED
  BY <1>1, <1>2, <1>3, <1>4 DEF Window!Init, Window!Memories, Memories, BegunNow

(* What the tracker reports of an application that it has started is, in   *)
(* each window, what changed between two moments of its memory, although   *)
(* the pages are read one by one and threads are born, exit and are killed *)
(* meanwhile; when the leader is gone, the rest of a report is missing.    *)
THEOREM ReportsWindowHolds ==
  ASSUME Seized
  PROVE  KSpec => ReportsWindow
<1>1. KInit => Between
  BY DEF KInit, Init, Between, Startup
<1>2. KSpec => []Between
  BY <1>1, BetweenNext, KTypeCorrect, PTL DEF KSpec
<1>3. KSpec => [](IInv /\ StartInv /\ MemoryInv)
  BY ControlInvariance, MemoryInvariance, PTL
<1>4. KSpec => [][Window!Next]_<<memory, SnapshotNow, ReportNow, BegunNow, HasMemory>>
  <2>1. IInv /\ StartInv /\ KTypeOK /\ KTypeOK' /\ MemoryInv /\ MemoryInv' /\ Between
          /\ [KNext]_kkvars
        => [Window!Next]_<<memory, SnapshotNow, ReportNow, BegunNow, HasMemory>>
    BY WindowNext DEF Same
  <2> QED
    BY <1>2, <1>3, <2>1, KTypeCorrect, PTL DEF KSpec
<1>5. KSpec => Window!Init
  BY WindowInit DEF KSpec
<1> QED
  BY <1>4, <1>5, PTL DEF ReportsWindow, Window!Spec, SnapshotNow, ReportNow, BegunNow
=============================================================================

--------------------------- MODULE StartupProofs ---------------------------
(***************************************************************************)
(* An application that the tracker has started itself and seized before    *)
(* its execvp is stopped as a whole at the first snapshot, too, and from   *)
(* the end of each pause to the next resume, for any number of threads and *)
(* any behaviour of the application.                                       *)
(***************************************************************************)
EXTENDS TrackerProofs

USE DEF Stops, Absent, States, AppOps

----------------------------------------------------------------------------
(* The application and the kernel.                                         *)

(* During the startup the leader does nothing that needs the application's *)
(* code; the only event of its own is its execvp.                          *)
LEMMA NoCodeYet ==
  ASSUME IInv, LeaderAlone, pc \in Startup, NEW t \in Threads, NEW op
  PROVE  ~Does(t, op)
<1>1. SUFFICES ASSUME Does(t, op)  PROVE FALSE
  OBVIOUS
<1>2. state[t] = "running" /\ launched
  BY <1>1 DEF Does
<1>3. t = Leader
  BY <1>2 DEF LeaderAlone
<1> QED
  BY <1>2, <1>3 DEF LeaderAlone

LEMMA EnvironmentLeader ==
  ASSUME IInv, Seized, LeaderAlone, Environment
  PROVE  /\ LeaderAlone'
         /\ pc \in Startup /\ state[Leader] \in Leaving => state'[Leader] \in Leaving
<1> DEFINE Keeps == /\ LeaderAlone'
                    /\ state[Leader] \in Leaving => state'[Leader] \in Leaving
<1>p. UNCHANGED pc
  BY DEF Environment, kvars
<1> SUFFICES ASSUME pc \in Startup  PROVE Keeps
  BY <1>p DEF LeaderAlone
<1>t. /\ Leader \in Threads
      /\ state \in [Threads -> States]
      /\ traced \in [Threads -> BOOLEAN]
      /\ launched \in BOOLEAN
      /\ \A t \in Threads \ {Leader} : state[t] = "unborn"
      /\ state[Leader] \in {"running", "exec", "stop"} \cup Leaving
      /\ launched => state[Leader] # "running"
  BY TraceesAssumption DEF IInv, Typed, TypeOK, TraceesTypeOK, LeaderAlone
<1>d. \A t \in Threads : \A op : ~Does(t, op)
  BY NoCodeYet
<1> USE <1>p, <1>t DEF LeaderAlone, Leaving
<1>1. ASSUME NEW t \in Threads, NEW u \in Threads, Clone(t, u) \/ Fork(t, u)
      PROVE  Keeps
  BY <1>1, <1>d DEF Clone, Fork
<1>2. ASSUME NEW t \in Threads, Exit(t) \/ Signal(t) \/ ExitGroup(t)
      PROVE  Keeps
  BY <1>2, <1>d DEF Exit, Signal, ExitGroup
<1>3. CASE Exec
  <2>1. traced[Leader]
    BY <1>3 DEF Exec, Seized
  <2>2. state' = [state EXCEPT ![Leader] = "exec"] /\ state[Leader] = "running"
    BY <1>3, <2>1 DEF Exec, Trap
  <2> QED
    BY <2>2
<1>4. CASE SigKill
  <2>1. traced[Leader] /\ launched' = launched
    BY <1>4 DEF SigKill
  <2>2. \A u \in Threads : state'[u] = Killed(u)
    BY <1>4 DEF SigKill
  <2> QED
    BY <2>1, <2>2 DEF Killed
<1>5. ASSUME NEW t \in Threads, EventStop(t) \/ KilledStop(t) \/ Die(t)
      PROVE  Keeps
  <2>1. t = Leader /\ launched' = launched
    BY <1>5 DEF EventStop, KilledStop, Die
  <2>2. \/ state' = [state EXCEPT ![Leader] = "stop"] /\ state[Leader] \in {"running", "starting"}
        \/ state' = [state EXCEPT ![Leader] = "exit"]
        \/ state' = [state EXCEPT ![Leader] = "zombie"]
    BY <1>5, <2>1 DEF EventStop, KilledStop, Die, Trap
  <2> QED
    BY <2>1, <2>2
<1> QED
  BY <1>1, <1>2, <1>3, <1>4, <1>5 DEF Environment, App, Kernel

(* Only a thread that runs can make another one run.                       *)
LEMMA EnvironmentStill ==
  ASSUME IInv, Environment, \A t \in Threads : ~Active(t)
  PROVE  \A t \in Threads : ~Active(t)'
<1>t. /\ Leader \in Threads
      /\ state \in [Threads -> States]
  BY TraceesAssumption DEF IInv, Typed, TypeOK, TraceesTypeOK
<1>d. \A t \in Threads : \A op : ~Does(t, op)
  BY DEF Does, Active
<1> TAKE t \in Threads
<1> USE <1>t
<1>1. ASSUME NEW v \in Threads, NEW u \in Threads, Clone(v, u) \/ Fork(v, u)
      PROVE  ~Active(t)'
  BY <1>1, <1>d DEF Clone, Fork
<1>2. ASSUME NEW v \in Threads, Exit(v) \/ Signal(v) \/ ExitGroup(v)
      PROVE  ~Active(t)'
  BY <1>2, <1>d DEF Exit, Signal, ExitGroup
<1>3. CASE Exec
  BY <1>3 DEF Exec, Active, Doomed
<1>4. CASE SigKill
  <2>1. forked' = forked /\ killed'
    BY <1>4 DEF SigKill
  <2>2. state'[t] = Killed(t)
    BY <1>4 DEF SigKill
  <2>3. state'[t] = "running" => state[t] = "running"
    BY <2>2 DEF Killed
  <2> QED
    BY <2>1, <2>3 DEF Active, Doomed
<1>5. ASSUME NEW v \in Threads, EventStop(v) \/ KilledStop(v) \/ Die(v)
      PROVE  ~Active(t)'
  <2>1. UNCHANGED <<forked, killed>>
    BY <1>5 DEF EventStop, KilledStop, Die
  <2>2. state'[t] = "running" => state[t] = "running"
    BY <1>5 DEF EventStop, KilledStop, Die, Trap
  <2> QED
    BY <2>1, <2>2 DEF Active, Doomed
<1> QED
  BY <1>1, <1>2, <1>3, <1>4, <1>5 DEF Environment, App, Kernel

LEMMA EnvironmentStart ==
  ASSUME IInv, Seized, StartInv, Environment
  PROVE  StartInv'
<1>1. UNCHANGED <<pc, idx, tid, ntids, waitfor>>
  BY DEF Environment, kvars
<1>2. LeaderAlone' /\ (pc \in Startup /\ state[Leader] \in Leaving => state'[Leader] \in Leaving)
  BY EnvironmentLeader DEF StartInv
<1>3. Held(Leader) => Held(Leader)'
  BY EnvironmentKeeps, TraceesAssumption DEF IInv, Typed, TypeOK, Environment
<1>4. FirstPause'
  BY <1>1, <1>2, <1>3 DEF StartInv, FirstPause
<1>5. Still'
  BY <1>1, EnvironmentStill DEF StartInv, Still
<1> QED
  BY <1>2, <1>4, <1>5 DEF StartInv

----------------------------------------------------------------------------
(* The tracker.                                                            *)

(* Outside the startup and the snapshots nothing is claimed.               *)
LEMMA Elsewhere ==
  ASSUME pc' \notin Startup \cup {"work", "loop"}
  PROVE  StartInv'
BY DEF StartInv, LeaderAlone, FirstPause, Still, Startup

(* In the first pause only the leader reports, and only once.              *)
LEMMA CheckStatusStart ==
  ASSUME IInv, Seized, StartInv, CheckStatus
  PROVE  StartInv'
<1>w. pc \in Waiting
  BY DEF CheckStatus, OnExited, OnExitEvent, OnForkEvent, OnExecEvent,
         OnCloneOrSignal, OnNewThread, OnPaused, CheckDone, NothingToReport,
         NoChild, Awaited
<1>1. CASE pc # "spWait"
  <2>1. pc' \in {"drain", "paWait", "pa", "aborted"}
    BY <1>w, <1>1
       DEF Waiting, CheckStatus, OnExited, OnExitEvent, OnForkEvent, OnExecEvent,
           OnCloneOrSignal, OnNewThread, OnPaused, CheckDone, NoChild, kvars,
           Abort, Goto
  <2> QED
    BY <2>1, Elsewhere DEF Startup
<1>2. CASE pc = "spWait"
  <2>t. /\ Leader \in Threads
        /\ state \in [Threads -> States]
        /\ seen \in [Threads -> BOOLEAN]
        /\ traced[Leader]
    BY <1>2, TraceesAssumption
       DEF IInv, Typed, TypeOK, TraceesTypeOK, BornTraced, Seized
  <2>s. /\ \A t \in Threads \ {Leader} : state[t] = "unborn"
        /\ state[Leader] \in {"running", "exec", "stop"} \cup Leaving
        /\ launched => state[Leader] # "running"
        /\ Len(tid) = 1 /\ ntids = 1
        /\ tid[1] \in {Leader, NoPid}
        /\ state[Leader] \notin Leaving => tid[1] = Leader
        /\ waitfor = NoPid => Held(Leader)
    BY <1>2 DEF StartInv, LeaderAlone, FirstPause, Startup
  <2>e. /\ DOMAIN tid = 1..Len(tid)
        /\ \A t : t \in Known <=> t # NoPid /\ \E i \in DOMAIN tid : tid[i] = t
    BY Entries DEF IInv, Typed
  <2>a. \A t \in Threads : Awaited(t) => t = Leader /\ Reportable(Leader)
    BY <2>s DEF Awaited, Reportable, Waitable
  <2>n. Leader # NoPid
    BY <2>t, NoPidAssumption
  <2>i. idx = 1
    <3>1. idx \in Nat \ {0} /\ idx <= ntids
      BY <1>2 DEF IInv, Typed, TypeOK, InTable
    <3> QED
      BY <3>1, <2>s
  <2>o. Awaited(Leader) /\ state[Leader] # "zombie" /\ state[Leader] # "exit" =>
          waitfor = Leader /\ tid[1] = Leader
    BY <2>s, <2>t DEF Awaited, Reportable, Waitable, Held, Quiet, Leaving
  <2>l. ASSUME state' = [state EXCEPT ![Leader] = "reaped"]
               \/ state' = [state EXCEPT ![Leader] = "dying"],
               tid' = MarkExited(Leader), UNCHANGED <<pc, ntids>>
        PROVE  StartInv'
    <3>1. LeaderAlone'
      BY <2>l, <2>s, <2>t DEF LeaderAlone, Leaving
    <3>2. DOMAIN tid' = 1..1 /\ Len(tid') = 1 /\ tid'[1] = NoPid
      BY <2>l, <2>s, <2>e, <2>n, MarkExitedType
         DEF MarkExited, IInv, Typed, TypeOK
    <3>3. Held(Leader)'
      BY <2>l, <2>t DEF Held, Quiet
    <3>4. FirstPause' /\ Still'
      BY <1>2, <2>l, <2>s, <3>2, <3>3, <2>t DEF FirstPause, Still, Leaving
    <3> QED
      BY <3>1, <3>4 DEF StartInv
  <2>1. ASSUME NEW t \in Threads, OnExited(t)  PROVE StartInv'
    BY <2>1, <2>a, <2>l DEF OnExited, Reap
  <2>2. ASSUME NEW t \in Threads, OnExitEvent(t)  PROVE StartInv'
    <3>1. t = Leader /\ state[Leader] = "exit"
      BY <2>2, <2>a DEF OnExitEvent
    <3> QED
      BY <2>2, <3>1, <2>l DEF OnExitEvent, Cont, Continued
  <2>3. ASSUME NEW t \in Threads, OnForkEvent(t) \/ OnCloneOrSignal(t)
        PROVE  StartInv'
    BY <2>3, <2>a, <2>s DEF OnForkEvent, OnCloneOrSignal, Leaving
  <2>4. ASSUME NEW t \in Threads, Notice(t), Awaited(t), state[t] \in {"exec", "stop"},
               UNCHANGED <<idx, tid, ntids>>,
               pc' = pc \/ pc' = "aborted"
        PROVE  StartInv'
    <3>1. t = Leader
      BY <2>4, <2>a
    <3>2. UNCHANGED <<state, launched, traced>> /\ seen'[Leader]
      BY <2>4, <3>1, <2>t DEF Notice
    <3>3. Held(Leader)'
      BY <2>4, <3>1, <3>2 DEF Held, Quiet
    <3>4. CASE pc' = "aborted"
      BY <3>4, Elsewhere DEF Startup
    <3>5. CASE pc' = pc
      <4>1. LeaderAlone'
        BY <3>5, <3>2, <2>s DEF LeaderAlone
      <4>2. FirstPause' /\ Still'
        BY <1>2, <3>5, <3>2, <3>3, <2>4, <2>s DEF FirstPause, Still
      <4> QED
        BY <4>1, <4>2 DEF StartInv
    <3> QED
      BY <2>4, <3>4, <3>5
  <2>5. ASSUME NEW t \in Threads, OnExecEvent(t)  PROVE StartInv'
    <3>1. t = Leader /\ waitfor = t
      BY <2>5, <2>a, <2>o DEF OnExecEvent
    <3> QED
      BY <2>5, <3>1, <2>4 DEF OnExecEvent
  <2>6. ASSUME NEW t \in Threads, OnNewThread(t)  PROVE StartInv'
    <3>1. t = Leader /\ tid[1] = Leader
      BY <2>6, <2>a, <2>o DEF OnNewThread
    <3>2. Leader \in Known
      BY <3>1, <2>e, <2>s, <2>n
    <3> QED
      BY <2>6, <3>1, <3>2 DEF OnNewThread, ProcIsNew
  <2>7. ASSUME NEW t \in Threads, OnPaused(t)  PROVE StartInv'
    BY <2>7, <2>4 DEF OnPaused, Abort
  <2>8. CASE CheckDone
    <3>1. /\ pc' = "sp" /\ UNCHANGED <<tvars, tid, ntids>>
          /\ waitfor = NoPid
      BY <1>2, <2>8 DEF CheckDone, NothingToReport, Goto
    <3>2. UNCHANGED <<state, launched, traced, seen>>
      BY <3>1 DEF tvars
    <3>3. Held(Leader)'
      BY <3>1, <3>2, <2>s DEF Held, Quiet
    <3>4. LeaderAlone'
      BY <3>2, <2>s DEF LeaderAlone
    <3>5. FirstPause' /\ Still'
      BY <3>1, <3>2, <3>3, <2>s DEF FirstPause, Still
    <3> QED
      BY <3>4, <3>5 DEF StartInv
  <2>9. CASE NoChild
    BY <2>9, Elsewhere DEF NoChild, Abort, Startup
  <2> QED
    BY <2>1, <2>2, <2>3, <2>5, <2>6, <2>7, <2>8, <2>9 DEF CheckStatus
<1> QED
  BY <1>1, <1>2

(* The list of threads is the leader.                                      *)
LEMMA GetTidsStart ==
  ASSUME IInv, Seized, StartInv, GetTids
  PROVE  StartInv'
<1>1. PICK n \in 1..Cardinality(Threads) :
        \E list \in [1..n -> {t \in Threads : state[t] \notin Absent}] :
          /\ list[1] = Leader
          /\ \A i, j \in 1..n : list[i] = list[j] => i = j
          /\ tid' = list
          /\ ntids' = n
  BY DEF GetTids
<1>2. /\ pc = "gettids" /\ pc' = "sp" /\ idx' = 1
      /\ UNCHANGED <<state, launched>>
  BY DEF GetTids, Goto, tvars
<1>3. \A t \in Threads \ {Leader} : state[t] = "unborn"
  BY <1>2 DEF StartInv, LeaderAlone, Startup
<1>4. tid' \in [1..n -> {Leader}] /\ \A i, j \in 1..n : tid'[i] = tid'[j] => i = j
  BY <1>1, <1>3
<1>5. n \in Nat /\ n >= 1
  <2>1. n \in Int /\ n >= 1
    BY <1>1
  <2> QED
    BY <2>1
<1>6. n = 1
  <2>1. 1 \in 1..n /\ n \in 1..n
    BY <1>5
  <2>2. tid'[1] = Leader /\ tid'[n] = Leader
    BY <1>4, <2>1
  <2> QED
    BY <1>4, <2>1, <2>2
<1>7. tid' \in [1..1 -> {Leader}] /\ ntids' = 1
  BY <1>1, <1>4, <1>6
<1>8. Len(tid') = 1 /\ tid'[1] = Leader
  <2>1. tid' \in Seq({Leader})
    BY <1>7, SeqDef
  <2>2. DOMAIN tid' = 1..1 /\ tid'[1] = Leader
    BY <1>7
  <2> QED
    BY <2>1, <2>2, LenProperties
<1>9. LeaderAlone'
  BY <1>2 DEF StartInv, LeaderAlone, Startup
<1>10. FirstPause' /\ Still'
  BY <1>2, <1>7, <1>8 DEF FirstPause, Still
<1> QED
  BY <1>9, <1>10 DEF StartInv

LEMMA TrackerStart ==
  ASSUME IInv, IInv', Seized, StartInv, Tracker
  PROVE  StartInv'
<1>t. /\ Leader \in Threads /\ Leader # NoPid
      /\ state \in [Threads -> States]
      /\ Typed /\ BornTraced
  BY TraceesAssumption, NoPidAssumption DEF IInv, Typed, TypeOK, TraceesTypeOK
<1>1. CASE SeizeLeader
  <2>1. pc = "seize" /\ pc' = "gettids" /\ UNCHANGED <<state, launched>>
    BY <1>1 DEF SeizeLeader, Seize, Goto
  <2> QED
    BY <2>1 DEF StartInv, LeaderAlone, FirstPause, Still, Startup
<1>2. CASE GetTids
  BY <1>2, GetTidsStart
<1>3. CASE SeizeNext
  <2>1. pc = "sp" /\ idx <= ntids /\ Len(tid) = 1 /\ ntids = 1 /\ tid[1] \in {Leader, NoPid}
    BY <1>3 DEF SeizeNext, StartInv, FirstPause, Startup
  <2>2. idx = 1
    <3>1. idx \in Nat \ {0}
      BY <1>t DEF Typed, TypeOK
    <3> QED
      BY <2>1, <3>1
  <2>3. CASE tid[1] = Leader
    <3>1. /\ pc' = "spPause" /\ idx' = 1
          /\ UNCHANGED <<tid, ntids>> /\ UNCHANGED <<state, launched>>
      BY <1>3, <2>2, <2>3 DEF SeizeNext, Goto, tvars
    <3> QED
      BY <2>1, <3>1 DEF StartInv, LeaderAlone, FirstPause, Still, Startup
  <2>4. CASE tid[1] = NoPid
    <3>1. pc' = "aborted"
      BY <1>3, <2>2, <2>4, <1>t DEF SeizeNext, Abort
    <3> QED
      BY <3>1, Elsewhere DEF Startup
  <2> QED
    BY <2>1, <2>3, <2>4
<1>4. CASE SeizedPause
  <2>1. /\ pc = "spPause" /\ Len(tid) = 1 /\ ntids = 1 /\ tid[1] \in {Leader, NoPid}
        /\ state[Leader] \notin Leaving => tid[1] = Leader
    BY <1>4 DEF SeizedPause, StartInv, FirstPause, Startup
  <2>2. idx = 1 /\ tid[1] = Leader
    <3>1. idx \in Nat \ {0} /\ idx <= 1 /\ tid[idx] # NoPid
      BY <2>1, <1>t DEF Typed, TypeOK, InTable
    <3>2. idx = 1
      BY <3>1
    <3> QED
      BY <3>1, <3>2, <2>1
  <2>3. UNCHANGED <<state, launched, traced, seen>> /\ UNCHANGED <<tid, ntids>>
    BY <1>4 DEF SeizedPause, ProcPause, Interrupt, tvars
  <2>4. CASE CanInterrupt(Leader)
    <3>1. pc' = "spWait" /\ waitfor' = Leader
      BY <1>4, <2>2, <2>4 DEF SeizedPause, ProcPause, Goto
    <3> QED
      BY <1>t, <2>1, <2>3, <3>1 DEF StartInv, LeaderAlone, FirstPause, Still, Startup
  <2>5. CASE ~CanInterrupt(Leader)
    <3>1. pc' = "sp"
      BY <1>4, <2>2, <2>5 DEF SeizedPause, ProcPause, Goto
    <3>2. traced[Leader]
      BY <1>t, <2>1 DEF BornTraced, Seized
    <3>3. state[Leader] \in Absent
      BY <2>5, <3>2, <1>t DEF CanInterrupt, Children
    <3>4. state[Leader] = "reaped"
      BY <3>3, <1>t DEF BornTraced
    <3>5. Held(Leader)'
      BY <3>4, <2>3 DEF Held, Quiet
    <3> QED
      BY <2>1, <2>3, <3>1, <3>5 DEF StartInv, LeaderAlone, FirstPause, Still, Startup
  <2> QED
    BY <2>4, <2>5
<1>5. CASE SeizeDone
  <2>1. /\ pc = "sp" /\ idx > ntids /\ ntids = 1
        /\ pc' = "work0" /\ UNCHANGED <<tid, ntids>> /\ UNCHANGED tvars
    BY <1>5 DEF SeizeDone, Goto, StartInv, FirstPause, Startup
  <2>2. UNCHANGED <<state, launched, traced, seen, killed, forked>>
    BY <2>1 DEF tvars
  <2>3. Held(Leader)
    BY <2>1 DEF StartInv, FirstPause, Startup
  <2>4. traced[Leader]
    BY <1>t, <2>1 DEF BornTraced, Seized
  <2>5. state[Leader] # "running"
    BY <2>3, <2>4 DEF Held, Quiet
  <2>6. \A t \in Threads \ {Leader} : state[t] = "unborn"
    BY <2>1 DEF StartInv, LeaderAlone, Startup
  <2>7. Still'
    BY <2>2, <2>5, <2>6 DEF Still, Active
  <2>8. Held(Leader)'
    BY <2>3, <2>2 DEF Held, Quiet
  <2>9. LeaderAlone' /\ FirstPause'
    BY <2>1, <2>2, <2>8 DEF StartInv, LeaderAlone, FirstPause, Startup
  <2> QED
    BY <2>7, <2>9 DEF StartInv
<1>6. CASE CheckStatus
  BY <1>6, CheckStatusStart
<1>7. CASE FirstSnapshot \/ Snapshot
  <2>1. pc \in {"work0", "work"} /\ pc' = "loop" /\ UNCHANGED tvars
    BY <1>7 DEF FirstSnapshot, Snapshot, Goto
  <2>2. UNCHANGED <<state, killed, forked>>
    BY <2>1 DEF tvars
  <2> QED
    BY <2>1, <2>2 DEF StartInv, LeaderAlone, FirstPause, Still, Startup, Active, Doomed
<1>8. CASE PauseDone
  <2>1. pc' \in {"finished", "work"}
    BY <1>8 DEF PauseDone, Goto
  <2>2. WorldStopped'
    BY IInvSafe, PTL
  <2>3. pc' = "work" => Still'
    BY <2>2 DEF WorldStopped, Still, Seized
  <2>4. CASE pc' = "work"
    BY <2>3, <2>4 DEF StartInv, LeaderAlone, FirstPause, Startup
  <2> QED
    BY <2>1, <2>4, Elsewhere DEF Startup
<1>9. CASE Loop \/ ResumeNext \/ ResumeDone \/ Wake \/ PauseNext
  <2>1. pc' \in {"finished", "resume", "sleep", "drain", "pa", "paWait"}
    BY <1>9 DEF Loop, ResumeNext, ResumeDone, Wake, PauseNext, ProcPause, Goto
  <2> QED
    BY <2>1, Elsewhere DEF Startup
<1> QED
  BY <1>1, <1>2, <1>3, <1>4, <1>5, <1>6, <1>7, <1>8, <1>9 DEF Tracker

----------------------------------------------------------------------------
LEMMA StartInit == Init /\ Seized => StartInv
<1> SUFFICES ASSUME Init, Seized  PROVE StartInv
  OBVIOUS
<1>1. /\ pc = "seize" /\ ~launched
      /\ state = [t \in Threads |-> IF t \in {Leader} THEN "running" ELSE "unborn"]
  BY DEF Init, TraceesInit, Seized
<1> QED
  BY <1>1, TraceesAssumption DEF StartInv, LeaderAlone, FirstPause, Still, Startup

LEMMA StartNext == IInv /\ IInv' /\ (Seized => StartInv) /\ [Next]_vars => (Seized => StartInv)'
<1> SUFFICES ASSUME IInv, IInv', Seized, StartInv, [Next]_vars  PROVE StartInv'
  BY DEF Seized
<1>1. CASE SigInt \/ Terminated \/ UNCHANGED vars
  <2>1. UNCHANGED <<tvars, pc, idx, tid, ntids, waitfor>>
    BY <1>1 DEF SigInt, Terminated, vars, kvars
  <2>2. UNCHANGED <<state, launched, traced, seen, killed, forked>>
    BY <2>1 DEF tvars
  <2>3. LeaderAlone'
    BY <2>1, <2>2 DEF StartInv, LeaderAlone
  <2>4. Held(Leader) => Held(Leader)'
    BY <2>2 DEF Held, Quiet
  <2>5. FirstPause'
    BY <2>1, <2>2, <2>4 DEF StartInv, FirstPause
  <2>6. Still'
    BY <2>1, <2>2 DEF StartInv, Still, Active, Doomed
  <2> QED
    BY <2>3, <2>5, <2>6 DEF StartInv
<1>2. CASE SigIntInWait
  BY <1>2, Elsewhere DEF SigIntInWait, Startup
<1> QED
  BY <1>1, <1>2, EnvironmentStart, TrackerStart DEF Next

LEMMA StartInvariance == Spec => [](Seized => StartInv)
<1>1. Init => (Seized => StartInv)
  BY StartInit
<1> QED
  BY <1>1, StartNext, Invariance, PTL DEF Spec

(* In the mode -c the first snapshot, too, sees a stopped application: no  *)
(* thread can be cloned while proc_seize_and_pause runs, because the only  *)
(* one is stopped at the latest at its execvp.                             *)
THEOREM FirstStoppedHolds == Spec => [](Seized => FirstStopped)
<1>1. (Seized => StartInv) => (Seized => FirstStopped)
  BY DEF StartInv, Still, FirstStopped
<1> QED
  BY <1>1, StartInvariance, PTL
=============================================================================

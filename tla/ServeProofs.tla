---------------------------- MODULE ServeProofs ----------------------------
(***************************************************************************)
(* Theorems about how Tracker serves the stops of the application: a thread*)
(* has one entry in the table, proc_resume_all forgets nobody, and, when   *)
(* the application does none of the things that main and proc_check_status *)
(* have no answer to, every blocking waitpid is answered.                  *)
(***************************************************************************)
EXTENDS TrackerProofs

USE DEF Stops, Absent, States, AppOps

(* Only a stop that proc_check_status leaves alone stays seen, and only a  *)
(* thread of the table has one.                                            *)
SeenKnown ==
  \A t \in Threads : seen[t] => t \in Known /\ state[t] \in {"fork", "exec", "stop"}

(* proc_resume_all is done with the entries below idx, then with all.      *)
Resumed ==
  \A i \in DOMAIN tid :
    pc = "sleep" \/ (pc = "resume" /\ i < idx) => tid[i] = NoPid \/ ~seen[tid[i]]

(* The table is empty until get_tids fills it.                             *)
Unlisted == pc \in {"seize", "gettids"} => tid = << >>

ServeInv == TableInjective /\ SeenKnown /\ Resumed /\ Unlisted

----------------------------------------------------------------------------
(* No step of the application or the kernel makes a stop a seen one.       *)
LEMMA EnvironmentSeen ==
  ASSUME TraceesTypeOK, NEW t \in Threads,
         \A u \in Threads : seen[u] => state[u] \in {"fork", "exec", "stop"},
         App \/ \E u \in Threads : Kernel(u)
  PROVE  seen'[t] => seen[t] /\ state'[t] = state[t]
<1> DEFINE Keeps == seen'[t] => seen[t] /\ state'[t] = state[t]
<1> USE TraceesAssumption DEF TraceesTypeOK
<1>1. ASSUME NEW v \in Threads, NEW u \in Threads, Clone(v, u)
      PROVE  Keeps
  BY <1>1 DEF Clone, Does
<1>2. ASSUME NEW v \in Threads, NEW u \in Threads, Fork(v, u)
      PROVE  Keeps
  BY <1>2 DEF Fork, Does
<1>3. ASSUME NEW u \in Threads, Exit(u)
      PROVE  Keeps
  BY <1>3 DEF Exit, Does, Trap
<1>4. ASSUME NEW u \in Threads, Signal(u)
      PROVE  Keeps
  BY <1>4 DEF Signal, Does, Trap
<1>5. ASSUME NEW u \in Threads, ExitGroup(u)
      PROVE  Keeps
  BY <1>5 DEF ExitGroup, Does, Killed
<1>6. CASE Exec
  BY <1>6 DEF Exec, Trap
<1>7. CASE SigKill
  BY <1>7 DEF SigKill, Killed
<1>8. ASSUME NEW u \in Threads, EventStop(u)
      PROVE  Keeps
  BY <1>8 DEF EventStop, Trap
<1>9. ASSUME NEW u \in Threads, KilledStop(u)
      PROVE  Keeps
  BY <1>9 DEF KilledStop, Trap
<1>10. ASSUME NEW u \in Threads, Die(u)
       PROVE  Keeps
  BY <1>10 DEF Die
<1> QED
  BY <1>1, <1>2, <1>3, <1>4, <1>5, <1>6, <1>7, <1>8, <1>9, <1>10 DEF App, Kernel

(* Neither does PTRACE_SEIZE, PTRACE_INTERRUPT or PTRACE_CONT.             *)
LEMMA RequestSeen ==
  ASSUME TraceesTypeOK, NEW t \in Threads, NEW u \in Threads,
         Seize(t) \/ Interrupt(t) \/ Cont(t) \/ UNCHANGED tvars
  PROVE  seen'[u] => seen[u] /\ state'[u] = state[u]
BY DEF TraceesTypeOK, Seize, Interrupt, Cont, tvars

(* A step that leaves the table alone and makes no stop a seen one.        *)
LEMMA ServeKeeps ==
  ASSUME TypeOK, ServeInv, tid' = tid,
         \A t \in Threads : seen'[t] => seen[t] /\ state'[t] = state[t],
         pc' \in {"sleep", "resume"} =>
           (pc' = pc /\ idx' = idx) \/ (pc' = "resume" /\ idx' = 1),
         pc' \in {"seize", "gettids"} => pc \in {"seize", "gettids"}
  PROVE  ServeInv'
<1>1. TableInjective' /\ Unlisted'
  BY DEF ServeInv, TableInjective, Unlisted
<1>2. SeenKnown'
  BY DEF ServeInv, SeenKnown, Known
<1>3. Resumed'
  <2>1. SUFFICES ASSUME NEW i \in DOMAIN tid, tid[i] # NoPid, seen'[tid[i]],
                        pc' = "sleep" \/ (pc' = "resume" /\ i < idx')
                 PROVE  FALSE
    BY DEF Resumed
  <2>2. tid[i] \in Threads /\ i \in Nat \ {0} /\ ~(i < 1)
    BY <2>1, Entries
  <2>3. pc' = pc /\ idx' = idx
    BY <2>1, <2>2
  <2> QED
    BY <2>1, <2>2, <2>3 DEF ServeInv, Resumed
<1> QED
  BY <1>1, <1>2, <1>3 DEF ServeInv

(* proc_check_status leaves a stop of a thread of the table as it is.      *)
LEMMA ServeNotice ==
  ASSUME TypeOK, ServeInv, NEW t \in Threads, t \in Known, Notice(t), tid' = tid,
         state[t] \in {"fork", "exec", "stop"},
         pc' \in Waiting \cup {"aborted"}
  PROVE  ServeInv'
<1>1. TableInjective'
  BY DEF ServeInv, TableInjective
<1>2. SeenKnown'
  BY DEF ServeInv, SeenKnown, Known, Notice, TypeOK, TraceesTypeOK
<1>3. Resumed' /\ Unlisted'
  BY DEF Resumed, Unlisted, Waiting
<1> QED
  BY <1>1, <1>2, <1>3 DEF ServeInv

(* It crosses out a thread that exits.                                     *)
LEMMA ServeExited ==
  ASSUME TypeOK, ServeInv, NEW t \in Threads, tid' = MarkExited(t),
         \A u \in Threads : seen'[u] => u # t /\ seen[u] /\ state'[u] = state[u],
         pc' = pc, pc \in Waiting
  PROVE  ServeInv'
<1>1. /\ DOMAIN tid' = DOMAIN tid
      /\ \A i \in DOMAIN tid : tid'[i] = IF tid[i] = t THEN NoPid ELSE tid[i]
      /\ \A u \in Threads \ {t} : u \in Known => u \in Known'
  BY MarkExitedEntries
<1>2. TableInjective'
  BY <1>1 DEF ServeInv, TableInjective
<1>3. SeenKnown'
  BY <1>1 DEF ServeInv, SeenKnown
<1>4. Resumed' /\ Unlisted'
  BY DEF Resumed, Unlisted, Waiting
<1> QED
  BY <1>2, <1>3, <1>4 DEF ServeInv

(* It adds a thread that the table does not have yet.                      *)
LEMMA ServeAdded ==
  ASSUME TypeOK, ServeInv, NEW t \in Threads, t \notin Known, tid' = Append(tid, t),
         Cont(t), pc' = pc, pc \in Waiting
  PROVE  ServeInv'
<1>1. /\ DOMAIN tid = 1..Len(tid) /\ Len(tid) \in Nat
      /\ DOMAIN tid' = 1..(Len(tid) + 1)
      /\ \A i \in DOMAIN tid : tid'[i] = tid[i]
      /\ tid'[Len(tid) + 1] = t
  BY Entries, AppendProperties, LenProperties DEF TypeOK
<1>2. \A i \in DOMAIN tid : tid[i] # t
  BY NoPidAssumption DEF Known
<1>3. \A i \in DOMAIN tid' : i \in DOMAIN tid \/ i = Len(tid) + 1
  BY <1>1
<1>4. TableInjective'
  BY <1>1, <1>2, <1>3 DEF ServeInv, TableInjective
<1>5. SeenKnown'
  <2>1. \A u \in Threads : u \in Known => u \in Known'
    BY <1>1 DEF Known
  <2> QED
    BY <2>1, RequestSeen DEF ServeInv, SeenKnown, TypeOK
<1>6. Resumed' /\ Unlisted'
  BY DEF Resumed, Unlisted, Waiting
<1> QED
  BY <1>4, <1>5, <1>6 DEF ServeInv

LEMMA CheckStatusServes ==
  ASSUME IInv, ServeInv, CheckStatus
  PROVE  ServeInv'
<1>t. TypeOK /\ TraceesTypeOK
  BY DEF IInv, Typed, TypeOK
<1>s. \A t \in Threads : seen[t] => state[t] \in {"fork", "exec", "stop"}
  BY DEF ServeInv, SeenKnown
<1>k. ASSUME NEW t \in Threads, Awaited(t), state[t] \in {"fork", "exec"}
      PROVE  t \in Known
  BY <1>k DEF Awaited, Reportable, Waitable, Waiting, IInv, InKnown, Runs
<1>1. ASSUME NEW t \in Threads, OnExited(t)  PROVE ServeInv'
  <2>1. \A u \in Threads : seen'[u] => u # t /\ seen[u] /\ state'[u] = state[u]
    BY <1>1, <1>t, <1>s DEF OnExited, Reap, TraceesTypeOK
  <2> QED
    BY <1>1, <2>1, <1>t, ServeExited DEF OnExited, Awaited
<1>2. ASSUME NEW t \in Threads, OnExitEvent(t)  PROVE ServeInv'
  <2>1. \A u \in Threads : seen'[u] => u # t /\ seen[u] /\ state'[u] = state[u]
    BY <1>2, <1>t DEF OnExitEvent, Cont, TraceesTypeOK
  <2> QED
    BY <1>2, <2>1, <1>t, ServeExited DEF OnExitEvent, Awaited
<1>3. ASSUME NEW t \in Threads, OnForkEvent(t)  PROVE ServeInv'
  BY <1>3, <1>t, <1>k, ServeNotice DEF OnForkEvent, Awaited, kvars
<1>4. ASSUME NEW t \in Threads, OnExecEvent(t)  PROVE ServeInv'
  <2>1. CASE waitfor = t
    BY <1>4, <2>1, <1>t, <1>k, ServeNotice DEF OnExecEvent, Awaited
  <2>2. CASE waitfor # t
    <3>1. Cont(t) /\ UNCHANGED <<tid, pc, idx>> /\ pc \in Waiting
      BY <1>4, <2>2 DEF OnExecEvent, Awaited
    <3> QED
      BY <3>1, <1>t, RequestSeen, ServeKeeps DEF Waiting
  <2> QED
    BY <2>1, <2>2
<1>5. ASSUME NEW t \in Threads, OnCloneOrSignal(t)  PROVE ServeInv'
  <2>1. Cont(t) /\ UNCHANGED <<tid, pc, idx>> /\ pc \in Waiting
    BY <1>5 DEF OnCloneOrSignal, Awaited, kvars
  <2> QED
    BY <2>1, <1>t, RequestSeen, ServeKeeps DEF Waiting
<1>6. ASSUME NEW t \in Threads, OnNewThread(t)  PROVE ServeInv'
  BY <1>6, <1>t, ServeAdded DEF OnNewThread, Awaited, ProcIsNew
<1>7. ASSUME NEW t \in Threads, OnPaused(t)  PROVE ServeInv'
  BY <1>7, <1>t, ServeNotice DEF OnPaused, Awaited, ProcIsNew, Abort
<1>8. CASE CheckDone \/ NoChild
  <2>1. /\ UNCHANGED <<tvars, tid>>
        /\ pc' \in {"sp", "pa", "aborted"}
    BY <1>8 DEF CheckDone, NoChild, Goto, Abort
  <2>2. \A u \in Threads : seen'[u] => seen[u] /\ state'[u] = state[u]
    BY <2>1 DEF tvars
  <2> QED
    BY <2>1, <2>2, <1>t, ServeKeeps
<1> QED
  BY <1>1, <1>2, <1>3, <1>4, <1>5, <1>6, <1>7, <1>8 DEF CheckStatus

LEMMA TrackerServes ==
  ASSUME IInv, ServeInv, Tracker
  PROVE  ServeInv'
<1>t. TypeOK /\ TraceesTypeOK /\ InTable /\ Leader \in Threads
  BY TraceesAssumption DEF IInv, Typed, TypeOK
<1>e. /\ Len(tid) \in Nat /\ DOMAIN tid = 1..Len(tid)
      /\ \A i \in DOMAIN tid : tid[i] \in Threads <=> tid[i] # NoPid
  BY <1>t, Entries
<1>1. CASE SeizeLeader \/ SeizeNext \/ SeizedPause \/ PauseNext
  <2>1. /\ tid' = tid /\ pc \in {"seize", "sp", "spPause", "pa"}
        /\ pc' \in {"gettids", "spPause", "aborted", "spWait", "sp", "paWait", "pa"}
        /\ pc' = "gettids" => pc = "seize"
    BY <1>1 DEF SeizeLeader, SeizeNext, SeizedPause, PauseNext, ProcPause, Goto, Abort
  <2>2. \A u \in Threads : seen'[u] => seen[u] /\ state'[u] = state[u]
    <3>1. \/ UNCHANGED tvars
          \/ Seize(Leader)
          \/ idx \in DOMAIN tid /\ tid[idx] # NoPid
             /\ (Seize(tid[idx]) \/ Interrupt(tid[idx]))
      BY <1>1, <1>t, <1>e
         DEF SeizeLeader, SeizeNext, SeizedPause, PauseNext, ProcPause, InTable, TypeOK
    <3> QED
      BY <3>1, <1>t, <1>e, RequestSeen
  <2> QED
    BY <2>1, <2>2, <1>t, ServeKeeps
<1>2. CASE GetTids
  <2>1. /\ UNCHANGED tvars /\ pc' = "sp" /\ pc = "gettids"
        /\ \A i, j \in DOMAIN tid' : tid'[i] = tid'[j] => i = j
    BY <1>2 DEF GetTids, Goto
  <2>2. TableInjective' /\ Resumed' /\ Unlisted'
    BY <2>1 DEF TableInjective, Resumed, Unlisted
  <2>3. \A t \in Threads : t \notin Known
    BY <2>1 DEF ServeInv, Unlisted, Known
  <2>4. SeenKnown'
    BY <2>1, <2>3 DEF ServeInv, SeenKnown, tvars
  <2> QED
    BY <2>2, <2>4 DEF ServeInv
<1>3. CASE SeizeDone \/ FirstSnapshot \/ Loop \/ Wake \/ PauseDone \/ Snapshot
  <2>1. /\ UNCHANGED <<tvars, tid>>
        /\ pc' \in {"work0", "loop", "resume", "finished", "drain", "work"}
        /\ pc' = "resume" => idx' = 1
    BY <1>3 DEF SeizeDone, FirstSnapshot, Loop, Wake, PauseDone, Snapshot, Goto
  <2>2. \A u \in Threads : seen'[u] => seen[u] /\ state'[u] = state[u]
    BY <2>1 DEF tvars
  <2> QED
    BY <2>1, <2>2, <1>t, ServeKeeps
<1>4. CASE ResumeNext
  <2>1. /\ pc = "resume" /\ pc' = "resume" /\ tid' = tid /\ idx' = idx + 1
        /\ idx \in DOMAIN tid
        /\ IF tid[idx] # NoPid THEN Cont(tid[idx]) ELSE UNCHANGED tvars
    BY <1>4, <1>t, <1>e DEF ResumeNext, Goto, TypeOK
  <2>2. \A u \in Threads : seen'[u] => seen[u] /\ state'[u] = state[u]
    BY <2>1, <1>t, <1>e, RequestSeen
  <2>3. TableInjective' /\ SeenKnown' /\ Unlisted'
    BY <2>1, <2>2 DEF ServeInv, TableInjective, SeenKnown, Known, Unlisted
  <2>4. Resumed'
    <3>1. SUFFICES ASSUME NEW i \in DOMAIN tid, tid[i] # NoPid, seen'[tid[i]], i < idx + 1
                   PROVE  FALSE
      BY <2>1 DEF Resumed
    <3>2. seen[tid[i]] /\ tid[i] \in Threads
      BY <3>1, <2>2, <1>e
    <3>3. CASE i < idx
      BY <3>1, <3>2, <3>3, <2>1 DEF ServeInv, Resumed
    <3>4. CASE i = idx
      BY <3>1, <3>2, <3>4, <2>1, <1>t DEF Cont, TraceesTypeOK
    <3> QED
      BY <3>1, <3>3, <3>4, <2>1, <1>e
  <2> QED
    BY <2>3, <2>4 DEF ServeInv
<1>5. CASE ResumeDone
  <2>1. /\ pc = "resume" /\ pc' = "sleep" /\ UNCHANGED <<tvars, tid>>
        /\ \A i \in DOMAIN tid : i < idx
    BY <1>5, <1>t, <1>e DEF ResumeDone, Goto, TypeOK
  <2>2. UNCHANGED <<state, seen>>
    BY <2>1 DEF tvars
  <2> QED
    BY <2>1, <2>2 DEF ServeInv, TableInjective, SeenKnown, Known, Resumed, Unlisted
<1> QED
  BY <1>1, <1>2, <1>3, <1>4, <1>5, CheckStatusServes DEF Tracker

LEMMA ServeInit == Init => ServeInv
BY DEF Init, TraceesInit, ServeInv, TableInjective, SeenKnown, Resumed, Unlisted

LEMMA ServeNext == IInv /\ ServeInv /\ [Next]_vars => ServeInv'
<1> SUFFICES ASSUME IInv, ServeInv, [Next]_vars  PROVE ServeInv'
  OBVIOUS
<1>t. TypeOK /\ TraceesTypeOK
  BY DEF IInv, Typed, TypeOK
<1>1. CASE Environment
  <2>1. \A u \in Threads : seen'[u] => seen[u] /\ state'[u] = state[u]
    BY <1>1, <1>t, EnvironmentSeen DEF Environment, ServeInv, SeenKnown
  <2> QED
    BY <1>1, <2>1, <1>t, ServeKeeps DEF Environment, kvars
<1>2. CASE SigInt \/ SigIntInWait \/ Terminated \/ UNCHANGED vars
  <2>1. /\ UNCHANGED <<tvars, tid, idx>>
        /\ UNCHANGED pc \/ pc' = "aborted"
    BY <1>2 DEF SigInt, SigIntInWait, Terminated, vars, kvars
  <2>2. \A u \in Threads : seen'[u] => seen[u] /\ state'[u] = state[u]
    BY <2>1 DEF tvars
  <2> QED
    BY <2>1, <2>2, <1>t, ServeKeeps
<1> QED
  BY <1>1, <1>2, TrackerServes DEF Next

LEMMA ServeInvariance == Spec => [](IInv /\ ServeInv)
BY IInvInit, IInvNext, ServeInit, ServeNext, PTL DEF Spec

(* However add_tid and proc_mark_exited follow each other, a living thread *)
(* has one entry in the table.                                             *)
THEOREM TableInjectiveHolds == Spec => []TableInjective
<1>1. ServeInv => TableInjective
  BY DEF ServeInv
<1> QED
  BY <1>1, ServeInvariance, PTL

(* When proc_resume_all is done, no thread is left in a stop that waitpid  *)
(* has returned, whichever stop that was.                                  *)
THEOREM NoForgottenStopHolds == Spec => []NoForgottenStop
<1>1. IInv /\ ServeInv => NoForgottenStop
  <2>1. SUFFICES ASSUME IInv, ServeInv, pc = "sleep", NEW t \in Threads, seen[t]
                 PROVE  FALSE
    BY DEF NoForgottenStop
  <2>2. PICK i \in DOMAIN tid : tid[i] = t /\ t # NoPid
    BY <2>1 DEF ServeInv, SeenKnown, Known
  <2> QED
    BY <2>1, <2>2 DEF ServeInv, Resumed
<1> QED
  BY <1>1, ServeInvariance, PTL

----------------------------------------------------------------------------
(* The application does not fork, does not lose its leader or its life     *)
(* while other threads are there, and no clone or signal overtakes a       *)
(* pending PTRACE_INTERRUPT.  Each of these can leave the tracker waiting  *)
(* for a thread that stays silent.                                         *)
Calm ==
  /\ Ops \cap {"fork", "leaderexit", "exitgroup", "sigkill"} = {}
  /\ Racy \cap {"clone", "signal"} = {}

NobodyKilled ==
  /\ killed = FALSE /\ forked = {}
  /\ \A t \in Threads : state[t] # "fork"

(* The leader is the last to leave.                                        *)
LeaderIsLast ==
  state[Leader] \in Leaving => Alone(Leader)

(* The entries that are still to be paused have no stop that was seen.     *)
ToPause(i) ==
  \/ pc = "drain"
  \/ pc \in {"sp", "spPause", "pa"} /\ i >= idx
  \/ pc \in {"spWait", "paWait"} /\ i > idx

Unserved ==
  \A i \in DOMAIN tid : ToPause(i) => tid[i] = NoPid \/ ~seen[tid[i]]

(* The thread t will report its stop for the interrupt, its execvp or its  *)
(* exit, whatever other stops it reports before.                           *)
Answers(t) ==
  \/ state[t] \in {"exec", "stop"} /\ ~seen[t]
  \/ state[t] \in {"running", "clone", "signal"} /\ ~seen[t] /\ intr[t]
  \/ state[t] = "starting"
  \/ state[t] \in {"exit", "dying", "zombie"} /\ ~seen[t]

(* The thread that is awaited is the one the loop over the table is at.    *)
AwaitedEntry ==
  waitfor # NoPid /\ pc \notin Ended =>
    /\ pc \in {"spWait", "paWait"}
    /\ traced[waitfor] /\ Answers(waitfor)
    /\ tid[idx] = waitfor \/ state[waitfor] \in {"dying", "zombie"}

CalmInv == NobodyKilled /\ LeaderIsLast /\ Unserved /\ AwaitedEntry

(* What the application and the kernel can do to it.                       *)
LEMMA EnvironmentCalm ==
  ASSUME TraceesTypeOK, BornTraced, Calm, NobodyKilled, LeaderIsLast,
         App \/ \E u \in Threads : Kernel(u)
  PROVE  /\ NobodyKilled' /\ LeaderIsLast'
         /\ \A t \in Threads : traced[t] => traced'[t]
         /\ \A t \in Threads : traced[t] /\ Answers(t) => Answers(t)'
         /\ \A t \in Threads : state[t] \in {"dying", "zombie"} =>
                                state'[t] \in {"dying", "zombie"}
<1> DEFINE Keeps == /\ NobodyKilled' /\ LeaderIsLast'
                    /\ \A t \in Threads : traced[t] => traced'[t]
                    /\ \A t \in Threads : traced[t] /\ Answers(t) => Answers(t)'
                    /\ \A t \in Threads : state[t] \in {"dying", "zombie"} =>
                                           state'[t] \in {"dying", "zombie"}
<1>0. Leader \in Threads /\ Racy \subseteq AppOps /\ Ops \subseteq AppOps
  BY TraceesAssumption
<1>a. \A t \in Threads : /\ ~Doomed(t) /\ t \notin forked
                         /\ \A op : Does(t, op) => ~(state[Leader] \in Leaving)
  BY <1>0 DEF NobodyKilled, LeaderIsLast, Doomed, Does, Alone, Siblings, Leaving
<1> USE DEF TraceesTypeOK, NobodyKilled
<1>1. ASSUME NEW v \in Threads, NEW u \in Threads, Clone(v, u)
      PROVE  Keeps
  <2>1. /\ state[v] = "running" /\ state[u] = "unborn" /\ u # v
        /\ ~intr[v] /\ ~traced[u] /\ state[Leader] \notin Leaving
    BY <1>1, <1>a DEF Clone, Does, Calm, BornTraced
  <2>2. CASE traced[v]
    BY <1>1, <1>0, <2>1, <2>2 DEF Clone, LeaderIsLast, Answers, Leaving
  <2>3. CASE ~traced[v]
    BY <1>1, <1>0, <2>1, <2>3 DEF Clone, LeaderIsLast, Answers, Leaving
  <2> QED
    BY <2>2, <2>3
<1>2. ASSUME NEW v \in Threads, NEW u \in Threads, Fork(v, u)
      PROVE  Keeps
  BY <1>2 DEF Fork, Does, Calm
<1>3. ASSUME NEW u \in Threads, Exit(u)
      PROVE  Keeps
  <2>1. /\ u = Leader => Alone(Leader) /\ traced[Leader]
        /\ state[u] = "running" /\ state[Leader] \notin Leaving
    BY <1>3, <1>0, <1>a DEF Exit, Does, Calm
  <2>2. CASE traced[u]
    BY <1>3, <1>0, <2>1, <2>2 DEF Exit, Trap, LeaderIsLast, Answers, Leaving, Alone, Siblings
  <2>3. CASE ~traced[u]
    BY <1>3, <1>0, <2>1, <2>3 DEF Exit, LeaderIsLast, Answers, Leaving
  <2> QED
    BY <2>2, <2>3
<1>4. ASSUME NEW u \in Threads, Signal(u)
      PROVE  Keeps
  <2>1. state[u] = "running" /\ ~intr[u] /\ state[Leader] \notin Leaving
    BY <1>4, <1>a DEF Signal, Does, Calm
  <2> QED
    BY <1>4, <1>0, <2>1 DEF Signal, Trap, LeaderIsLast, Answers, Leaving
<1>5. ASSUME NEW u \in Threads, ExitGroup(u)
      PROVE  Keeps
  BY <1>5 DEF ExitGroup, Does, Calm
<1>6. CASE Exec
  BY <1>6, <1>0 DEF Exec, Trap, LeaderIsLast, Answers, Leaving
<1>7. CASE SigKill
  BY <1>7 DEF SigKill, Calm
<1>8. ASSUME NEW u \in Threads, EventStop(u)
      PROVE  Keeps
  <2>1. state[u] \in {"starting", "running"}
    BY <1>8 DEF EventStop
  <2>2. state[Leader] \in Leaving => u # Leader /\ state[u] \in Absent
    BY <2>1, <1>0 DEF LeaderIsLast, Alone, Siblings, Leaving
  <2> QED
    BY <1>8, <1>0, <2>1, <2>2 DEF EventStop, Trap, LeaderIsLast, Answers, Leaving
<1>9. ASSUME NEW u \in Threads, KilledStop(u)
      PROVE  Keeps
  BY <1>9, <1>a DEF KilledStop
<1>10. ASSUME NEW u \in Threads, Die(u)
       PROVE  Keeps
  BY <1>10, <1>0 DEF Die, LeaderIsLast, Answers, Leaving, Alone, Siblings
<1> QED
  BY <1>1, <1>2, <1>3, <1>4, <1>5, <1>6, <1>7, <1>8, <1>9, <1>10 DEF App, Kernel

(* What the tracker asks of the kernel does not bring anybody back.        *)
LEMMA RequestCalm ==
  ASSUME TraceesTypeOK, NobodyKilled, LeaderIsLast, NEW t \in Threads,
         \/ Seize(t) \/ Interrupt(t) \/ Cont(t) \/ Notice(t)
         \/ (Reap(t) /\ state[t] = "zombie") \/ UNCHANGED tvars
  PROVE  NobodyKilled' /\ LeaderIsLast'
<1> USE TraceesAssumption
    DEF TraceesTypeOK, NobodyKilled, LeaderIsLast, Leaving, Alone, Siblings
<1>1. CASE Seize(t) \/ Interrupt(t) \/ Notice(t) \/ UNCHANGED tvars
  BY <1>1 DEF Seize, Interrupt, Notice, tvars
<1>2. CASE Cont(t)
  BY <1>2 DEF Cont, Continued
<1>3. CASE Reap(t) /\ state[t] = "zombie"
  BY <1>3 DEF Reap
<1> QED
  BY <1>1, <1>2, <1>3

----------------------------------------------------------------------------
(* A step within or out of a pause that makes no stop a seen one.          *)
LEMMA StillUnserved ==
  ASSUME TypeOK, Unserved, tid' = tid,
         \A t \in Threads : seen'[t] => seen[t],
         \A i \in DOMAIN tid : ToPause(i)' => ToPause(i)
  PROVE  Unserved'
BY Entries DEF Unserved

(* Outside proc_check_status nobody is awaited.                            *)
LEMMA NobodyAwaited ==
  ASSUME AwaitedEntry, pc \notin {"spWait", "paWait"} \cup Ended,
         waitfor' = waitfor
  PROVE  waitfor = NoPid /\ AwaitedEntry'
BY DEF AwaitedEntry

(* PTRACE_INTERRUPT, for the entry that the loop over the table is at.     *)
LEMMA PauseCalm ==
  ASSUME IInv, CalmInv, SeizedPause \/ PauseNext
  PROVE  Unserved' /\ AwaitedEntry'
<1>t. TypeOK /\ TraceesTypeOK /\ InTable
  BY DEF IInv, Typed, TypeOK
<1>e. /\ Len(tid) \in Nat /\ DOMAIN tid = 1..Len(tid)
      /\ \A i \in DOMAIN tid : tid[i] \in Threads <=> tid[i] # NoPid
      /\ idx \in Nat \ {0} /\ ntids \in Nat
  BY <1>t, Entries DEF TypeOK
<1>1. /\ pc \in {"spPause", "pa"} /\ idx \in DOMAIN tid /\ tid' = tid
  BY <1>t, <1>e DEF SeizedPause, PauseNext, InTable
<1>2. waitfor = NoPid
  BY <1>1, NobodyAwaited DEF CalmInv, AwaitedEntry, Ended
<1>3. CASE /\ tid[idx] # NoPid /\ CanInterrupt(tid[idx]) /\ Interrupt(tid[idx])
           /\ waitfor' = tid[idx] /\ idx' = idx /\ pc' \in {"spWait", "paWait"}
  <2> DEFINE t == tid[idx]
  <2>1. /\ t \in Threads /\ traced[t] /\ state[t] \notin Absent /\ ~seen[t]
        /\ state[t] # "fork" /\ ~Doomed(t)
    BY <1>1, <1>3, <1>e
       DEF CanInterrupt, Children, CalmInv, Unserved, ToPause, NobodyKilled, Doomed
  <2>2. /\ intr'[t] = (intr[t] \/ state[t] \notin {"exit", "dying", "zombie"})
        /\ UNCHANGED <<state, seen, traced>>
    BY <1>3, <2>1, <1>t DEF Interrupt, TraceesTypeOK
  <2>3. Answers(t)'
    <3>1. Answers(t)' <=>
            \/ state[t] \in {"exec", "stop"} /\ ~seen[t]
            \/ state[t] \in {"running", "clone", "signal"} /\ ~seen[t] /\ intr'[t]
            \/ state[t] = "starting"
            \/ state[t] \in {"exit", "dying", "zombie"} /\ ~seen[t]
      BY <1>1, <1>3, <2>2 DEF Answers
    <3>2. state[t] \in States
      BY <2>1, <1>t DEF TraceesTypeOK
    <3> QED
      BY <3>1, <3>2, <2>1, <2>2
  <2>4. AwaitedEntry'
    BY <1>1, <1>3, <2>1, <2>2, <2>3 DEF AwaitedEntry
  <2>5. \A i \in DOMAIN tid : ToPause(i)' => ToPause(i)
    BY <1>1, <1>3, <1>e DEF ToPause
  <2>6. Unserved'
    BY <1>1, <2>2, <2>5, <1>t, StillUnserved DEF CalmInv
  <2> QED
    BY <2>4, <2>6
<1>4. CASE UNCHANGED <<tvars, waitfor>> /\ idx' = idx + 1 /\ pc' \in {"sp", "pa"}
  <2>1. \A i \in DOMAIN tid : ToPause(i)' => ToPause(i)
    BY <1>1, <1>4, <1>e DEF ToPause
  <2>2. seen' = seen
    BY <1>4 DEF tvars
  <2> QED
    BY <1>1, <1>2, <1>4, <2>1, <2>2, <1>t, StillUnserved DEF CalmInv, AwaitedEntry
<1> QED
  BY <1>3, <1>4, <1>t DEF SeizedPause, PauseNext, ProcPause, Goto, InTable

LEMMA CheckStatusCalm ==
  ASSUME IInv, ServeInv, CalmInv, CheckStatus
  PROVE  CalmInv'
<1>t. TypeOK /\ TraceesTypeOK /\ InTable
  BY DEF IInv, Typed, TypeOK
<1>e. /\ Len(tid) \in Nat /\ DOMAIN tid = 1..Len(tid)
      /\ \A i \in DOMAIN tid : tid[i] \in Threads <=> tid[i] # NoPid
      /\ idx \in Nat \ {0} /\ ntids \in Nat
      /\ pc \in {"spWait", "paWait"} => idx \in DOMAIN tid
  BY <1>t, Entries DEF TypeOK, InTable
<1>a. ASSUME NEW t \in Threads, Awaited(t)
      PROVE  /\ pc \in Waiting /\ Reportable(t) /\ waitfor \in {t, NoPid} /\ t # NoPid
             /\ waitfor = t => /\ pc \in {"spWait", "paWait"} /\ Answers(t)
                               /\ traced[t]
                               /\ tid[idx] = t \/ state[t] \in {"dying", "zombie"}
  BY <1>a, NoPidAssumption DEF Awaited, CalmInv, AwaitedEntry, Waiting, Ended
<1>r. ASSUME NEW t \in Threads,
             Cont(t) \/ Notice(t) \/ (Reap(t) /\ state[t] = "zombie") \/ UNCHANGED tvars
      PROVE  NobodyKilled' /\ LeaderIsLast'
  BY <1>r, <1>t, RequestCalm DEF CalmInv
<1>x. ASSUME NEW t \in Threads, tid' = MarkExited(t), UNCHANGED <<pc, idx>>,
             \A u \in Threads : seen'[u] => seen[u]
      PROVE  Unserved'
  <2>1. /\ DOMAIN tid' = DOMAIN tid
        /\ \A i \in DOMAIN tid : tid'[i] = tid[i] \/ tid'[i] = NoPid
    BY <1>x, <1>t, MarkExitedEntries
  <2>2. \A i \in DOMAIN tid : ToPause(i)' <=> ToPause(i)
    BY <1>x DEF ToPause
  <2> QED
    BY <1>e, <1>x, <2>1, <2>2 DEF CalmInv, Unserved
<1>n. ASSUME NEW t \in Threads, Awaited(t), state[t] \in {"exec", "stop"},
             waitfor = t, Notice(t), UNCHANGED <<pc, idx, tid>>, waitfor' = NoPid
      PROVE  CalmInv'
  <2>1. pc \in {"spWait", "paWait"} /\ tid[idx] = t /\ idx \in DOMAIN tid
    BY <1>n, <1>a, <1>e
  <2>2. \A i \in DOMAIN tid : ToPause(i)' => i > idx /\ ToPause(i)
    BY <1>n, <2>1 DEF ToPause
  <2>3. \A i \in DOMAIN tid : i > idx => tid[i] # t
    BY <1>e, <2>1, <1>n, <1>a DEF ServeInv, TableInjective
  <2>4. \A u \in Threads : u # t => seen'[u] = seen[u]
    BY <1>n, <1>t DEF Notice, TraceesTypeOK
  <2>5. Unserved'
    BY <1>e, <1>n, <2>2, <2>3, <2>4 DEF CalmInv, Unserved
  <2>6. AwaitedEntry'
    BY <1>n DEF AwaitedEntry
  <2> QED
    BY <1>n, <1>r, <2>5, <2>6 DEF CalmInv
<1>c. ASSUME NEW t \in Threads, Cont(t), UNCHANGED <<pc, idx, tid>>
      PROVE  Unserved'
  <2>1. \A u \in Threads : seen'[u] => seen[u]
    BY <1>c, <1>t DEF Cont, TraceesTypeOK
  <2>2. \A i \in DOMAIN tid : ToPause(i)' => ToPause(i)
    BY <1>c DEF ToPause
  <2> QED
    BY <1>c, <1>t, <2>1, <2>2, StillUnserved DEF CalmInv
<1>1. ASSUME NEW t \in Threads, OnExited(t)  PROVE CalmInv'
  <2>1. /\ Awaited(t) /\ Reap(t) /\ state[t] = "zombie" /\ waitfor' = NoPid
        /\ tid' = MarkExited(t) /\ UNCHANGED <<pc, idx>>
    BY <1>1, <1>a DEF OnExited, DoneWith
  <2>2. AwaitedEntry'
    BY <2>1 DEF AwaitedEntry
  <2>3. seen' = seen
    BY <2>1 DEF Reap
  <2> QED
    BY <2>1, <2>2, <2>3, <1>r, <1>x DEF CalmInv
<1>2. ASSUME NEW t \in Threads, OnExitEvent(t)  PROVE CalmInv'
  <2>1. /\ Awaited(t) /\ Cont(t) /\ state[t] = "exit" /\ waitfor' = waitfor
        /\ tid' = MarkExited(t) /\ UNCHANGED <<pc, idx>>
    BY <1>2 DEF OnExitEvent
  <2>2. /\ state'[t] = "dying" /\ ~seen'[t] /\ traced'[t] = traced[t]
        /\ \A u \in Threads : seen'[u] => seen[u]
    BY <2>1, <1>t DEF Cont, Continued, TraceesTypeOK
  <2>3. AwaitedEntry'
    BY <2>1, <2>2, <1>a DEF AwaitedEntry, Answers
  <2> QED
    BY <2>1, <2>2, <2>3, <1>r, <1>x DEF CalmInv
<1>3. ASSUME NEW t \in Threads, OnForkEvent(t)  PROVE CalmInv'
  BY <1>3 DEF OnForkEvent, CalmInv, NobodyKilled
<1>4. ASSUME NEW t \in Threads, OnExecEvent(t)  PROVE CalmInv'
  <2>1. CASE waitfor = t
    BY <1>4, <2>1, <1>n DEF OnExecEvent, DoneWith
  <2>2. CASE waitfor # t
    <3>1. /\ Cont(t) /\ UNCHANGED <<pc, idx, tid>> /\ waitfor' = NoPid
      BY <1>4, <2>2, <1>a DEF OnExecEvent, DoneWith
    <3>2. AwaitedEntry'
      BY <3>1 DEF AwaitedEntry
    <3> QED
      BY <3>1, <3>2, <1>r, <1>c DEF CalmInv
  <2> QED
    BY <2>1, <2>2
<1>5. ASSUME NEW t \in Threads, OnCloneOrSignal(t)  PROVE CalmInv'
  <2>1. /\ Awaited(t) /\ Cont(t) /\ UNCHANGED <<pc, idx, tid, waitfor>>
        /\ state[t] \in {"clone", "signal"}
    BY <1>5 DEF OnCloneOrSignal, kvars
  <2>2. /\ state'[t] = "running" /\ ~seen'[t] /\ UNCHANGED <<intr, traced>>
    BY <2>1, <1>t DEF Cont, Continued, TraceesTypeOK
  <2>3. AwaitedEntry'
    BY <2>1, <2>2, <1>a DEF AwaitedEntry, Answers
  <2> QED
    BY <2>1, <2>3, <1>r, <1>c DEF CalmInv
<1>6. ASSUME NEW t \in Threads, OnNewThread(t)  PROVE CalmInv'
  <2>1. /\ Awaited(t) /\ Cont(t) /\ UNCHANGED <<pc, idx, waitfor>>
        /\ state[t] = "stop" /\ t \notin Known /\ tid' = Append(tid, t)
    BY <1>6 DEF OnNewThread, ProcIsNew
  <2>2. waitfor = NoPid
    BY <2>1, <1>a, <1>e DEF Known
  <2>3. AwaitedEntry'
    BY <2>1, <2>2 DEF AwaitedEntry
  <2>4. /\ DOMAIN tid' = 1..(Len(tid) + 1)
        /\ \A i \in DOMAIN tid : tid'[i] = tid[i]
        /\ tid'[Len(tid) + 1] = t
    BY <2>1, <1>t, AppendProperties, LenProperties DEF TypeOK
  <2>5. ~seen'[t] /\ \A u \in Threads : seen'[u] => seen[u]
    BY <2>1, <1>t DEF Cont, TraceesTypeOK
  <2>6. \A i \in DOMAIN tid' : i \in DOMAIN tid \/ i = Len(tid) + 1
    BY <1>e, <2>4
  <2>7. \A i : ToPause(i)' <=> ToPause(i)
    BY <2>1 DEF ToPause
  <2>8. Unserved'
    BY <1>e, <2>4, <2>5, <2>6, <2>7 DEF CalmInv, Unserved
  <2> QED
    BY <2>1, <2>3, <2>8, <1>r DEF CalmInv
<1>7. ASSUME NEW t \in Threads, OnPaused(t)  PROVE CalmInv'
  <2>1. CASE waitfor = t
    BY <1>7, <2>1, <1>n DEF OnPaused
  <2>2. CASE waitfor # t
    <3>1. Notice(t) /\ pc' = "aborted"
      BY <1>7, <2>2 DEF OnPaused, Abort
    <3> QED
      BY <3>1, <1>r DEF CalmInv, Unserved, ToPause, AwaitedEntry, Ended
  <2> QED
    BY <2>1, <2>2
<1>8. CASE CheckDone
  <2>1. /\ UNCHANGED <<tvars, tid>> /\ waitfor' = NoPid
        /\ \/ pc = "spWait" /\ pc' = "sp" /\ idx' = idx + 1
           \/ pc = "drain" /\ pc' = "pa" /\ idx' = 1
           \/ pc = "paWait" /\ pc' = "pa" /\ idx' = idx + 1
    BY <1>8 DEF CheckDone, NothingToReport, Goto
  <2>2. \A i \in DOMAIN tid : ToPause(i)' => ToPause(i)
    BY <2>1, <1>e DEF ToPause
  <2>3. Unserved'
    BY <2>1, <2>2, <1>t, StillUnserved DEF CalmInv, tvars
  <2>4. AwaitedEntry'
    BY <2>1 DEF AwaitedEntry
  <2> QED
    BY <2>1, <2>3, <2>4, <1>r, TraceesAssumption DEF CalmInv
<1>9. CASE NoChild
  <2>1. UNCHANGED tvars /\ pc' = "aborted"
    BY <1>9 DEF NoChild, Abort
  <2> QED
    BY <2>1, <1>r, TraceesAssumption DEF CalmInv, Unserved, ToPause, AwaitedEntry, Ended
<1> QED
  BY <1>1, <1>2, <1>3, <1>4, <1>5, <1>6, <1>7, <1>8, <1>9 DEF CheckStatus

LEMMA TrackerCalm ==
  ASSUME IInv, ServeInv, CalmInv, Tracker
  PROVE  CalmInv'
<1>t. TypeOK /\ TraceesTypeOK /\ InTable /\ Leader \in Threads
  BY TraceesAssumption DEF IInv, Typed, TypeOK
<1>e. /\ Len(tid) \in Nat /\ DOMAIN tid = 1..Len(tid)
      /\ \A i \in DOMAIN tid : tid[i] \in Threads <=> tid[i] # NoPid
      /\ idx \in Nat \ {0} /\ ntids \in Nat
  BY <1>t, Entries DEF TypeOK
<1>r. ASSUME NEW t \in Threads,
             Seize(t) \/ Interrupt(t) \/ Cont(t) \/ UNCHANGED tvars
      PROVE  NobodyKilled' /\ LeaderIsLast'
  BY <1>r, <1>t, RequestCalm DEF CalmInv
<1>1. CASE SeizedPause \/ PauseNext
  <2>1. \/ UNCHANGED tvars
        \/ idx \in DOMAIN tid /\ tid[idx] # NoPid /\ Interrupt(tid[idx])
    BY <1>1, <1>t, <1>e DEF SeizedPause, PauseNext, ProcPause, InTable
  <2>2. NobodyKilled' /\ LeaderIsLast'
    BY <2>1, <1>r, <1>e, <1>t
  <2> QED
    BY <1>1, <2>2, PauseCalm DEF CalmInv
<1>2. CASE SeizeNext
  <2>1. /\ pc = "sp" /\ idx \in DOMAIN tid /\ UNCHANGED <<tid, waitfor>>
        /\ pc' = "aborted" \/ (pc' = "spPause" /\ idx' = idx)
        /\ \/ UNCHANGED tvars
           \/ tid[idx] # NoPid /\ Seize(tid[idx])
    BY <1>2, <1>t, <1>e DEF SeizeNext, InTable, Goto, Abort
  <2>2. NobodyKilled' /\ LeaderIsLast'
    BY <2>1, <1>r, <1>e, <1>t
  <2>3. seen' = seen
    BY <2>1 DEF Seize, tvars
  <2>4. \A i \in DOMAIN tid : ToPause(i)' => ToPause(i)
    BY <2>1 DEF ToPause
  <2>5. Unserved' /\ AwaitedEntry'
    BY <2>1, <2>3, <2>4, <1>t, StillUnserved, NobodyAwaited DEF CalmInv, Ended
  <2> QED
    BY <2>2, <2>5 DEF CalmInv
<1>3. CASE GetTids
  <2>1. /\ UNCHANGED <<tvars, waitfor>> /\ pc = "gettids"
        /\ \A i \in DOMAIN tid' : tid'[i] \in Threads
    BY <1>3 DEF GetTids, Goto
  <2>2. \A t \in Threads : ~seen[t]
    BY <2>1 DEF ServeInv, Unlisted, SeenKnown, Known
  <2>3. Unserved'
    BY <2>1, <2>2 DEF Unserved, tvars
  <2>4. AwaitedEntry'
    BY <2>1, NobodyAwaited DEF CalmInv, Ended
  <2> QED
    BY <2>1, <2>3, <2>4, <1>r, <1>t DEF CalmInv
<1>4. CASE Wake
  <2>1. /\ UNCHANGED <<tvars, waitfor, tid>> /\ pc = "sleep"
    BY <1>4 DEF Wake, Goto
  <2>2. Unserved'
    BY <2>1 DEF ServeInv, Resumed, Unserved, tvars
  <2>3. AwaitedEntry'
    BY <2>1, NobodyAwaited DEF CalmInv, Ended
  <2> QED
    BY <2>1, <2>2, <2>3, <1>r, <1>t DEF CalmInv
<1>5. CASE \/ SeizeLeader \/ SeizeDone \/ FirstSnapshot \/ Loop
           \/ ResumeNext \/ ResumeDone \/ PauseDone \/ Snapshot
  <2>1. /\ pc \in {"seize", "sp", "work0", "loop", "resume", "pa", "work"}
        /\ pc' \in {"gettids", "work0", "loop", "resume", "finished", "sleep", "work"}
        /\ waitfor' = waitfor
    BY <1>5 DEF SeizeLeader, SeizeDone, FirstSnapshot, Loop, ResumeNext, ResumeDone,
                PauseDone, Snapshot, Goto
  <2>2. \/ UNCHANGED tvars
        \/ Seize(Leader)
        \/ idx \in DOMAIN tid /\ tid[idx] # NoPid /\ Cont(tid[idx])
    BY <1>5, <1>t, <1>e
       DEF SeizeLeader, SeizeDone, FirstSnapshot, Loop, ResumeNext, ResumeDone,
           PauseDone, Snapshot, TypeOK
  <2>3. NobodyKilled' /\ LeaderIsLast'
    BY <2>2, <1>r, <1>e, <1>t
  <2>4. Unserved' /\ AwaitedEntry'
    BY <2>1, NobodyAwaited DEF CalmInv, Ended, Unserved, ToPause
  <2> QED
    BY <2>3, <2>4 DEF CalmInv
<1> QED
  BY <1>1, <1>2, <1>3, <1>4, <1>5, CheckStatusCalm DEF Tracker

LEMMA CalmInit == Init /\ Calm => CalmInv
<1> SUFFICES ASSUME Init  PROVE CalmInv
  OBVIOUS
<1>1. /\ \A t \in Threads : state[t] \in {"running", "unborn"}
      /\ state[Leader] = "running" /\ killed = FALSE /\ forked = {}
      /\ tid = << >> /\ waitfor = NoPid
  BY TraceesAssumption DEF Init, TraceesInit
<1>2. NobodyKilled /\ LeaderIsLast
  BY <1>1 DEF NobodyKilled, LeaderIsLast, Leaving
<1>3. Unserved /\ AwaitedEntry
  BY <1>1 DEF Unserved, AwaitedEntry
<1> QED
  BY <1>2, <1>3 DEF CalmInv

LEMMA CalmNext == IInv /\ ServeInv /\ (Calm => CalmInv) /\ [Next]_vars => (Calm => CalmInv)'
<1> SUFFICES ASSUME IInv, ServeInv, Calm, CalmInv, [Next]_vars  PROVE CalmInv'
  BY DEF Calm
<1>t. TypeOK /\ TraceesTypeOK /\ BornTraced /\ Leader \in Threads
  BY TraceesAssumption DEF IInv, Typed, TypeOK
<1>1. CASE Environment
  <2>1. /\ App \/ \E t \in Threads : Kernel(t)
        /\ UNCHANGED <<pc, idx, tid, waitfor>>
    BY <1>1 DEF Environment, kvars
  <2>2. /\ NobodyKilled' /\ LeaderIsLast'
        /\ \A t \in Threads : traced[t] => traced'[t]
        /\ \A t \in Threads : traced[t] /\ Answers(t) => Answers(t)'
        /\ \A t \in Threads : state[t] \in {"dying", "zombie"} =>
                               state'[t] \in {"dying", "zombie"}
    BY <2>1, <1>t, EnvironmentCalm DEF CalmInv
  <2>3. \A u \in Threads : seen'[u] => seen[u]
    BY <2>1, <1>t, EnvironmentSeen DEF ServeInv, SeenKnown
  <2>4. Unserved'
    <3>1. \A i \in DOMAIN tid : ToPause(i)' => ToPause(i)
      BY <2>1 DEF ToPause
    <3> QED
      BY <2>1, <2>3, <3>1, <1>t, StillUnserved DEF CalmInv
  <2>5. AwaitedEntry'
    <3>1. waitfor \in Threads \cup {NoPid}
      BY <1>t DEF TypeOK
    <3> QED
      BY <2>1, <2>2, <3>1 DEF CalmInv, AwaitedEntry
  <2> QED
    BY <2>2, <2>4, <2>5 DEF CalmInv
<1>2. CASE SigInt \/ SigIntInWait \/ Terminated \/ UNCHANGED vars
  <2>1. /\ UNCHANGED <<tvars, tid, idx, waitfor>>
        /\ UNCHANGED pc \/ pc' = "aborted"
    BY <1>2 DEF SigInt, SigIntInWait, Terminated, vars, kvars
  <2>2. UNCHANGED <<state, seen, intr, traced>>
    BY <2>1 DEF tvars
  <2>3. NobodyKilled' /\ LeaderIsLast'
    BY <2>1, <1>t, RequestCalm DEF CalmInv
  <2>4. Unserved'
    BY <2>1, <2>2 DEF CalmInv, Unserved, ToPause
  <2>5. AwaitedEntry'
    BY <2>1, <2>2 DEF CalmInv, AwaitedEntry, Answers, Ended
  <2> QED
    BY <2>3, <2>4, <2>5 DEF CalmInv
<1> QED
  BY <1>1, <1>2, TrackerCalm DEF Next

(* Under a calm application every blocking waitpid(pid) of the tracker is  *)
(* answered by that thread alone, in a started application and in one that *)
(* the tracker is attached to.                                             *)
THEOREM AnswerableHolds == Spec => [](Calm => Answerable)
<1>1. ServeInv /\ CalmInv => Answerable
  <2>1. SUFFICES ASSUME ServeInv, CalmInv, pc \in Waiting, waitfor # NoPid
                 PROVE  WillAnswer(waitfor)
    BY DEF Answerable
  <2>2. Answers(waitfor)
    BY <2>1 DEF CalmInv, AwaitedEntry, Waiting, Ended
  <2>3. waitfor = Leader /\ state[waitfor] \in {"dying", "zombie"} => Alone(waitfor)
    BY <2>1 DEF CalmInv, LeaderIsLast, Leaving
  <2> QED
    BY <2>2, <2>3 DEF Answers, WillAnswer
<1>2. Init => IInv /\ ServeInv /\ (Calm => CalmInv)
  BY IInvInit, ServeInit, CalmInit
<1>3. IInv /\ ServeInv /\ (Calm => CalmInv) /\ [Next]_vars
        => (IInv /\ ServeInv /\ (Calm => CalmInv))'
  BY IInvNext, ServeNext, CalmNext
<1> QED
  BY <1>1, <1>2, <1>3, PTL DEF Spec
=============================================================================

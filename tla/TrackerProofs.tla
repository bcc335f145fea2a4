--------------------------- MODULE TrackerProofs ---------------------------
(***************************************************************************)
(* Theorems about Tracker, for any number of threads and any behaviour of  *)
(* the application: the types, and that the main loop reads the memory of  *)
(* a stopped application.                                                  *)
(***************************************************************************)
EXTENDS Tracker, SequenceTheorems, TLAPS

USE DEF Stops, Absent, States, AppOps

----------------------------------------------------------------------------
(* Types of the tracees: what the tracker asks of the kernel.              *)

LEMMA RequestType ==
  ASSUME TraceesTypeOK, NEW t \in Threads,
         \/ Seize(t) \/ Interrupt(t) \/ Cont(t) \/ Notice(t) \/ Reap(t)
         \/ UNCHANGED tvars
  PROVE  TraceesTypeOK'
<1>1. CASE Seize(t)
  BY <1>1 DEF TraceesTypeOK, Seize
<1>2. CASE Interrupt(t)
  <2>1. intr' \in [Threads -> BOOLEAN]
    BY <1>2 DEF TraceesTypeOK, Interrupt
  <2> QED
    BY <1>2, <2>1 DEF TraceesTypeOK, Interrupt
<1>3. CASE Cont(t)
  <2>1. Continued(t) \in States
    BY DEF TraceesTypeOK, Continued
  <2> QED
    BY <1>3, <2>1 DEF TraceesTypeOK, Cont
<1>4. CASE Notice(t)
  BY <1>4 DEF TraceesTypeOK, Notice
<1>5. CASE Reap(t)
  BY <1>5 DEF TraceesTypeOK, Reap
<1>6. CASE UNCHANGED tvars
  BY <1>6 DEF TraceesTypeOK, tvars
<1> QED
  BY <1>1, <1>2, <1>3, <1>4, <1>5, <1>6

LEMMA TrapType ==
  ASSUME TraceesTypeOK, NEW t \in Threads, NEW s \in Stops, Trap(t, s)
  PROVE  /\ state' \in [Threads -> States]
         /\ seen' \in [Threads -> BOOLEAN]
         /\ intr' \in [Threads -> BOOLEAN]
BY DEF TraceesTypeOK, Trap

LEMMA KernelType ==
  ASSUME TraceesTypeOK, NEW t \in Threads, Kernel(t)
  PROVE  TraceesTypeOK'
<1>1. CASE EventStop(t)
  BY <1>1, TrapType DEF TraceesTypeOK, EventStop
<1>2. CASE KilledStop(t)
  BY <1>2, TrapType DEF TraceesTypeOK, KilledStop
<1>3. CASE Die(t)
  BY <1>3 DEF TraceesTypeOK, Die
<1> QED
  BY <1>1, <1>2, <1>3 DEF Kernel

LEMMA AppType ==
  ASSUME TraceesTypeOK, App
  PROVE  TraceesTypeOK'
<1> USE TraceesAssumption
<1>k. \A u \in Threads : Killed(u) \in States
  BY DEF Killed, TraceesTypeOK
<1>1. ASSUME NEW t \in Threads, NEW u \in Threads, Clone(t, u)
      PROVE  TraceesTypeOK'
  BY <1>1 DEF TraceesTypeOK, Clone
<1>2. ASSUME NEW t \in Threads, NEW u \in Threads, Fork(t, u)
      PROVE  TraceesTypeOK'
  BY <1>2 DEF TraceesTypeOK, Fork
<1>3. ASSUME NEW t \in Threads, Exit(t)
      PROVE  TraceesTypeOK'
  BY <1>3, TrapType DEF TraceesTypeOK, Exit
<1>4. ASSUME NEW t \in Threads, Signal(t)
      PROVE  TraceesTypeOK'
  BY <1>4, TrapType DEF TraceesTypeOK, Signal
<1>5. ASSUME NEW t \in Threads, ExitGroup(t)
      PROVE  TraceesTypeOK'
  BY <1>5, <1>k DEF TraceesTypeOK, ExitGroup
<1>6. CASE Exec
  BY <1>6, TrapType DEF TraceesTypeOK, Exec
<1>7. CASE SigKill
  BY <1>7, <1>k DEF TraceesTypeOK, SigKill
<1> QED
  BY <1>1, <1>2, <1>3, <1>4, <1>5, <1>6, <1>7 DEF App

----------------------------------------------------------------------------
(* Types of the tracker's table.                                           *)

LEMMA MarkExitedType ==
  ASSUME tid \in Seq(Threads \cup {NoPid}), NEW t \in Threads
  PROVE  /\ MarkExited(t) \in Seq(Threads \cup {NoPid})
         /\ DOMAIN MarkExited(t) = DOMAIN tid
         /\ Len(MarkExited(t)) = Len(tid)
<1> DEFINE P == Threads \cup {NoPid}
<1>1. /\ Len(tid) \in Nat
      /\ DOMAIN tid = 1..Len(tid)
      /\ \A i \in 1..Len(tid) : tid[i] \in P
  BY LenProperties, ElementOfSeq
<1>2. MarkExited(t) \in [1..Len(tid) -> P]
  BY <1>1 DEF MarkExited
<1>3. MarkExited(t) \in Seq(P)
  BY <1>1, <1>2, SeqDef
<1> QED
  BY <1>1, <1>2, <1>3, LenProperties

LEMMA EntryType ==
  ASSUME TypeOK, NEW i \in DOMAIN tid
  PROVE  tid[i] \in Threads \cup {NoPid}
BY LenProperties, ElementOfSeq DEF TypeOK

LEMMA EnvironmentType ==
  ASSUME Typed, Environment
  PROVE  Typed'
<1>1. TraceesTypeOK'
  BY AppType, KernelType DEF Environment, Typed, TypeOK
<1> QED
  BY <1>1 DEF Typed, TypeOK, InTable, Environment, kvars

LEMMA CheckStatusType ==
  ASSUME Typed, CheckStatus
  PROVE  Typed'
<1> USE DEF Typed, TypeOK, InTable, PCs, Startup, Waiting, Ended, Asserts, Goto, Abort
<1>1. ASSUME NEW t \in Threads, OnExited(t)  PROVE Typed'
  BY <1>1, RequestType, MarkExitedType DEF OnExited, Awaited, DoneWith
<1>2. ASSUME NEW t \in Threads, OnExitEvent(t)  PROVE Typed'
  BY <1>2, RequestType, MarkExitedType DEF OnExitEvent, Awaited
<1>3. ASSUME NEW t \in Threads, OnForkEvent(t)  PROVE Typed'
  BY <1>3, RequestType DEF OnForkEvent, kvars
<1>4. ASSUME NEW t \in Threads, OnExecEvent(t)  PROVE Typed'
  BY <1>4, RequestType DEF OnExecEvent, DoneWith
<1>5. ASSUME NEW t \in Threads, OnCloneOrSignal(t)  PROVE Typed'
  BY <1>5, RequestType DEF OnCloneOrSignal, kvars
<1>6. ASSUME NEW t \in Threads, OnNewThread(t)  PROVE Typed'
  <2>1. TraceesTypeOK'
    BY <1>6, RequestType DEF OnNewThread
  <2>2. tid' \in Seq(Threads \cup {NoPid}) /\ Len(tid') = Len(tid) + 1
    BY <1>6, AppendProperties DEF OnNewThread
  <2>3. Len(tid) \in Nat
    BY LenProperties
  <2> QED
    BY <1>6, <2>1, <2>2, <2>3 DEF OnNewThread
<1>7. ASSUME NEW t \in Threads, OnPaused(t)  PROVE Typed'
  BY <1>7, RequestType DEF OnPaused
<1>8. CASE CheckDone
  <2>1. TraceesTypeOK'
    BY <1>8, TraceesAssumption, RequestType DEF CheckDone
  <2>2. UNCHANGED <<tid, ntids, waitfor, stop, failed>>
    BY <1>8 DEF CheckDone
  <2>3. /\ pc' \in {"sp", "pa"}
        /\ idx' \in {1, idx + 1}
        /\ paused' = FALSE \/ paused' = TRUE \/ paused' = paused
    BY <1>8 DEF CheckDone
  <2>4. paused' \in BOOLEAN
    BY <2>3
  <2> QED
    BY <2>1, <2>2, <2>3, <2>4
<1>9. CASE NoChild
  BY <1>9, TraceesAssumption, RequestType DEF NoChild
<1> QED
  BY <1>1, <1>2, <1>3, <1>4, <1>5, <1>6, <1>7, <1>8, <1>9 DEF CheckStatus

LEMMA PauseType ==
  ASSUME TypeOK, NEW t \in Threads, NEW wait \in PCs, NEW next \in PCs,
         ProcPause(t, wait, next)
  PROVE  /\ TraceesTypeOK'
         /\ \/ pc' = wait /\ idx' = idx
            \/ pc' = next /\ idx' = idx + 1
         /\ waitfor' \in Threads \cup {NoPid}
BY RequestType DEF TypeOK, ProcPause, Goto

LEMMA MainType ==
  ASSUME Typed, Tracker
  PROVE  Typed'
<1> USE TraceesAssumption
<1> USE DEF Typed, TypeOK, InTable, PCs, Startup, Waiting, Ended, Asserts, Goto, Abort
<1>l. Len(tid) \in Nat /\ DOMAIN tid = 1..Len(tid)
  BY LenProperties
<1>1. CASE SeizeLeader
  BY <1>1, RequestType DEF SeizeLeader
<1>2. CASE GetTids
  <2>1. PICK n \in 1..Cardinality(Threads) :
          /\ tid' \in [1..n -> Threads]
          /\ ntids' = n
    BY <1>2 DEF GetTids
  <2>2. n \in Nat /\ tid' \in Seq(Threads \cup {NoPid}) /\ Len(tid') = n
    <3>1. n \in Nat
      OBVIOUS
    <3>2. tid' \in [1..n -> Threads \cup {NoPid}]
      BY <2>1
    <3>3. tid' \in Seq(Threads \cup {NoPid})
      BY <3>1, <3>2, SeqDef
    <3> QED
      BY <3>1, <3>2, <3>3, LenProperties
  <2> QED
    BY <1>2, <2>1, <2>2, RequestType DEF GetTids
<1>3. CASE SeizeNext
  <2>1. tid[idx] \in Threads \cup {NoPid}
    BY <1>3, <1>l, EntryType DEF SeizeNext
  <2>2. TraceesTypeOK'
    BY <1>3, <2>1, RequestType DEF SeizeNext
  <2>3. CASE tid[idx] = Leader
    BY <1>3, <2>2, <2>3, NoPidAssumption DEF SeizeNext
  <2>4. CASE tid[idx] # Leader /\ tid[idx] # NoPid /\ CanSeize(tid[idx])
    BY <1>3, <2>2, <2>4 DEF SeizeNext
  <2>5. CASE tid[idx] # Leader /\ ~(tid[idx] # NoPid /\ CanSeize(tid[idx]))
    BY <1>3, <2>2, <2>5 DEF SeizeNext
  <2> QED
    BY <2>3, <2>4, <2>5
<1>4. CASE SeizedPause
  <2>1. tid[idx] \in Threads \cup {NoPid}
    BY <1>4, <1>l, EntryType DEF SeizedPause
  <2>2. tid[idx] \in Threads
    BY <1>4, <2>1 DEF SeizedPause
  <2> QED
    BY <1>4, <2>2, PauseType DEF SeizedPause
<1>5. CASE SeizeDone \/ FirstSnapshot \/ Loop \/ ResumeDone \/ Wake \/ PauseDone \/ Snapshot
  BY <1>5, RequestType
     DEF SeizeDone, FirstSnapshot, Loop, ResumeDone, Wake, PauseDone, Snapshot
<1>6. CASE ResumeNext
  BY <1>6, <1>l, RequestType, EntryType DEF ResumeNext
<1>7. CASE PauseNext
  <2>1. tid[idx] \in Threads \cup {NoPid}
    BY <1>7, <1>l, EntryType DEF PauseNext
  <2>2. CASE tid[idx] = NoPid
    BY <1>7, <2>2, RequestType DEF PauseNext
  <2>3. CASE tid[idx] # NoPid
    BY <1>7, <2>1, <2>3, PauseType DEF PauseNext
  <2> QED
    BY <2>2, <2>3
<1> QED
  BY <1>1, <1>2, <1>3, <1>4, <1>5, <1>6, <1>7, CheckStatusType DEF Tracker

LEMMA TypedInit == Init => Typed
<1> SUFFICES ASSUME Init  PROVE Typed
  OBVIOUS
<1>1. state \in [Threads -> States]
  BY DEF Init, TraceesInit
<1>2. /\ seen \in [Threads -> BOOLEAN]
      /\ intr \in [Threads -> BOOLEAN]
      /\ traced \in [Threads -> BOOLEAN]
  BY DEF Init, TraceesInit
<1>3. /\ forked \in SUBSET (Threads \ {Leader})
      /\ killed \in BOOLEAN
      /\ signals \in 0..MaxSignals
  <2>1. forked = {} /\ killed = FALSE /\ signals = 0
    BY DEF Init, TraceesInit
  <2>2. 0 \in 0..MaxSignals
    BY TraceesAssumption
  <2> QED
    BY <2>1, <2>2
<1>b. launched \in BOOLEAN
  <2>1. launched = ~Parent
    BY DEF Init, TraceesInit
  <2> QED
    BY <2>1
<1>e. tid \in Seq(Threads \cup {NoPid}) /\ Len(tid) = 0
  BY EmptySeq DEF Init
<1>4. TraceesTypeOK
  BY <1>1, <1>2, <1>3, <1>b DEF TraceesTypeOK
<1>5. TypeOK
  <2>1. /\ pc = "seize" /\ idx = 1 /\ ntids = 0 /\ waitfor = NoPid
        /\ failed = "no"
    BY DEF Init
  <2>2. paused \in BOOLEAN /\ stop \in BOOLEAN
    BY DEF Init
  <2> QED
    BY <1>4, <1>e, <2>1, <2>2 DEF TypeOK, PCs, Startup, Asserts
<1> QED
  BY <1>5, <1>e DEF Init, Typed, InTable

LEMMA TypedNext == Typed /\ [Next]_vars => Typed'
<1> SUFFICES ASSUME Typed, [Next]_vars  PROVE Typed'
  OBVIOUS
<1>1. CASE SigInt \/ SigIntInWait \/ Terminated \/ UNCHANGED vars
  BY <1>1, TraceesAssumption, RequestType
     DEF SigInt, SigIntInWait, Terminated, vars, kvars, Typed, TypeOK, InTable,
         PCs, Ended, Asserts
<1> QED
  BY <1>1, MainType, EnvironmentType DEF Next

(* Every variable keeps its type.                                          *)
THEOREM TypeCorrect == Spec => []TypeOK
<1>1. Typed => TypeOK
  BY DEF Typed
<1> QED
  BY <1>1, TypedInit, TypedNext, PTL DEF Spec
----------------------------------------------------------------------------
(* What the application and the kernel can do to a thread.                 *)

LEMMA EnvironmentKeeps ==
  ASSUME TraceesTypeOK, BornTraced, NEW t \in Threads,
         App \/ \E u \in Threads : Kernel(u)
  PROVE  /\ Held(t) => Held(t)'
         /\ Runs(t)' => Runs(t)
         /\ state[t] # "unborn" => state'[t] # "unborn"
<1> DEFINE Keeps == /\ Held(t) => Held(t)'
                    /\ Runs(t)' => Runs(t)
                    /\ state[t] # "unborn" => state'[t] # "unborn"
<1> USE TraceesAssumption DEF TraceesTypeOK, Held, Quiet, Runs
<1>1. ASSUME NEW v \in Threads, NEW u \in Threads, Clone(v, u)
      PROVE  Keeps
  <2>1. state[v] = "running" /\ state[u] = "unborn" /\ u # v
    BY <1>1 DEF Clone, Does
  <2>2. CASE traced[v]
    BY <1>1, <2>1, <2>2 DEF Clone
  <2>3. CASE ~traced[v]
    BY <1>1, <2>1, <2>3 DEF Clone, BornTraced
  <2> QED
    BY <2>2, <2>3
<1>2. ASSUME NEW v \in Threads, NEW u \in Threads, Fork(v, u)
      PROVE  Keeps
  BY <1>2 DEF Fork, Does
<1>3. ASSUME NEW u \in Threads, Exit(u)
      PROVE  Keeps
  BY <1>3 DEF Exit, Does, Trap
<1>4. ASSUME NEW u \in Threads, Signal(u)
      PROVE  Keeps
  BY <1>4 DEF Signal, Does, Trap
<1>5. ASSUME NEW u \in Threads, ExitGroup(u)
      PROVE  Keeps
  BY <1>5 DEF ExitGroup, Does, Killed
<1>6. CASE Exec
  BY <1>6 DEF Exec, Trap
<1>7. CASE SigKill
  BY <1>7 DEF SigKill, Killed
<1>8. ASSUME NEW u \in Threads, EventStop(u)
      PROVE  Keeps
  BY <1>8 DEF EventStop, Trap
<1>9. ASSUME NEW u \in Threads, KilledStop(u)
      PROVE  Keeps
  BY <1>9 DEF KilledStop, Trap
<1>10. ASSUME NEW u \in Threads, Die(u)
       PROVE  Keeps
  BY <1>10 DEF Die
<1> QED
  BY <1>1, <1>2, <1>3, <1>4, <1>5, <1>6, <1>7, <1>8, <1>9, <1>10 DEF App, Kernel

LEMMA EnvironmentTraces ==
  ASSUME TraceesTypeOK, BornTraced, UNCHANGED pc,
         App \/ \E u \in Threads : Kernel(u)
  PROVE  BornTraced'
<1> USE TraceesAssumption DEF TraceesTypeOK, BornTraced
<1>1. ASSUME NEW v \in Threads, NEW u \in Threads, Clone(v, u)
      PROVE  BornTraced'
  BY <1>1 DEF Clone, Does
<1>2. ASSUME NEW v \in Threads, NEW u \in Threads, Fork(v, u)
      PROVE  BornTraced'
  BY <1>2 DEF Fork, Does
<1>3. ASSUME NEW u \in Threads, Exit(u)
      PROVE  BornTraced'
  BY <1>3 DEF Exit, Does, Trap
<1>4. ASSUME NEW u \in Threads, Signal(u)
      PROVE  BornTraced'
  BY <1>4 DEF Signal, Does, Trap
<1>5. ASSUME NEW u \in Threads, ExitGroup(u)
      PROVE  BornTraced'
  BY <1>5 DEF ExitGroup, Does, Killed
<1>6. CASE Exec
  BY <1>6 DEF Exec, Trap
<1>7. CASE SigKill
  BY <1>7 DEF SigKill, Killed
<1>8. ASSUME NEW u \in Threads, EventStop(u) \/ KilledStop(u) \/ Die(u)
      PROVE  BornTraced'
  BY <1>8 DEF EventStop, KilledStop, Die, Trap
<1> QED
  BY <1>1, <1>2, <1>3, <1>4, <1>5, <1>6, <1>7, <1>8 DEF App, Kernel

(* What the tracker's requests can do to a thread.                         *)
LEMMA HoldingRequest ==
  ASSUME TraceesTypeOK, NEW t \in Threads, NEW u \in Threads,
         \/ Interrupt(u) \/ Notice(u) \/ (Reap(u) /\ state[u] # "unborn")
         \/ UNCHANGED tvars
  PROVE  /\ Held(t) => Held(t)'
         /\ Runs(t)' => Runs(t)
         /\ state[t] # "unborn" => state'[t] # "unborn"
<1> USE DEF TraceesTypeOK, Held, Quiet, Runs
<1>1. CASE Interrupt(u)
  BY <1>1 DEF Interrupt
<1>2. CASE Notice(u)
  BY <1>2 DEF Notice
<1>3. CASE Reap(u) /\ state[u] # "unborn"
  BY <1>3 DEF Reap
<1>4. CASE UNCHANGED tvars
  BY <1>4 DEF tvars
<1> QED
  BY <1>1, <1>2, <1>3, <1>4

LEMMA StartingRequest ==
  ASSUME TraceesTypeOK, NEW t \in Threads, NEW u \in Threads,
         Cont(u) \/ Seize(u)
  PROVE  /\ Runs(t)' => Runs(t) \/ t = u
         /\ state[t] # "unborn" => state'[t] # "unborn"
<1> USE DEF TraceesTypeOK, Runs
<1>1. CASE Cont(u)
  BY <1>1 DEF Cont, Continued
<1>2. CASE Seize(u)
  BY <1>2 DEF Seize
<1> QED
  BY <1>1, <1>2

(* A thread whose stop waitpid has just returned is not a held one, or     *)
(* dies of the PTRACE_CONT.                                                *)
LEMMA ServedStop ==
  ASSUME TraceesTypeOK, NEW t \in Threads, NEW u \in Threads,
         Cont(u), Reportable(u), Held(t)
  PROVE  Held(t)'
BY DEF TraceesTypeOK, Held, Quiet, Cont, Continued, Reportable, Waitable

(* A request changes no tracing but that of the thread it seizes.          *)
LEMMA RequestTraces ==
  ASSUME TraceesTypeOK, BornTraced, UNCHANGED pc, NEW u \in Threads,
         \/ Interrupt(u) \/ Notice(u) \/ (Reap(u) /\ state[u] # "unborn")
         \/ Cont(u) \/ (Seize(u) /\ state[u] # "unborn") \/ UNCHANGED tvars
  PROVE  BornTraced'
<1> USE TraceesAssumption DEF TraceesTypeOK, BornTraced
<1>1. CASE Interrupt(u) \/ Notice(u) \/ UNCHANGED tvars
  BY <1>1 DEF Interrupt, Notice, tvars
<1>2. CASE Reap(u) /\ state[u] # "unborn"
  BY <1>2 DEF Reap
<1>3. CASE Cont(u)
  BY <1>3 DEF Cont, Continued
<1>4. CASE Seize(u) /\ state[u] # "unborn"
  BY <1>4 DEF Seize
<1> QED
  BY <1>1, <1>2, <1>3, <1>4
----------------------------------------------------------------------------
(* The invariant is inductive.                                             *)

LEMMA IInvInit == Init => IInv
<1> SUFFICES ASSUME Init  PROVE IInv
  OBVIOUS
<1>1. Typed
  BY TypedInit
<1>2. /\ pc = "seize" /\ tid = << >> /\ DOMAIN tid = {}
      /\ traced = [t \in Threads |-> FALSE]
      /\ Parent => ~launched
      /\ Parent => state = [t \in Threads |-> IF t \in {Leader} THEN "running" ELSE "unborn"]
      /\ state[Leader] # "unborn"
  <2>1. PICK alive \in SUBSET Threads :
          /\ Leader \in alive
          /\ Parent => alive = {Leader}
          /\ state = [t \in Threads |-> IF t \in alive THEN "running" ELSE "unborn"]
    <3>1. CASE Parent
      BY <3>1, TraceesAssumption DEF Init, TraceesInit
    <3>2. CASE ~Parent
      BY <3>2, TraceesAssumption DEF Init, TraceesInit
    <3> QED
      BY <3>1, <3>2
  <2>2. pc = "seize" /\ tid = << >> /\ DOMAIN tid = {}
    BY DEF Init
  <2>3. traced = [t \in Threads |-> FALSE] /\ (Parent => ~launched)
    BY DEF Init, TraceesInit
  <2> QED
    BY <2>1, <2>2, <2>3, TraceesAssumption
<1>3. BornTraced
  BY <1>2, TraceesAssumption DEF BornTraced
<1>4. Born /\ InKnown /\ Passed /\ Current
  BY <1>2 DEF Born, InKnown, Passed, Current
<1> QED
  BY <1>1, <1>3, <1>4 DEF IInv

LEMMA Entries ==
  ASSUME TypeOK
  PROVE  /\ Len(tid) \in Nat /\ DOMAIN tid = 1..Len(tid)
         /\ \A i \in DOMAIN tid : tid[i] \in Threads \cup {NoPid}
         /\ \A i \in DOMAIN tid : tid[i] \in Threads <=> tid[i] # NoPid
         /\ \A t : t \in Known <=> t # NoPid /\ \E i \in DOMAIN tid : tid[i] = t
BY LenProperties, EntryType, NoPidAssumption DEF TypeOK, Known

(* A step that continues no thread and does not touch the table.           *)
LEMMA KeepTable ==
  ASSUME IInv, tid' = tid,
         \A t \in Threads : /\ Runs(t)' => Runs(t)
                            /\ state[t] # "unborn" => state'[t] # "unborn",
         pc \notin {"seize", "gettids"} \/ pc' = pc
  PROVE  Born' /\ InKnown'
<1>1. Born'
  BY Entries DEF IInv, Typed, Born
<1>2. InKnown'
  BY DEF IInv, InKnown, Known
<1> QED
  BY <1>1, <1>2

(* ... and does not move the tracker either.                               *)
LEMMA KeepPlace ==
  ASSUME IInv, UNCHANGED <<pc, idx, tid, waitfor>>,
         \A t \in Threads : Held(t) => Held(t)'
  PROVE  Passed' /\ Current'
<1>e. \A i \in DOMAIN tid : tid[i] \in Threads \cup {NoPid}
  BY Entries DEF IInv, Typed
<1>1. Passed'
  BY <1>e DEF IInv, Passed
<1>2. Current'
  <2> SUFFICES ASSUME pc = "paWait"  PROVE Current'
    BY DEF Current
  <2>1. idx \in DOMAIN tid
    BY Entries DEF IInv, Typed, InTable, TypeOK
  <2> QED
    BY <2>1, <1>e DEF IInv, Current
<1> QED
  BY <1>1, <1>2

LEMMA EnvironmentSafe ==
  ASSUME IInv, Environment
  PROVE  IInv'
<1>1. /\ App \/ \E t \in Threads : Kernel(t)
      /\ UNCHANGED <<pc, idx, tid, waitfor>>
      /\ TraceesTypeOK
      /\ BornTraced
  BY DEF Environment, kvars, IInv, Typed, TypeOK
<1>2. \A t \in Threads : /\ Held(t) => Held(t)'
                         /\ Runs(t)' => Runs(t)
                         /\ state[t] # "unborn" => state'[t] # "unborn"
  BY <1>1, EnvironmentKeeps
<1>3. Typed'
  BY EnvironmentType DEF IInv
<1>4. BornTraced'
  BY <1>1, EnvironmentTraces
<1> QED
  BY <1>1, <1>2, <1>3, <1>4, KeepTable, KeepPlace DEF IInv

LEMMA MarkExitedEntries ==
  ASSUME TypeOK, NEW t \in Threads, tid' = MarkExited(t)
  PROVE  /\ DOMAIN tid' = DOMAIN tid
         /\ \A i \in DOMAIN tid : tid'[i] = IF tid[i] = t THEN NoPid ELSE tid[i]
         /\ \A u \in Threads \ {t} : u \in Known => u \in Known'
<1>1. DOMAIN tid' = DOMAIN tid
  BY MarkExitedType DEF TypeOK
<1>2. \A i \in DOMAIN tid : tid'[i] = IF tid[i] = t THEN NoPid ELSE tid[i]
  BY DEF MarkExited
<1> QED
  BY <1>1, <1>2, NoPidAssumption DEF Known

(* The handlers that cross a thread out: it will never run again.          *)
LEMMA CrossedOut ==
  ASSUME IInv, Typed', NEW t \in Threads, Awaited(t), UNCHANGED <<pc, idx>>,
         tid' = MarkExited(t), state'[t] \in {"dying", "reaped"},
         waitfor' = waitfor \/ (waitfor = t /\ waitfor' = NoPid),
         \A u \in Threads : /\ Held(u) => Held(u)'
                            /\ Runs(u)' => Runs(u) \/ u = t
                            /\ state[u] # "unborn" => state'[u] # "unborn"
  PROVE  Born' /\ InKnown' /\ Passed' /\ Current'
<1>1. /\ DOMAIN tid' = DOMAIN tid
      /\ \A i \in DOMAIN tid : tid'[i] = IF tid[i] = t THEN NoPid ELSE tid[i]
      /\ \A u \in Threads \ {t} : u \in Known => u \in Known'
  BY MarkExitedEntries DEF IInv, Typed
<1>e. \A i \in DOMAIN tid : tid[i] \in Threads \cup {NoPid}
  BY Entries DEF IInv, Typed
<1>2. Born'
  BY <1>1, <1>e DEF IInv, Born
<1>3. InKnown'
  <2>1. ~Runs(t)'
    BY DEF Runs
  <2>2. pc \notin {"seize", "gettids"}
    BY DEF Awaited, Waiting
  <2> QED
    BY <1>1, <2>1, <2>2 DEF IInv, InKnown
<1>4. Passed'
  BY <1>1, <1>e DEF IInv, Passed
<1>5. Current'
  <2> SUFFICES ASSUME pc = "paWait"  PROVE Current'
    BY DEF Current
  <2>1. idx \in DOMAIN tid
    BY Entries DEF IInv, Typed, InTable, TypeOK
  <2> QED
    BY <2>1, <1>1, <1>e, NoPidAssumption DEF IInv, Current
<1> QED
  BY <1>2, <1>3, <1>4, <1>5

(* The end of the tracker and the stages outside a pause claim nothing of  *)
(* the table's entries.                                                    *)
LEMMA OutsidePause ==
  ASSUME pc' \notin {"pa", "paWait", "work"}
  PROVE  Passed' /\ Current'
BY DEF Passed, Current

LEMMA CheckStatusSafe ==
  ASSUME IInv, CheckStatus
  PROVE  IInv'
<1>t. Typed' /\ TypeOK /\ TraceesTypeOK /\ BornTraced /\ InTable
  BY CheckStatusType DEF IInv, Typed, TypeOK
<1>e. /\ Len(tid) \in Nat /\ DOMAIN tid = 1..Len(tid)
      /\ \A i \in DOMAIN tid : tid[i] \in Threads \cup {NoPid}
  BY <1>t, Entries
<1>k. \A t \in Threads : Awaited(t) =>
        /\ Reportable(t) /\ traced[t] /\ state[t] # "unborn"
        /\ pc \in Waiting /\ pc \notin {"seize", "gettids"}
  BY DEF Awaited, Reportable, Waitable, Waiting
<1>1. ASSUME NEW t \in Threads, OnExited(t)  PROVE IInv'
  <2>1. Reap(t) /\ state[t] # "unborn" /\ Awaited(t)
    BY <1>1, <1>k DEF OnExited
  <2>2. \A u \in Threads : /\ Held(u) => Held(u)'
                           /\ Runs(u)' => Runs(u)
                           /\ state[u] # "unborn" => state'[u] # "unborn"
    BY <2>1, <1>t, HoldingRequest
  <2>3. state'[t] = "reaped"
    BY <2>1, <1>t DEF Reap, TraceesTypeOK
  <2>4. BornTraced'
    BY <1>1, <2>1, <1>t, RequestTraces DEF OnExited
  <2>5. Born' /\ InKnown' /\ Passed' /\ Current'
    BY <1>1, <1>t, <2>1, <2>2, <2>3, CrossedOut DEF OnExited, DoneWith
  <2> QED
    BY <1>t, <2>4, <2>5 DEF IInv
<1>2. ASSUME NEW t \in Threads, OnExitEvent(t)  PROVE IInv'
  <2>1. Cont(t) /\ Reportable(t) /\ Awaited(t)
    BY <1>2, <1>k DEF OnExitEvent
  <2>2. \A u \in Threads : /\ Held(u) => Held(u)'
                           /\ Runs(u)' => Runs(u) \/ u = t
                           /\ state[u] # "unborn" => state'[u] # "unborn"
    BY <2>1, <1>t, ServedStop, StartingRequest
  <2>3. state'[t] = "dying"
    BY <1>2, <1>t DEF OnExitEvent, Cont, Continued, TraceesTypeOK
  <2>4. BornTraced'
    BY <1>2, <2>1, <1>t, RequestTraces DEF OnExitEvent
  <2>5. Born' /\ InKnown' /\ Passed' /\ Current'
    BY <1>2, <1>t, <2>1, <2>2, <2>3, CrossedOut DEF OnExitEvent
  <2> QED
    BY <1>t, <2>4, <2>5 DEF IInv
<1>3. ASSUME NEW t \in Threads, OnForkEvent(t)  PROVE IInv'
  <2>1. Notice(t) /\ UNCHANGED <<pc, idx, tid, waitfor>>
    BY <1>3 DEF OnForkEvent, kvars
  <2>2. \A u \in Threads : /\ Held(u) => Held(u)'
                           /\ Runs(u)' => Runs(u)
                           /\ state[u] # "unborn" => state'[u] # "unborn"
    BY <2>1, <1>t, HoldingRequest
  <2>4. BornTraced'
    BY <2>1, <1>t, RequestTraces
  <2> QED
    BY <1>t, <2>1, <2>2, <2>4, KeepTable, KeepPlace DEF IInv
<1>5. ASSUME NEW t \in Threads, OnCloneOrSignal(t)  PROVE IInv'
  <2>1. /\ Cont(t) /\ Reportable(t) /\ Runs(t)
        /\ UNCHANGED <<pc, idx, tid, waitfor>>
    BY <1>5, <1>k DEF OnCloneOrSignal, kvars, Runs
  <2>2. \A u \in Threads : /\ Held(u) => Held(u)'
                           /\ Runs(u)' => Runs(u)
                           /\ state[u] # "unborn" => state'[u] # "unborn"
    BY <2>1, <1>t, ServedStop, StartingRequest
  <2>4. BornTraced'
    BY <2>1, <1>t, RequestTraces
  <2> QED
    BY <1>t, <2>1, <2>2, <2>4, KeepTable, KeepPlace DEF IInv
<1>4. ASSUME NEW t \in Threads, OnExecEvent(t)  PROVE IInv'
  <2>0. UNCHANGED <<pc, idx, tid>> /\ Awaited(t) /\ Reportable(t) /\ Runs(t)
    BY <1>4, <1>k DEF OnExecEvent, Runs
  <2>1. CASE waitfor = t
    <3>1. Notice(t) /\ waitfor' = NoPid
      BY <1>4, <2>1 DEF OnExecEvent, DoneWith
    <3>2. \A u \in Threads : /\ Held(u) => Held(u)'
                             /\ Runs(u)' => Runs(u)
                             /\ state[u] # "unborn" => state'[u] # "unborn"
      BY <3>1, <1>t, HoldingRequest
    <3>3. Held(t)'
      BY <1>4, <3>1, <1>t DEF OnExecEvent, Notice, TraceesTypeOK, Held, Quiet
    <3>4. BornTraced'
      BY <2>0, <3>1, <1>t, RequestTraces
    <3>5. Passed'
      BY <2>0, <3>2, <1>e DEF IInv, Passed
    <3>6. Current'
      <4> SUFFICES ASSUME pc = "paWait"  PROVE Current'
        BY <2>0 DEF Current
      <4>1. idx \in DOMAIN tid
        BY <1>t, <1>e DEF InTable, TypeOK
      <4> QED
        BY <4>1, <1>e, <2>0, <2>1, <3>1, <3>3, NoPidAssumption DEF IInv, Current
    <3> QED
      BY <1>t, <1>k, <2>0, <3>2, <3>4, <3>5, <3>6, KeepTable DEF IInv
  <2>2. CASE waitfor # t
    <3>1. Cont(t) /\ waitfor' = waitfor
      BY <1>4, <2>2 DEF OnExecEvent, DoneWith
    <3>2. \A u \in Threads : /\ Held(u) => Held(u)'
                             /\ Runs(u)' => Runs(u)
                             /\ state[u] # "unborn" => state'[u] # "unborn"
      BY <2>0, <3>1, <1>t, ServedStop, StartingRequest
    <3>3. BornTraced'
      BY <2>0, <3>1, <1>t, RequestTraces
    <3> QED
      BY <1>t, <2>0, <3>1, <3>2, <3>3, KeepTable, KeepPlace DEF IInv
  <2> QED
    BY <2>1, <2>2
<1>6. ASSUME NEW t \in Threads, OnNewThread(t)  PROVE IInv'
  <2>0. /\ UNCHANGED <<pc, idx, waitfor>> /\ Awaited(t) /\ Reportable(t)
        /\ tid' = Append(tid, t) /\ Cont(t)
    BY <1>6, <1>k DEF OnNewThread
  <2>1. /\ DOMAIN tid' = 1..(Len(tid) + 1)
        /\ \A i \in DOMAIN tid : tid'[i] = tid[i]
        /\ tid'[Len(tid) + 1] = t
    BY <2>0, <1>t, AppendProperties, LenProperties DEF TypeOK
  <2>2. \A u \in Threads : /\ Held(u) => Held(u)'
                           /\ Runs(u)' => Runs(u) \/ u = t
                           /\ state[u] # "unborn" => state'[u] # "unborn"
    BY <2>0, <1>t, ServedStop, StartingRequest
  <2>3. BornTraced'
    BY <2>0, <1>t, RequestTraces
  <2>4. Born'
    <3>1. state'[t] # "unborn"
      BY <1>k, <2>0, <2>2
    <3>2. \A i \in DOMAIN tid' : i \in DOMAIN tid \/ i = Len(tid) + 1
      BY <1>e, <2>1
    <3> QED
      BY <1>e, <2>1, <2>2, <3>1, <3>2 DEF IInv, Born
  <2>5. InKnown'
    <3>1. \A u \in Threads : u \in Known \/ u = t => u \in Known'
      BY <1>e, <2>1, NoPidAssumption DEF Known
    <3> QED
      BY <1>k, <2>0, <2>2, <3>1 DEF IInv, InKnown
  <2>6. pc # "pa" /\ pc # "work"
    BY <1>k, <2>0 DEF Waiting
  <2>7. pc = "paWait" => idx \in DOMAIN tid
    BY <1>t, <1>e DEF InTable, TypeOK
  <2>8. Passed'
    <3> SUFFICES ASSUME pc = "paWait", NEW i \in DOMAIN tid', i < idx
                 PROVE  (tid[i] = NoPid \/ Held(tid[i]))'
      BY <2>0, <2>6 DEF Passed
    <3>1. i \in DOMAIN tid
      BY <1>e, <2>1, <2>7
    <3> QED
      BY <1>e, <2>1, <2>2, <3>1 DEF IInv, Passed
  <2>9. Current'
    BY <1>e, <2>0, <2>1, <2>2, <2>7 DEF IInv, Current
  <2> QED
    BY <1>t, <2>3, <2>4, <2>5, <2>8, <2>9 DEF IInv
<1>7. ASSUME NEW t \in Threads, OnPaused(t)  PROVE IInv'
  <2>0. Notice(t) /\ UNCHANGED <<idx, tid>> /\ Awaited(t)
    BY <1>7 DEF OnPaused, Abort
  <2>1. \A u \in Threads : /\ Held(u) => Held(u)'
                           /\ Runs(u)' => Runs(u)
                           /\ state[u] # "unborn" => state'[u] # "unborn"
    BY <2>0, <1>t, HoldingRequest
  <2>2. Born' /\ InKnown'
    BY <2>0, <1>k, <2>1, KeepTable
  <2>3. CASE waitfor = t
    <3>1. UNCHANGED pc /\ waitfor' = NoPid
      BY <1>7, <2>3 DEF OnPaused
    <3>2. Held(t)'
      BY <1>7, <2>0, <1>t DEF OnPaused, Notice, TraceesTypeOK, Held, Quiet
    <3>3. BornTraced'
      BY <2>0, <3>1, <1>t, RequestTraces
    <3>4. Passed'
      BY <2>0, <2>1, <3>1, <1>e DEF IInv, Passed
    <3>5. Current'
      <4> SUFFICES ASSUME pc = "paWait"  PROVE Current'
        BY <3>1 DEF Current
      <4>1. idx \in DOMAIN tid
        BY <1>t, <1>e DEF InTable, TypeOK
      <4> QED
        BY <4>1, <1>e, <2>0, <2>3, <3>1, <3>2, NoPidAssumption DEF IInv, Current
    <3> QED
      BY <1>t, <2>2, <3>3, <3>4, <3>5 DEF IInv
  <2>4. CASE waitfor # t
    <3>1. pc' = "aborted"
      BY <1>7, <2>4 DEF OnPaused, Abort
    <3>2. pc # "seize"
      BY <1>k, <2>0
    <3>3. BornTraced'
      BY <1>t, <2>0, <3>1, <3>2 DEF BornTraced, Notice
    <3> QED
      BY <1>t, <2>2, <3>1, <3>3, OutsidePause DEF IInv
  <2> QED
    BY <2>3, <2>4
<1>8. CASE CheckDone
  <2>1. /\ UNCHANGED <<tvars, tid, waitfor>> /\ waitfor = NoPid /\ pc \in Waiting
        /\ \/ pc = "spWait" /\ pc' = "sp"
           \/ pc = "drain" /\ pc' = "pa" /\ idx' = 1
           \/ pc = "paWait" /\ pc' = "pa" /\ idx' = idx + 1
    BY <1>8 DEF CheckDone, NothingToReport, Goto
  <2>2. UNCHANGED <<state, seen, traced, launched>>
    BY <2>1 DEF tvars
  <2>3. \A u \in Threads : /\ Held(u)' <=> Held(u)
                           /\ Runs(u)' <=> Runs(u)
                           /\ state[u] # "unborn" => state'[u] # "unborn"
    BY <2>2 DEF Held, Quiet, Runs
  <2>4. BornTraced'
    BY <2>1, <2>2, <1>t DEF BornTraced
  <2>5. Born' /\ InKnown'
    BY <2>1, <2>3, KeepTable DEF Waiting
  <2>6. Current'
    BY <2>1 DEF Current
  <2>7. Passed'
    <3>1. CASE pc' = "sp"
      BY <3>1 DEF Passed
    <3>2. CASE pc = "drain" /\ pc' = "pa" /\ idx' = 1
      BY <3>2, <2>1, <1>e DEF Passed
    <3>3. CASE pc = "paWait" /\ pc' = "pa" /\ idx' = idx + 1
      <4>1. tid[idx] = NoPid \/ Held(tid[idx])
        BY <3>3, <2>1 DEF IInv, Current
      <4>2. \A i \in DOMAIN tid : i < idx => tid[i] = NoPid \/ Held(tid[i])
        BY <3>3 DEF IInv, Passed
      <4>3. \A i \in DOMAIN tid : i < idx + 1 => i < idx \/ i = idx
        BY <1>e, <1>t DEF TypeOK
      <4>4. \A i \in DOMAIN tid : i < idx + 1 => tid[i] = NoPid \/ Held(tid[i])
        BY <4>1, <4>2, <4>3
      <4> QED
        BY <3>3, <2>1, <2>3, <4>4, <1>e DEF Passed
    <3> QED
      BY <2>1, <3>1, <3>2, <3>3
  <2> QED
    BY <1>t, <2>4, <2>5, <2>6, <2>7 DEF IInv
<1>9. CASE NoChild
  <2>1. UNCHANGED <<tvars, tid>> /\ pc \in Waiting /\ pc' = "aborted"
    BY <1>9 DEF NoChild, Abort
  <2>2. \A u \in Threads : /\ Runs(u)' <=> Runs(u)
                           /\ state[u] # "unborn" => state'[u] # "unborn"
    BY <2>1 DEF tvars, Runs
  <2>3. BornTraced'
    BY <2>1, <1>t DEF BornTraced, tvars, Waiting
  <2>4. Born' /\ InKnown'
    BY <2>1, <2>2, KeepTable DEF Waiting
  <2> QED
    BY <1>t, <2>1, <2>3, <2>4, OutsidePause DEF IInv
<1> QED
  BY <1>1, <1>2, <1>3, <1>4, <1>5, <1>6, <1>7, <1>8, <1>9 DEF CheckStatus

LEMMA PauseSafe ==
  ASSUME IInv, PauseNext
  PROVE  IInv'
<1>t. Typed' /\ TypeOK /\ TraceesTypeOK /\ BornTraced /\ InTable
  BY MainType DEF Tracker, IInv, Typed, TypeOK
<1>e. /\ Len(tid) \in Nat /\ DOMAIN tid = 1..Len(tid)
      /\ \A i \in DOMAIN tid : tid[i] \in Threads \cup {NoPid}
  BY <1>t, Entries
<1>i. idx \in DOMAIN tid /\ idx \in Nat /\ pc = "pa" /\ UNCHANGED tid
  BY <1>t, <1>e DEF PauseNext, TypeOK
<1>p. \A i \in DOMAIN tid : i < idx => tid[i] = NoPid \/ Held(tid[i])
  BY <1>i DEF IInv, Passed
<1>q. \A i \in DOMAIN tid : i < idx + 1 => i < idx \/ i = idx
  BY <1>e, <1>i
<1>1. CASE (tid[idx] = NoPid \/ ~CanInterrupt(tid[idx])) /\ UNCHANGED tvars /\ pc' = "pa" /\ idx' = idx + 1
  <2>1. UNCHANGED <<state, seen, traced, launched>>
    BY <1>1 DEF tvars
  <2>2. \A u \in Threads : /\ Held(u)' <=> Held(u)
                           /\ Runs(u)' <=> Runs(u)
                           /\ state[u] # "unborn" => state'[u] # "unborn"
    BY <2>1 DEF Held, Quiet, Runs
  <2>3. BornTraced'
    BY <1>i, <1>1, <2>1, <1>t DEF BornTraced
  <2>4. Born' /\ InKnown'
    BY <1>i, <2>2, KeepTable
  <2>5. tid[idx] = NoPid \/ Held(tid[idx])
    BY <1>1, <1>e, <1>i
       DEF IInv, Born, CanInterrupt, Children, Held, Quiet
  <2>6. Passed'
    BY <1>1, <1>i, <1>e, <1>p, <1>q, <2>2, <2>5 DEF Passed
  <2>7. Current'
    BY <1>1 DEF Current
  <2> QED
    BY <1>t, <2>3, <2>4, <2>6, <2>7 DEF IInv
<1>2. CASE /\ tid[idx] \in Threads /\ Interrupt(tid[idx])
           /\ waitfor' = tid[idx] /\ pc' = "paWait" /\ idx' = idx
  <2>1. \A u \in Threads : /\ Held(u) => Held(u)'
                           /\ Runs(u)' => Runs(u)
                           /\ state[u] # "unborn" => state'[u] # "unborn"
    BY <1>2, <1>t, HoldingRequest
  <2>2. BornTraced'
    BY <1>i, <1>2, <1>t DEF BornTraced, Interrupt
  <2>3. Born' /\ InKnown'
    BY <1>i, <2>1, KeepTable
  <2>4. Passed'
    BY <1>2, <1>i, <1>e, <1>p, <2>1 DEF Passed
  <2>5. Current'
    BY <1>2, <1>i DEF Current
  <2> QED
    BY <1>t, <2>2, <2>3, <2>4, <2>5 DEF IInv
<1> QED
  BY <1>1, <1>2, <1>e, <1>i DEF PauseNext, ProcPause, Goto

LEMMA TrackerSafe ==
  ASSUME IInv, Tracker
  PROVE  IInv'
<1>t. Typed' /\ TypeOK /\ TraceesTypeOK /\ BornTraced /\ InTable
  BY MainType DEF IInv, Typed, TypeOK
<1>e. /\ Len(tid) \in Nat /\ DOMAIN tid = 1..Len(tid)
      /\ \A i \in DOMAIN tid : tid[i] \in Threads \cup {NoPid}
      /\ \A i \in DOMAIN tid : tid[i] \in Threads <=> tid[i] # NoPid
  BY <1>t, Entries
<1>1. CASE SeizeLeader
  <2>1. Leader \in Threads /\ Seize(Leader) /\ pc' = "gettids" /\ UNCHANGED tid
    BY <1>1, TraceesAssumption DEF SeizeLeader, Goto
  <2>2. \A u \in Threads : state[u] # "unborn" => state'[u] # "unborn"
    BY <2>1, <1>t, StartingRequest
  <2>3. BornTraced'
    BY <2>1, <1>t DEF BornTraced, Seize, TraceesTypeOK
  <2>4. Born' /\ InKnown'
    BY <2>1, <2>2, <1>e DEF IInv, Born, InKnown
  <2> QED
    BY <1>t, <2>1, <2>3, <2>4, OutsidePause DEF IInv
<1>2. CASE GetTids
  <2>1. /\ UNCHANGED tvars /\ pc' = "sp" /\ pc = "gettids"
        /\ \A i \in DOMAIN tid' : tid'[i] \in Threads /\ state[tid'[i]] \notin Absent
        /\ \A t \in Threads : state[t] \notin Absent => \E i \in DOMAIN tid' : tid'[i] = t
    BY <1>2 DEF GetTids, Goto
  <2>2. Born'
    BY <2>1 DEF Born, tvars
  <2>3. InKnown'
    BY <2>1, NoPidAssumption DEF InKnown, Known, Runs, tvars
  <2>4. BornTraced'
    BY <2>1, <1>t DEF BornTraced, tvars
  <2> QED
    BY <1>t, <2>1, <2>2, <2>3, <2>4, OutsidePause DEF IInv
<1>3. CASE SeizeNext
  <2>0. pc = "sp" /\ idx \in DOMAIN tid /\ UNCHANGED tid /\ pc' \in {"spPause", "aborted"}
    BY <1>3, <1>t, <1>e DEF SeizeNext, InTable, TypeOK, Goto, Abort
  <2>1. CASE UNCHANGED tvars
    <3>1. \A u \in Threads : /\ Runs(u)' <=> Runs(u)
                             /\ state[u] # "unborn" => state'[u] # "unborn"
      BY <2>1 DEF tvars, Runs
    <3>2. BornTraced'
      BY <2>0, <2>1, <1>t DEF BornTraced, tvars
    <3>3. Born' /\ InKnown'
      BY <2>0, <3>1, KeepTable
    <3> QED
      BY <1>t, <2>0, <3>2, <3>3, OutsidePause DEF IInv
  <2>2. CASE tid[idx] \in Threads /\ CanSeize(tid[idx]) /\ Seize(tid[idx])
    <3>1. \A u \in Threads : /\ Runs(u)' => Runs(u) \/ u = tid[idx]
                             /\ state[u] # "unborn" => state'[u] # "unborn"
      BY <2>2, <1>t, StartingRequest
    <3>2. BornTraced'
      BY <2>0, <2>2, <1>t DEF BornTraced, Seize, CanSeize, TraceesTypeOK
    <3>3. tid[idx] \in Known
      BY <2>0, <2>2, NoPidAssumption DEF Known
    <3>4. Born' /\ InKnown'
      BY <2>0, <3>1, <3>3, <1>e DEF IInv, Born, InKnown, Known
    <3> QED
      BY <1>t, <2>0, <3>2, <3>4, OutsidePause DEF IInv
  <2> QED
    BY <1>3, <1>e, <2>0, <2>1, <2>2 DEF SeizeNext
<1>4. CASE SeizedPause
  <2>1. /\ pc = "spPause" /\ pc' \in {"spWait", "sp"} /\ UNCHANGED tid
        /\ tid[idx] \in Threads
        /\ Interrupt(tid[idx]) \/ UNCHANGED tvars
    BY <1>4, <1>t, <1>e DEF SeizedPause, ProcPause, Goto, InTable, TypeOK
  <2>2. \A u \in Threads : /\ Runs(u)' => Runs(u)
                           /\ state[u] # "unborn" => state'[u] # "unborn"
    BY <2>1, <1>t, HoldingRequest
  <2>3. BornTraced'
    BY <2>1, <1>t DEF BornTraced, Interrupt, tvars
  <2>4. Born' /\ InKnown'
    BY <2>1, <2>2, KeepTable
  <2> QED
    BY <1>t, <2>1, <2>3, <2>4, OutsidePause DEF IInv
<1>5. CASE ResumeNext
  <2>0. /\ pc = "resume" /\ pc' = "resume" /\ UNCHANGED tid
        /\ idx \in DOMAIN tid
        /\ UNCHANGED tvars \/ (tid[idx] \in Threads /\ Cont(tid[idx]))
    BY <1>5, <1>t, <1>e DEF ResumeNext, Goto, TypeOK
  <2>1. CASE UNCHANGED tvars
    <3>1. \A u \in Threads : /\ Runs(u)' <=> Runs(u)
                             /\ state[u] # "unborn" => state'[u] # "unborn"
      BY <2>1 DEF tvars, Runs
    <3>2. BornTraced'
      BY <2>0, <2>1, <1>t DEF BornTraced, tvars
    <3>3. Born' /\ InKnown'
      BY <2>0, <3>1, KeepTable
    <3> QED
      BY <1>t, <2>0, <3>2, <3>3, OutsidePause DEF IInv
  <2>2. CASE tid[idx] \in Threads /\ Cont(tid[idx])
    <3>1. \A u \in Threads : /\ Runs(u)' => Runs(u) \/ u = tid[idx]
                             /\ state[u] # "unborn" => state'[u] # "unborn"
      BY <2>2, <1>t, StartingRequest
    <3>2. BornTraced'
      BY <2>0, <2>2, <1>t, RequestTraces
    <3>3. tid[idx] \in Known
      BY <2>0, <2>2, NoPidAssumption DEF Known
    <3>4. Born' /\ InKnown'
      BY <2>0, <3>1, <3>3, <1>e DEF IInv, Born, InKnown, Known
    <3> QED
      BY <1>t, <2>0, <3>2, <3>4, OutsidePause DEF IInv
  <2> QED
    BY <2>0, <2>1, <2>2
<1>6. CASE SeizeDone \/ FirstSnapshot \/ Loop \/ ResumeDone \/ Wake \/ PauseDone \/ Snapshot
  <2>1. /\ UNCHANGED <<tvars, tid>>
        /\ pc \in {"sp", "work0", "loop", "resume", "sleep", "pa", "work"}
        /\ pc' \in {"work0", "loop", "resume", "finished", "sleep", "drain", "work"}
        /\ pc' = "work" => pc = "pa" /\ idx > Len(tid)
    BY <1>6 DEF SeizeDone, FirstSnapshot, Loop, ResumeDone, Wake, PauseDone, Snapshot, Goto
  <2>2. UNCHANGED <<state, seen, traced, launched>>
    BY <2>1 DEF tvars
  <2>3. \A u \in Threads : /\ Held(u)' <=> Held(u)
                           /\ Runs(u)' <=> Runs(u)
                           /\ state[u] # "unborn" => state'[u] # "unborn"
    BY <2>2 DEF Held, Quiet, Runs
  <2>4. BornTraced'
    BY <2>1, <2>2, <1>t DEF BornTraced
  <2>5. Born' /\ InKnown'
    BY <2>1, <2>3, KeepTable
  <2>6. Passed' /\ Current'
    <3>1. CASE pc' # "work"
      BY <2>1, <3>1, OutsidePause
    <3>2. CASE pc' = "work"
      <4>1. \A i \in DOMAIN tid : i < idx
        BY <2>1, <3>2, <1>e, <1>t DEF TypeOK
      <4>2. \A i \in DOMAIN tid : tid[i] = NoPid \/ Held(tid[i])
        BY <2>1, <3>2, <4>1 DEF IInv, Passed
      <4> QED
        BY <2>1, <2>3, <3>2, <4>2, <1>e DEF Passed, Current
    <3> QED
      BY <3>1, <3>2
  <2> QED
    BY <1>t, <2>4, <2>5, <2>6 DEF IInv
<1> QED
  BY <1>1, <1>2, <1>3, <1>4, <1>5, <1>6, PauseSafe, CheckStatusSafe DEF Tracker

LEMMA IInvNext == IInv /\ [Next]_vars => IInv'
<1> SUFFICES ASSUME IInv, [Next]_vars  PROVE IInv'
  OBVIOUS
<1>1. CASE SigInt \/ SigIntInWait \/ Terminated \/ UNCHANGED vars
  <2>1. /\ UNCHANGED <<tvars, tid, idx, waitfor>>
        /\ UNCHANGED pc \/ (pc \in Waiting /\ pc' = "aborted")
    BY <1>1 DEF SigInt, SigIntInWait, Terminated, vars, kvars
  <2>2. UNCHANGED <<state, seen, traced, launched>>
    BY <2>1 DEF tvars
  <2>3. \A u \in Threads : /\ Held(u)' <=> Held(u)
                           /\ Runs(u)' <=> Runs(u)
                           /\ state[u] # "unborn" => state'[u] # "unborn"
    BY <2>2 DEF Held, Quiet, Runs
  <2>4. BornTraced'
    BY <2>1, <2>2 DEF IInv, BornTraced, Waiting
  <2>5. Born' /\ InKnown'
    BY <2>1, <2>3, KeepTable DEF Waiting
  <2>6. Passed' /\ Current'
    BY <2>1, <2>3, KeepPlace, OutsidePause
  <2>7. Typed'
    BY TypedNext DEF IInv
  <2> QED
    BY <2>4, <2>5, <2>6, <2>7 DEF IInv
<1> QED
  BY <1>1, EnvironmentSafe, TrackerSafe DEF Next

----------------------------------------------------------------------------
(* What follows from the invariant.                                        *)

LEMMA IInvSafe == IInv => TracedStopped /\ WorldStopped /\ Adopted
<1> SUFFICES ASSUME IInv  PROVE TracedStopped /\ WorldStopped /\ Adopted
  OBVIOUS
<1>1. ASSUME pc = "work", NEW t \in Threads, traced[t], Active(t)
      PROVE  FALSE
  <2>1. t \in Known
    BY <1>1 DEF IInv, InKnown, Runs, Active
  <2>2. PICK i \in DOMAIN tid : tid[i] = t /\ t # NoPid
    BY <2>1 DEF Known
  <2>3. Held(t)
    BY <1>1, <2>2 DEF IInv, Passed
  <2> QED
    BY <1>1, <2>3 DEF Held, Quiet, Active
<1>2. ASSUME Parent, "early" \notin Ops, pc = "work", NEW t \in Threads, Active(t)
      PROVE  traced[t]
  BY <1>2 DEF IInv, BornTraced, Active
<1>3. Adopted
  BY DEF IInv, InKnown, Adopted, Runs, Active
<1> QED
  BY <1>1, <1>2, <1>3 DEF TracedStopped, WorldStopped

LEMMA Invariance == Spec => []IInv
BY IInvInit, IInvNext, PTL DEF Spec

(* During find_dirty_data of the main loop no traced thread runs.          *)
THEOREM TracedStoppedHolds == Spec => []TracedStopped
BY Invariance, IInvSafe, PTL

(* ... and no thread at all, when the tracker started the application      *)
(* (-c) and seized it before its execvp.                                   *)
THEOREM WorldStoppedHolds == Spec => []WorldStopped
BY Invariance, IInvSafe, PTL

(* While the tracker sleeps it knows every traced thread that runs.        *)
THEOREM AdoptedHolds == Spec => []Adopted
BY Invariance, IInvSafe, PTL

(* The only steps into and out of a reading are PauseDone and Snapshot,    *)
(* which touch no thread.                                                  *)
LEMMA ReadingSteps ==
  ASSUME TypeOK, [Next]_vars, (pc = "work") # (pc' = "work")
  PROVE  UNCHANGED tvars
<1>1. CASE Environment \/ SigInt \/ SigIntInWait \/ Terminated \/ UNCHANGED vars
  BY <1>1 DEF Environment, SigInt, SigIntInWait, Terminated, vars, kvars, Waiting
<1>2. CASE CheckStatus
  <2>1. pc \in Waiting /\ pc' # "work"
    BY <1>2 DEF CheckStatus, OnExited, OnExitEvent, OnForkEvent, OnExecEvent,
       OnCloneOrSignal, OnNewThread, OnPaused, CheckDone, NoChild, NothingToReport,
       Awaited, Waiting, Goto, Abort, kvars
  <2> QED
    BY <2>1 DEF Waiting
<1>3. CASE SeizeLeader \/ GetTids \/ SeizeNext \/ SeizedPause \/ ResumeNext \/ PauseNext
  BY <1>3 DEF SeizeLeader, GetTids, SeizeNext, SeizedPause, ResumeNext, PauseNext,
     ProcPause, Goto, Abort
<1>4. CASE SeizeDone \/ FirstSnapshot \/ Loop \/ ResumeDone \/ Wake \/ PauseDone \/ Snapshot
  BY <1>4 DEF SeizeDone, FirstSnapshot, Loop, ResumeDone, Wake, PauseDone, Snapshot
<1> QED
  BY <1>1, <1>2, <1>3, <1>4 DEF Next, Tracker

LEMMA ReadsStoppedWorldStep ==
  IInv /\ IInv' /\ [Next]_vars => [World!Next]_<<pc = "work", {t \in Threads : traced[t] /\ Active(t)}>>
<1> DEFINE reading == pc = "work"
           active == {t \in Threads : traced[t] /\ Active(t)}
<1> SUFFICES ASSUME IInv, IInv', [Next]_vars
             PROVE  World!Next \/ (reading' = reading /\ active' = active)
  OBVIOUS
<1>1. reading => active = {}
  BY IInvSafe DEF TracedStopped
<1>2. reading' => active' = {}
  BY IInvSafe DEF IInv, InKnown, Runs, Active, Known, Passed, Held, Quiet
<1>3. reading # reading' => active' = active
  BY ReadingSteps DEF IInv, Typed, tvars, Active, Doomed
<1>4. active' \subseteq Threads
  OBVIOUS
<1>5. CASE reading /\ reading'
  BY <1>1, <1>2, <1>5
<1>6. CASE ~reading /\ ~reading'
  BY <1>4, <1>6 DEF World!Next, World!Window
<1>7. CASE ~reading /\ reading'
  BY <1>2, <1>3, <1>7 DEF World!Next, World!BeginReading
<1>8. CASE reading /\ ~reading'
  BY <1>3, <1>8 DEF World!Next, World!EndReading
<1> QED
  BY <1>5, <1>6, <1>7, <1>8

(* The tracker implements StopTheWorld.                                    *)
THEOREM ImplementsStopTheWorld == Spec => ReadsStoppedWorld
<1>1. Init => World!Init
  BY DEF Init, World!Init
<1>2. Spec => []IInv
  BY Invariance
<1> QED
  BY <1>1, <1>2, ReadsStoppedWorldStep, PTL DEF Spec, World!Spec, ReadsStoppedWorld
============================================================================

------------------------------ MODULE Tracees ------------------------------
(***************************************************************************)
(* The application under test and the kernel's ptrace(2)/waitpid(2) side,  *)
(* as src/common.c uses them: PTRACE_SEIZE with TRACECLONE, TRACEFORK,     *)
(* TRACEEXEC and TRACEEXIT, PTRACE_INTERRUPT, PTRACE_CONT, waitpid.        *)
(*                                                                         *)
(* A thread that is in a ptrace-stop has the name of the stop as its       *)
(* state.  A stop is "seen" once waitpid has returned it; only             *)
(* PTRACE_CONT (or SIGKILL) ends it.                                       *)
(***************************************************************************)
EXTENDS Naturals, FiniteSets

CONSTANTS
  Threads,     (* every thread that may ever exist                         *)
  Leader,      (* the thread-group leader, the pid given to the tracker    *)
  Parent,      (* _config.parent: TRUE for -c (start a child), FALSE for -p*)
  Ops,         (* what the application does, a subset of AppOps            *)
  Racy,        (* the events that can overtake a pending PTRACE_INTERRUPT  *)
  MaxSignals   (* bound: signals delivered to the application              *)

(* clone: a new thread.  exit: a thread leaves on its own (the leader only *)
(* when it is the last).  leaderexit: the leader leaves first.             *)
(* exitgroup: exit(2).  sigkill: kill -9 from outside.  early: the sleep(1)*)
(* of start_child is over before the tracker has seized the child.         *)
AppOps == {"clone", "fork", "exec", "exit", "leaderexit", "exitgroup",
           "sigkill", "signal", "early"}

ASSUME TraceesAssumption ==
  /\ Leader \in Threads
  /\ Parent \in BOOLEAN
  /\ Ops \subseteq AppOps
  /\ Racy \subseteq AppOps
  /\ MaxSignals \in Nat

(* "stop" is PTRACE_EVENT_STOP; "signal" any signal-delivery or group stop. *)
Stops  == {"clone", "fork", "exec", "exit", "stop", "signal"}
Absent == {"unborn", "reaped"}
States == Stops \cup Absent \cup {"starting", "running", "dying", "zombie"}

VARIABLES
  state,      (* the state of each thread                                  *)
  seen,       (* its current stop has been returned by waitpid             *)
  intr,       (* PTRACE_INTERRUPT is pending (the kernel's STOP trap)      *)
  traced,     (* seized, or auto-attached as the child of a seized thread  *)
  forked,     (* the threads that are processes of their own               *)
  killed,     (* the application's thread group is being torn down         *)
  launched,   (* the started child has executed the application            *)
  signals     (* signals delivered so far                                  *)

tvars == <<state, seen, intr, traced, forked, killed, launched, signals>>

TraceesTypeOK ==
  /\ state    \in [Threads -> States]
  /\ seen     \in [Threads -> BOOLEAN]
  /\ intr     \in [Threads -> BOOLEAN]
  /\ traced   \in [Threads -> BOOLEAN]
  /\ forked   \in SUBSET (Threads \ {Leader})
  /\ killed   \in BOOLEAN
  /\ launched \in BOOLEAN
  /\ signals  \in 0..MaxSignals

(* -c: a single forked child, not yet past execvp.  -p: a running process  *)
(* with any number of threads.  Nothing is traced.                         *)
TraceesInit ==
  /\ \E alive \in IF Parent THEN {{Leader}}
                            ELSE {A \in SUBSET Threads : Leader \in A} :
       state = [t \in Threads |-> IF t \in alive THEN "running" ELSE "unborn"]
  /\ seen     = [t \in Threads |-> FALSE]
  /\ intr     = [t \in Threads |-> FALSE]
  /\ traced   = [t \in Threads |-> FALSE]
  /\ forked   = {}
  /\ killed   = FALSE
  /\ launched = ~Parent
  /\ signals  = 0

----------------------------------------------------------------------------
(* The rest of the leader's thread group, and whether it is gone.          *)
Siblings(t) == Threads \ (forked \cup {t})
Alone(t)    == \A u \in Siblings(t) : state[u] \in Absent

(* A dead thread can be waited for; the leader only as the last of its     *)
(* group.                                                                  *)
Waitable(t) == state[t] = "zombie" /\ (t = Leader => Alone(t))

(* What waitpid can return.                                                *)
Reportable(t) ==
  /\ traced[t]
  /\ (state[t] \in Stops /\ ~seen[t]) \/ Waitable(t)

(* A tracee waitpid can still wait for: with none of them it is ECHILD.    *)
Children == {t \in Threads : traced[t] /\ state[t] \notin Absent}

(* Every trap discards a pending interrupt.                                *)
Trap(t, stop) ==
  /\ state' = [state EXCEPT ![t] = stop]
  /\ seen'  = [seen EXCEPT ![t] = FALSE]
  /\ intr'  = [intr EXCEPT ![t] = FALSE]

(* t has SIGKILL pending.                                                  *)
Doomed(t) == killed /\ t \notin forked

(* Application code of t runs, and op is not held back by an interrupt.    *)
Does(t, op) ==
  /\ op \in Ops
  /\ state[t] = "running"
  /\ intr[t] => op \in Racy
  /\ launched
  /\ ~Doomed(t)
  /\ t \in forked => op = "exit"

----------------------------------------------------------------------------
(* What the application does.                                              *)

Clone(t, u) ==
  /\ Does(t, "clone")
  /\ state[u] = "unborn"
  /\ IF traced[t]
       THEN /\ state'  = [state EXCEPT ![t] = "clone", ![u] = "starting"]
            /\ intr'   = [intr EXCEPT ![t] = FALSE]
            /\ traced' = [traced EXCEPT ![u] = TRUE]
       ELSE /\ state'  = [state EXCEPT ![u] = "running"]
            /\ UNCHANGED <<intr, traced>>
  /\ UNCHANGED <<seen, forked, killed, launched, signals>>

Fork(t, u) ==
  /\ Does(t, "fork")
  /\ traced[t]
  /\ state[u] = "unborn"
  /\ u # Leader
  /\ state'  = [state EXCEPT ![t] = "fork", ![u] = "starting"]
  /\ intr'   = [intr EXCEPT ![t] = FALSE]
  /\ traced' = [traced EXCEPT ![u] = TRUE]
  /\ forked' = forked \cup {u}
  /\ UNCHANGED <<seen, killed, launched, signals>>

(* The execvp of start_child, or an exec of a single-threaded application. *)
Exec ==
  /\ state[Leader] = "running" /\ Alone(Leader) /\ ~killed
  /\ IF launched THEN "exec" \in Ops ELSE traced[Leader] \/ "early" \in Ops
  /\ intr[Leader] => "exec" \in Racy
  /\ launched' = TRUE
  /\ IF traced[Leader] THEN Trap(Leader, "exec")
                       ELSE UNCHANGED <<state, seen, intr>>
  /\ UNCHANGED <<traced, forked, killed, signals>>

Exit(t) ==
  /\ IF t = Leader
       THEN traced[t] /\ Does(t, IF Alone(t) THEN "exit" ELSE "leaderexit")
       ELSE Does(t, "exit")
  /\ IF traced[t] THEN Trap(t, "exit")
                  ELSE /\ state' = [state EXCEPT ![t] = "reaped"]
                       /\ UNCHANGED <<seen, intr>>
  /\ UNCHANGED <<traced, forked, killed, launched, signals>>

Signal(t) ==
  /\ Does(t, "signal")
  /\ traced[t]
  /\ signals < MaxSignals
  /\ signals' = signals + 1
  /\ Trap(t, "signal")
  /\ UNCHANGED <<traced, forked, killed, launched>>

(* SIGKILL to the group wakes the threads held in their exit stop and      *)
(* removes the untraced ones.                                              *)
Killed(u) ==
  IF u \notin forked /\ state[u] = "exit" THEN "dying"
  ELSE IF ~traced[u] /\ state[u] = "running" THEN "reaped"
  ELSE state[u]

ExitGroup(t) ==
  /\ Does(t, "exitgroup")
  /\ traced[t] /\ traced[Leader]
  /\ killed' = TRUE
  /\ state'  = [u \in Threads |-> IF u = t THEN "exit" ELSE Killed(u)]
  /\ seen'   = [u \in Threads |-> IF state'[u] = state[u] THEN seen[u] ELSE FALSE]
  /\ intr'   = [intr EXCEPT ![t] = FALSE]
  /\ UNCHANGED <<traced, forked, launched, signals>>

SigKill ==
  /\ "sigkill" \in Ops
  /\ traced[Leader] /\ state[Leader] \notin {"zombie", "reaped"}
  /\ killed' = TRUE
  /\ state'  = [u \in Threads |-> Killed(u)]
  /\ seen'   = [u \in Threads |-> IF state'[u] = state[u] THEN seen[u] ELSE FALSE]
  /\ UNCHANGED <<intr, traced, forked, launched, signals>>

App ==
  \/ \E t, u \in Threads : Clone(t, u) \/ Fork(t, u)
  \/ \E t \in Threads : Exit(t) \/ Signal(t) \/ ExitGroup(t)
  \/ Exec
  \/ SigKill

----------------------------------------------------------------------------
(* What the kernel does by itself.                                         *)

(* A pending interrupt, or the first stop of an auto-attached thread.      *)
EventStop(t) ==
  /\ ~Doomed(t)
  /\ state[t] = "starting" \/ (state[t] = "running" /\ intr[t])
  /\ Trap(t, "stop")
  /\ UNCHANGED <<traced, forked, killed, launched, signals>>

(* A killed thread leaves whatever it was doing for its exit stop.         *)
KilledStop(t) ==
  /\ Doomed(t) /\ traced[t]
  /\ state[t] \in {"starting", "running"} \cup (Stops \ {"exit"})
  /\ Trap(t, "exit")
  /\ UNCHANGED <<traced, forked, killed, launched, signals>>

Die(t) ==
  /\ state[t] = "dying"
  /\ state' = [state EXCEPT ![t] = "zombie"]
  /\ UNCHANGED <<seen, intr, traced, forked, killed, launched, signals>>

Kernel(t) == EventStop(t) \/ KilledStop(t) \/ Die(t)

----------------------------------------------------------------------------
(* The system calls of the tracker.                                        *)

CanSeize(t) == ~traced[t] /\ state[t] = "running"

Seize(t) ==
  /\ traced' = [traced EXCEPT ![t] = TRUE]
  /\ UNCHANGED <<state, seen, intr, forked, killed, launched, signals>>

CanInterrupt(t) == t \in Children

Interrupt(t) ==
  /\ intr' = [intr EXCEPT ![t] =
       @ \/ (~Doomed(t) /\ state[t] \notin {"exit", "dying", "zombie"})]
  /\ UNCHANGED <<state, seen, traced, forked, killed, launched, signals>>

(* PTRACE_CONT fails without effect on a thread that is not stopped.       *)
Continued(t) ==
  IF state[t] = "exit" THEN "dying"
  ELSE IF state[t] \in Stops THEN "running"
  ELSE state[t]

Cont(t) ==
  /\ state' = [state EXCEPT ![t] = Continued(t)]
  /\ seen'  = [seen EXCEPT ![t] = FALSE]
  /\ UNCHANGED <<intr, traced, forked, killed, launched, signals>>

(* waitpid returned the stop of t and nobody continues it.                 *)
Notice(t) ==
  /\ seen' = [seen EXCEPT ![t] = TRUE]
  /\ UNCHANGED <<state, intr, traced, forked, killed, launched, signals>>

Reap(t) ==
  /\ state' = [state EXCEPT ![t] = "reaped"]
  /\ UNCHANGED <<seen, intr, traced, forked, killed, launched, signals>>
============================================================================

---------------------------- MODULE StopTheWorld ----------------------------
(***************************************************************************)
(* What the tracker promises of its main loop: it reads the application's  *)
(* memory only while no traced thread runs, and no thread starts to run    *)
(* before it has finished reading.                                         *)
(***************************************************************************)
CONSTANT Threads

VARIABLES
  reading,    (* the tracker compares the memory with its copy             *)
  active      (* the traced threads that execute the application's code    *)

Init == reading = FALSE /\ active \subseteq Threads

(* Between two snapshots threads start, stop, appear and disappear.        *)
Window ==
  /\ ~reading
  /\ active' \subseteq Threads
  /\ UNCHANGED reading

BeginReading ==
  /\ ~reading
  /\ active = {}
  /\ reading' = TRUE
  /\ UNCHANGED active

EndReading ==
  /\ reading
  /\ reading' = FALSE
  /\ UNCHANGED active

Next == Window \/ BeginReading \/ EndReading

Spec == Init /\ [][Next]_<<reading, active>>

(* The invariant of the abstract system.                                   *)
ReadsAStoppedWorld == reading => active = {}
============================================================================

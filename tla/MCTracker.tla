----------------------------- MODULE MCTracker -----------------------------
(***************************************************************************)
(* Model-checking instances of Tracker.                                    *)
(***************************************************************************)
EXTENDS Tracker, TLC

(* The threads that the application may create are interchangeable.        *)
Symmetry == Permutations(Threads \ {Leader})
============================================================================

----------------------------- MODULE MCKTracker -----------------------------
(* Model-checking instances of KTracker.                                   *)
EXTENDS KTracker, TLC

(* The threads that the application may create are interchangeable.        *)
Symmetry == Permutations(Threads \ {Leader})
=============================================================================

----------------------------- MODULE MCLifecycle -----------------------------
(***************************************************************************)
(* Lifecycle as TLC checks it: callers are interchangeable, and so are     *)
(* loops.  (Not for liveness runs.)                                        *)
(***************************************************************************)
EXTENDS Lifecycle, TLC

Symmetry == Permutations(Callers) \cup Permutations(Loops)
=============================================================================

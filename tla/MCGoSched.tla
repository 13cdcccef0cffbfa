----------------------------- MODULE MCGoSched -----------------------------
(* GoSched for TLC. *)
EXTENDS GoSched, TLC

(* Which goroutine is which does not matter. *)
Symmetry == Permutations(Goroutine)
=============================================================================

--------------------------- MODULE MCGoLifecycle ---------------------------
(* GoLifecycle for TLC. *)
EXTENDS GoLifecycle, TLC

(* Goroutines are interchangeable, and so are Ps. *)
Symmetry == Permutations(Goroutine) \cup Permutations(Processor)
=============================================================================

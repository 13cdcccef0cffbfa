----------------------------- MODULE MCGoRunq -----------------------------
(* GoRunq for TLC. *)
EXTENDS GoRunq, TLC

(* Goroutines are interchangeable, and so are thieves. *)
Symmetry == Permutations(Goroutine) \cup Permutations(Thief)
=============================================================================

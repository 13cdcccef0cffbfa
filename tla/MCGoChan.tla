----------------------------- MODULE MCGoChan -----------------------------
(* GoChan for TLC. The main goroutine is one of three: it waits in another way than the *)
(* two others, and liveness is checked, so there is no symmetry to use.                 *)
EXTENDS GoChan, TLC
=============================================================================

----------------------------- MODULE MCContext -----------------------------
(* Context for TLC: trees of three contexts. *)
EXTENDS Context, TLC

CONSTANTS a1, a2, a3

(* a1 is the root, a2 its child, a3 a child of a2. *)
Chain(k, l) ==
  [parent |-> a1 :> Bg @@ a2 :> a1 @@ a3 :> a2, kind |-> a1 :> "cancel" @@ a2 :> k @@ a3 :> l,
   serial |-> FALSE]

(* a2 and a3 are children of a1, made and cancelled by one thread. *)
Fork(k, l) ==
  [parent |-> a1 :> Bg @@ a2 :> a1 @@ a3 :> a1, kind |-> a1 :> k @@ a2 :> "cancel" @@ a3 :> l,
   serial |-> TRUE]

AllTrees ==
  {Chain("cancel", "timer"), Chain("timer", "cancel"), Chain("cause", "cause"),
   Chain("timer_cause", "cancel"), Fork("cause", "cancel"), Fork("cancel", "cause")}

Pairs == {Fork("cancel", "cancel")}

(* What the theorems about cancel assume holds of the trees that TLC looks at. *)
ASSUME TreesAssumption == Unraced
=============================================================================

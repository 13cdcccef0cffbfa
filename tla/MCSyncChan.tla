---------------------------- MODULE MCSyncChan ----------------------------
(* SyncChan for TLC: who calls what on which channel. *)
EXTENDS SyncChan, TLC

Use(cap, timeouts, n, may) ==
  [cap |-> cap, timeouts |-> timeouts, calls |-> n,
   may |-> [t \in Thread |-> IF t \in DOMAIN may THEN may[t] ELSE {}]]

(* Producers and consumers, one of each also without waiting. *)
Transfer ==
  1 :> {"push", "try_push"} @@ 2 :> {"push"} @@ 3 :> {"pop", "try_pop"} @@ 4 :> {"pop"}

(* Two producers and one consumer. *)
Merging == 1 :> {"push", "try_push"} @@ 2 :> {"push"} @@ 3 :> {"pop", "try_pop"}

(* Two producers and two consumers that all wait. *)
Crossing == 1 :> {"push"} @@ 2 :> {"push"} @@ 3 :> {"pop"} @@ 4 :> {"pop"}

(* Two producers, one of which may close, and a consumer. *)
Closing == 1 :> {"push", "try_push"} @@ 2 :> {"pop"} @@ 3 :> {"push", "close"}

(* Receivers at a channel that two threads close. *)
ClosingOnReaders == 1 :> {"pop"} @@ 2 :> {"try_pop", "sel_pop"} @@ 3 :> {"close"} @@ 4 :> {"close"}

(* Selects against calls that wait, and against each other. *)
Selecting == 1 :> {"sel_push"} @@ 2 :> {"sel_pop", "pop"} @@ 3 :> {"sel_pop", "push"}

(* Two consumers that select, and two producers. *)
TwoSelects == 1 :> {"sel_pop"} @@ 2 :> {"sel_pop"} @@ 3 :> {"push"} @@ 4 :> {"push"}

(* Nothing but selects, whose state words lie in this order. *)
Opposing == 1 :> {"sel_push"} @@ 2 :> {"sel_pop"} @@ 3 :> {"sel_push"}

AllUses ==
  {Use(3, {}, 2, 1 :> {"push"} @@ 2 :> {"push"} @@ 3 :> {"pop"}),
   Use(2, {}, 2, Merging), Use(1, {}, 2, Closing), Use(1, {"inf", "timed"}, 1, TwoSelects),
   Use(0, {}, 2, Merging), Use(0, {}, 1, Transfer), Use(0, {"inf"}, 1, Opposing),
   Use(0, {"inf"}, 1, Selecting), Use(0, {"inf", "else"}, 1, ClosingOnReaders)}

ClosingUses == {Use(0, {}, 2, Closing)}

OvertakingUses == {Use(3, {}, 3, Crossing)}

(* What the theorems assume of a program holds of the programs that TLC looks at; those *)
(* that close an unbuffered channel send nothing.                                       *)
ASSUME UsesAssumption ==
  \A u \in AllUses : InOrder(u) /\ OnlyWaits(u) /\ (HandsOver(u) \/ Senders(u) = {})
=============================================================================

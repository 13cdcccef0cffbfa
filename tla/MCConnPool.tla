---------------------------- MODULE MCConnPool ----------------------------
(* ConnPool for TLC: pools of one and two connections. *)
EXTENDS ConnPool, TLC

CONSTANTS c1, c2

Cfg(max, min) == [max_conns |-> max, min_idle_conns |-> min]

SmallConfigs == {Cfg(1, 0), Cfg(2, 1)}

Use(f, n1, n2, a) == [config |-> f, gets |-> c1 :> n1 @@ c2 :> n2, admin |-> a]

(* Two clients compete for one connection, and use two; one client uses a pool that *)
(* grows or shrinks.                                                                *)
AllUses ==
  {Use(Cfg(1, 0), 2, 1, 0), Use(Cfg(2, 1), 1, 1, 0), Use(Cfg(2, 1), 1, 0, 1),
   Use(Cfg(1, 0), 1, 0, 1)}
=============================================================================

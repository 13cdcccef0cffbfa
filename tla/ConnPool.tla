------------------------------ MODULE ConnPool ------------------------------
(***************************************************************************)
(* The connection pool (vlib/pool/connection.v): clients that get and put  *)
(* connections, the maintenance thread that prunes the idle ones, and the  *)
(* main thread, which made the pool, changes its configuration and closes  *)
(* it.                                                                     *)
(*                                                                         *)
(* config_mutex and wait_queue_mutex are never held while their holder     *)
(* waits for anything, so what they guard is one step.  idle_pool_mutex    *)
(* and all_conns_mutex are held across a push to eviction_ch, and          *)
(* create_mutex while the factory runs.  create_mutex makes creating_count *)
(* 1 while somebody holds it and 0 otherwise.                              *)
(*                                                                         *)
(* Times are abstract: a connection is found stale or valid, a wait times  *)
(* out, and an event makes maintenance prune at once or later, by choice.  *)
(* eviction_ch is the number of its events.                                *)
(***************************************************************************)
EXTENDS Integers, Sequences, FiniteSets, SequencesExt, FiniteSetsExt

CONSTANTS Client, Main, Maint,
          Configs,          \* [max_conns, min_idle_conns] the pool may be given
          eviction_ch_cap,
          NumConn,          \* bound: connections in existence at one time
          Uses              \* programs: a configuration, and the bounds on the calls of get
                            \* by each client and of update_config and send_eviction

Proc == Client \cup {Main, Maint}
Conn == 1 .. NumConn
Free == "free"

(* check_config *)
ASSUME ConnPoolAssumption ==
  /\ {Main, Maint} \cap Client = {} /\ Main # Maint
  /\ Free \notin Proc
  /\ IsFiniteSet(Client)
  /\ {eviction_ch_cap, NumConn} \subseteq Nat
  /\ \A f \in Configs : /\ f.max_conns \in Nat \ {0}
                        /\ f.min_idle_conns \in 0 .. f.max_conns
                        /\ f.min_idle_conns <= NumConn
  /\ Uses \subseteq [config : Configs, gets : [Client -> Nat], admin : Nat]

VARIABLES
  config, is_closed, active_count, all_conns, idle_pool, wait_queue,  \* fields of the pool
  stop_ch, events, evClosed,        \* stop_ch holds its value; eviction_ch
  idleMx, allMx, createMx,          \* the holders of the mutexes
  open,                             \* connections that are open at the server
  panicked,                         \* a push on a closed channel ended the program
  pc, stage,                        \* the place of a process; which of the calls of try_get it is in
  mine,                             \* connections a process has in its hands
  left, snap,                       \* locals of prune and get: loop counter, configuration read
  notified,                         \* notify_chan of a client holds its value
  gets, admin,                      \* calls that may still be made
  pending,                          \* event_count > 0 in background_maintenance
  waiters,                          \* local of close: a client, and which of its calls of get
  limit                             \* history: the largest max_conns so far

poolVars == <<config, is_closed, active_count, all_conns, idle_pool, wait_queue>>
evVars == <<stop_ch, events, evClosed>>
mxVars == <<idleMx, allMx, createMx>>
loopVars == <<left, snap, pending, waiters>>
localVars == <<stage, notified, loopVars>>
boundVars == <<gets, admin, limit>>
vars == <<poolVars, evVars, mxVars, open, panicked, pc, mine, localVars, boundVars>>

(* new_connection_pool has made the idle connections and started maintenance, *)
(* and prunes before it returns.                                              *)
Init ==
  /\ \E u \in Uses : config = u.config /\ gets = u.gets /\ admin = u.admin
  /\ is_closed = FALSE
  /\ active_count = 0
  /\ idle_pool = [i \in 1 .. config.min_idle_conns |-> i]
  /\ all_conns = 1 .. config.min_idle_conns
  /\ open = all_conns
  /\ wait_queue = <<>>
  /\ stop_ch = FALSE /\ events = 0 /\ evClosed = FALSE
  /\ idleMx = Free /\ allMx = Free /\ createMx = Free
  /\ panicked = FALSE
  /\ pc = [p \in Proc |-> CASE p = Main -> "prune" [] p = Maint -> "select" [] OTHER -> "idle"]
  /\ stage = [c \in Client |-> "none"]
  /\ mine = [p \in Proc |-> <<>>]
  /\ left = [p \in Proc |-> 0]
  /\ snap = [p \in Proc |-> config]
  /\ notified = [c \in Client |-> FALSE]
  /\ pending = FALSE
  /\ waiters = <<>>
  /\ limit = config.max_conns

Goto(p, l) == pc' = [pc EXCEPT ![p] = l]
Drop(p) == mine' = [mine EXCEPT ![p] = <<>>]
Holds(p) == Head(mine[p])

(* A closed connection that nobody can name any more stands for a new one. *)
Fresh == Conn \ (open \cup all_conns \cup UNION {Range(mine[p]) : p \in Proc})

LocksIdle(p, l) ==
  /\ idleMx = Free
  /\ idleMx' = p
  /\ Goto(p, l)
  /\ UNCHANGED <<poolVars, evVars, allMx, createMx, open, panicked, mine, localVars, boundVars>>

(* A connection is closed and forgotten. *)
Discards(k) ==
  /\ allMx = Free
  /\ all_conns' = all_conns \ {k}
  /\ open' = open \ {k}

Creating == IF createMx = Free THEN 0 ELSE 1

can_create ==
  /\ active_count + Creating < config.max_conns
  /\ ~is_closed
  /\ Cardinality(all_conns) < config.max_conns

-----------------------------------------------------------------------------
(* create_conn_with_retry: the factory gives a valid connection, or the call *)
(* fails after its retries.                                                  *)

CreateLocks(p) ==
  /\ pc[p] = "create"
  /\ createMx = Free
  /\ createMx' = p
  /\ Goto(p, "factory")
  /\ UNCHANGED <<poolVars, evVars, idleMx, allMx, open, panicked, mine, localVars, boundVars>>

(* Where a call of create_conn_with_retry returns to. *)
Created(p, l) ==
  /\ createMx' = Free
  /\ IF p \in Client THEN Goto(p, l) /\ UNCHANGED left
     ELSE /\ left' = [left EXCEPT ![p] = @ - 1]
          /\ Goto(p, IF left[p] > 1 THEN "create" ELSE "check_closed")

CreateSucceeds(p) ==
  /\ pc[p] = "factory"
  /\ Fresh # {}
  /\ LET k == CHOOSE k \in Fresh : TRUE IN
       /\ mine' = [mine EXCEPT ![p] = Append(@, k)]
       /\ open' = open \cup {k}
  /\ Created(p, "recheck")
  /\ UNCHANGED <<poolVars, evVars, idleMx, allMx, panicked, stage, notified, snap, pending,
                 waiters, boundVars>>

CreateFails(p) ==
  /\ pc[p] = "factory"
  /\ Created(p, "idle")
  /\ UNCHANGED <<poolVars, evVars, idleMx, allMx, open, panicked, mine, stage, notified, snap,
                 pending, waiters, boundVars>>

-----------------------------------------------------------------------------
(* try_wakeup_waiters, when the pool has these idle connections and these *)
(* connections in all.                                                    *)
try_wakeup_waiters(idle, all) ==
  IF wait_queue # <<>> /\ (idle # <<>> \/ (can_create /\ Cardinality(all) < config.max_conns))
  THEN /\ notified' = [notified EXCEPT ![Head(wait_queue)] = TRUE]
       /\ wait_queue' = Tail(wait_queue)
  ELSE UNCHANGED <<notified, wait_queue>>

(* A push to eviction_ch waits while the channel is full and panics when it is closed. *)
Push ==
  /\ ~evClosed
  /\ events < eviction_ch_cap
  /\ events' = events + 1
  /\ UNCHANGED <<stop_ch, evClosed>>

PushPanics(c) ==
  /\ pc[c] \in {"try_push", "get_push", "put_push"}
  /\ evClosed
  /\ panicked' = TRUE
  /\ UNCHANGED <<poolVars, evVars, mxVars, open, pc, mine, localVars, boundVars>>

-----------------------------------------------------------------------------
(* try_get, the three times get calls it. *)

CallsTry(c, st) == Goto(c, "try") /\ stage' = [stage EXCEPT ![c] = st]
TryReturns(c, l) == Goto(c, l) /\ stage' = [stage EXCEPT ![c] = "none"]

TryLocks(c) ==
  /\ pc[c] = "try"
  /\ LocksIdle(c, "try_push")

TryPushes(c) ==
  /\ pc[c] = "try_push"
  /\ Push
  /\ Goto(c, "try_pop")
  /\ UNCHANGED <<poolVars, mxVars, open, panicked, mine, localVars, boundVars>>

(* The last idle connection is valid: it is the client's. *)
TryTakes(c) ==
  /\ pc[c] = "try_pop"
  /\ idle_pool # <<>>
  /\ mine' = [mine EXCEPT ![c] = <<Last(idle_pool)>>]
  /\ idle_pool' = Front(idle_pool)
  /\ active_count' = active_count + 1
  /\ idleMx' = Free
  /\ TryReturns(c, IF stage[c] = "first" THEN "get_push" ELSE "using")
  /\ UNCHANGED <<config, is_closed, all_conns, wait_queue, evVars, allMx, createMx, open,
                 panicked, notified, loopVars, boundVars>>

(* It has expired or is not valid: it is closed, and the loop goes on. *)
TryDrops(c) ==
  /\ pc[c] = "try_pop"
  /\ idle_pool # <<>>
  /\ idle_pool' = Front(idle_pool)
  /\ Discards(Last(idle_pool))
  /\ UNCHANGED <<config, is_closed, active_count, wait_queue, evVars, mxVars, panicked, pc, mine,
                 localVars, boundVars>>

TryNone(c) ==
  /\ pc[c] = "try_pop"
  /\ idle_pool = <<>>
  /\ idleMx' = Free
  /\ TryReturns(c, CASE stage[c] = "first" -> "can_create"
                     [] stage[c] = "second" -> "enqueue"
                     [] stage[c] = "last" -> "idle")
  /\ UNCHANGED <<poolVars, evVars, allMx, createMx, open, panicked, mine, notified, loopVars,
                 boundVars>>

-----------------------------------------------------------------------------
(* get *)

Pruning == {"prune", "look", "create", "factory", "check_closed", "add", "add_all"}

(* The pool exists once new_connection_pool has pruned. *)
GetBegins(c) ==
  /\ pc[c] = "idle"
  /\ pc[Main] \notin Pruning
  /\ gets[c] > 0
  /\ gets' = [gets EXCEPT ![c] = @ - 1]
  /\ notified' = [notified EXCEPT ![c] = FALSE]
  /\ Goto(c, "get")
  /\ UNCHANGED <<poolVars, evVars, mxVars, open, panicked, mine, stage, loopVars, admin, limit>>

(* Calls try_get, unless the pool is closed. *)
GetLoops(c) ==
  /\ pc[c] = "get"
  /\ IF is_closed THEN Goto(c, "idle") /\ UNCHANGED stage ELSE CallsTry(c, "first")
  /\ UNCHANGED <<poolVars, evVars, mxVars, open, panicked, mine, notified, loopVars, boundVars>>

GetPushes(c) ==
  /\ pc[c] = "get_push"
  /\ Push
  /\ Goto(c, "using")
  /\ UNCHANGED <<poolVars, mxVars, open, panicked, mine, localVars, boundVars>>

(* Only a hint: GetInserts looks again. *)
GetChecks(c) ==
  /\ pc[c] = "can_create"
  /\ IF can_create THEN Goto(c, "create") /\ UNCHANGED stage ELSE CallsTry(c, "second")
  /\ UNCHANGED <<poolVars, evVars, mxVars, open, panicked, mine, notified, loopVars, boundVars>>

(* The connection is made; meanwhile the pool may have been closed. *)
GetRechecks(c) ==
  /\ pc[c] = "recheck"
  /\ IF is_closed
     THEN open' = open \ {Holds(c)} /\ Drop(c) /\ Goto(c, "idle") /\ UNCHANGED snap
     ELSE snap' = [snap EXCEPT ![c] = config] /\ Goto(c, "insert") /\ UNCHANGED <<open, mine>>
  /\ UNCHANGED <<poolVars, evVars, mxVars, panicked, stage, notified, left, pending, waiters,
                 boundVars>>

(* Mutant: relies on can_create, which was read before the connection was made. *)
GetInserts_unchecked(c) ==
  /\ pc[c] = "insert"
  /\ allMx = Free
  /\ all_conns' = all_conns \cup {Holds(c)}
  /\ Goto(c, "count")
  /\ UNCHANGED <<config, is_closed, active_count, idle_pool, wait_queue, evVars, mxVars, open,
                 panicked, mine, localVars, boundVars>>

(* A connection over the limit is closed.  When its close reports an error, get *)
(* returns that error, and the connection is given up like one that is closed.  *)
GetInserts(c) ==
  /\ pc[c] = "insert"
  /\ allMx = Free
  /\ IF Cardinality(all_conns) < snap[c].max_conns
     THEN /\ all_conns' = all_conns \cup {Holds(c)}
          /\ Goto(c, "count")
          /\ UNCHANGED <<open, mine, stage>>
     ELSE /\ open' = open \ {Holds(c)}
          /\ Drop(c)
          /\ CallsTry(c, "second") \/ (Goto(c, "idle") /\ UNCHANGED stage)
          /\ UNCHANGED all_conns
  /\ UNCHANGED <<config, is_closed, active_count, idle_pool, wait_queue, evVars, mxVars, panicked,
                 notified, loopVars, boundVars>>

(* active_count is atomic, and no lock is held when it changes. *)
Counts(c, l, d, m) ==
  /\ pc[c] = l
  /\ active_count' = active_count + d
  /\ Goto(c, m)
  /\ UNCHANGED <<config, is_closed, all_conns, idle_pool, wait_queue, evVars, mxVars, open,
                 panicked, mine, localVars, boundVars>>

GetCounts(c) == Counts(c, "count", 1, "using")

(* Out of time before it waits. *)
GetGivesUp(c) ==
  /\ pc[c] = "enqueue"
  /\ Goto(c, "idle")
  /\ UNCHANGED <<poolVars, evVars, mxVars, open, panicked, mine, localVars, boundVars>>

GetEnqueues(c) ==
  /\ pc[c] = "enqueue"
  /\ wait_queue' = Append(wait_queue, c)
  /\ Goto(c, "waiting")
  /\ UNCHANGED <<config, is_closed, active_count, all_conns, idle_pool, evVars, mxVars, open,
                 panicked, mine, localVars, boundVars>>

GetWakes(c) ==
  /\ pc[c] = "waiting"
  /\ notified[c]
  /\ notified' = [notified EXCEPT ![c] = FALSE]
  /\ Goto(c, "get")
  /\ UNCHANGED <<poolVars, evVars, mxVars, open, panicked, mine, stage, loopVars, boundVars>>

(* The select may see the timeout although the notification is there too, which *)
(* is lost then.                                                                *)
GetTimesOut(c) ==
  /\ pc[c] = "waiting"
  /\ wait_queue' = RemoveFirst(wait_queue, c)
  /\ CallsTry(c, "last")
  /\ notified' = [notified EXCEPT ![c] = FALSE]
  /\ UNCHANGED <<config, is_closed, active_count, all_conns, idle_pool, evVars, mxVars, open,
                 panicked, mine, loopVars, boundVars>>

-----------------------------------------------------------------------------
(* put *)

(* active_count is looked at, and then decremented: two atomic operations. *)
PutBegins(c) ==
  /\ pc[c] = "using"
  /\ Goto(c, IF active_count > 0 THEN "put_sub" ELSE "put_check")
  /\ UNCHANGED <<poolVars, evVars, mxVars, open, panicked, mine, localVars, boundVars>>

(* Mutant: the connection is never counted out. *)
PutSubtracts_not(c) == Counts(c, "put_sub", 0, "put_check")

PutSubtracts(c) == Counts(c, "put_sub", -1, "put_check")

PutChecks(c) ==
  /\ pc[c] = "put_check"
  /\ IF is_closed
     THEN open' = open \ {Holds(c)} /\ Drop(c) /\ Goto(c, "idle")
     ELSE Goto(c, "reset") /\ UNCHANGED <<open, mine>>
  /\ UNCHANGED <<poolVars, evVars, mxVars, panicked, localVars, boundVars>>

(* reset fails. *)
PutFails(c) ==
  /\ pc[c] = "reset"
  /\ Discards(Holds(c))
  /\ Drop(c)
  /\ Goto(c, "idle")
  /\ UNCHANGED <<config, is_closed, active_count, idle_pool, wait_queue, evVars, mxVars, panicked,
                 localVars, boundVars>>

(* reset succeeds. *)
PutLocks(c) ==
  /\ pc[c] = "reset"
  /\ LocksIdle(c, "put_all")

(* The connection is idle again, or, when the pool does not know it any more, closed. *)
PutReturns(c) ==
  /\ pc[c] = "put_all"
  /\ allMx = Free
  /\ Drop(c)
  /\ IF Holds(c) \in all_conns
     THEN /\ idle_pool' = Append(idle_pool, Holds(c))
          /\ try_wakeup_waiters(idle_pool', all_conns)
          /\ allMx' = c
          /\ Goto(c, "put_push")
          /\ UNCHANGED <<open, idleMx>>
     ELSE /\ open' = open \ {Holds(c)}
          /\ idleMx' = Free
          /\ Goto(c, "idle")
          /\ UNCHANGED <<idle_pool, notified, wait_queue, allMx>>
  /\ UNCHANGED <<config, is_closed, active_count, all_conns, evVars, createMx, panicked, stage,
                 loopVars, boundVars>>

(* Mutant: an error path leaves without the deferred unlock of idle_pool_mutex. *)
PutPushes_locked(c) ==
  /\ pc[c] = "put_push"
  /\ Push
  /\ allMx' = Free /\ UNCHANGED idleMx
  /\ Goto(c, "idle")
  /\ UNCHANGED <<poolVars, createMx, open, panicked, mine, localVars, boundVars>>

PutPushes(c) ==
  /\ pc[c] = "put_push"
  /\ Push
  /\ allMx' = Free /\ idleMx' = Free
  /\ Goto(c, "idle")
  /\ UNCHANGED <<poolVars, createMx, open, panicked, mine, localVars, boundVars>>

-----------------------------------------------------------------------------
(* prune_connections, by maintenance and by new_connection_pool *)

PruneLocks(p) ==
  /\ pc[p] = "prune"
  /\ idleMx = Free
  /\ idleMx' = p
  /\ left' = [left EXCEPT ![p] = Len(idle_pool)]
  /\ Goto(p, "look")
  /\ UNCHANGED <<poolVars, evVars, allMx, createMx, open, panicked, mine, stage, notified, snap,
                 pending, waiters, boundVars>>

PruneKeeps(p) ==
  /\ pc[p] = "look"
  /\ left[p] > 0
  /\ left' = [left EXCEPT ![p] = @ - 1]
  /\ UNCHANGED <<poolVars, evVars, mxVars, open, panicked, pc, mine, stage, notified, snap,
                 pending, waiters, boundVars>>

PruneEvicts(p) ==
  /\ pc[p] = "look"
  /\ left[p] > 0
  /\ Discards(idle_pool[left[p]])
  /\ idle_pool' = RemoveAt(idle_pool, left[p])
  /\ left' = [left EXCEPT ![p] = @ - 1]
  /\ UNCHANGED <<config, is_closed, active_count, wait_queue, evVars, mxVars, panicked, pc, mine,
                 stage, notified, snap, pending, waiters, boundVars>>

PruneUnlocks(p) ==
  /\ pc[p] = "look"
  /\ left[p] = 0
  /\ idleMx' = Free
  /\ LET to_create == snap[p].min_idle_conns - Len(idle_pool) IN
       IF to_create > 0
       THEN left' = [left EXCEPT ![p] = to_create] /\ Goto(p, "create")
       ELSE Goto(p, "check_closed") /\ UNCHANGED left
  /\ UNCHANGED <<poolVars, evVars, allMx, createMx, open, panicked, mine, stage, notified, snap,
                 pending, waiters, boundVars>>

PruneReturns(p) == Goto(p, IF p = Main THEN "ready" ELSE "select")

(* Was the pool closed meanwhile? *)
PruneChecks(p) ==
  /\ pc[p] = "check_closed"
  /\ IF is_closed
     THEN open' = open \ Range(mine[p]) /\ Drop(p) /\ PruneReturns(p) /\ UNCHANGED snap
     ELSE snap' = [snap EXCEPT ![p] = config] /\ Goto(p, "add") /\ UNCHANGED <<open, mine>>
  /\ UNCHANGED <<poolVars, evVars, mxVars, panicked, stage, notified, left, pending, waiters,
                 boundVars>>

PruneLocksAgain(p) ==
  /\ pc[p] = "add"
  /\ LocksIdle(p, "add_all")

(* How many of the new connections are needed and fit. *)
actual_to_add(p) ==
  LET needed == snap[p].min_idle_conns - Len(idle_pool)
      slots  == snap[p].max_conns - Cardinality(all_conns)
  IN Max({0, Min({needed, slots, Len(mine[p])})})

PruneAdds(p) ==
  /\ pc[p] = "add_all"
  /\ allMx = Free
  /\ LET add == SubSeq(mine[p], 1, actual_to_add(p)) IN
       /\ idle_pool' = idle_pool \o add
       /\ all_conns' = all_conns \cup Range(add)
       /\ open' = open \ (Range(mine[p]) \ Range(add))
       /\ IF add # <<>> THEN try_wakeup_waiters(idle_pool', all_conns')
          ELSE UNCHANGED <<notified, wait_queue>>
  /\ Drop(p)
  /\ idleMx' = Free
  /\ PruneReturns(p)
  /\ UNCHANGED <<config, is_closed, active_count, evVars, allMx, createMx, panicked, stage,
                 loopVars, boundVars>>

-----------------------------------------------------------------------------
(* background_maintenance *)

MaintPrunes ==
  /\ Goto(Maint, "prune")
  /\ snap' = [snap EXCEPT ![Maint] = config]
  /\ pending' = FALSE

MaintStops ==
  /\ pc[Maint] = "select"
  /\ stop_ch
  /\ stop_ch' = FALSE
  /\ Goto(Maint, "finished")
  /\ UNCHANGED <<poolVars, events, evClosed, mxVars, open, panicked, mine, localVars, boundVars>>

(* An urgent event, or enough events or time since the first, prune at once. *)
MaintEvent ==
  /\ pc[Maint] = "select"
  /\ events > 0
  /\ events' = events - 1
  /\ \/ MaintPrunes
     \/ pending' = TRUE /\ UNCHANGED <<pc, snap>>
  /\ UNCHANGED <<poolVars, stop_ch, evClosed, mxVars, open, panicked, mine, stage, notified, left,
                 waiters, boundVars>>

MaintTimer ==
  /\ pc[Maint] = "select"
  /\ pending
  /\ MaintPrunes
  /\ UNCHANGED <<poolVars, evVars, mxVars, open, panicked, mine, stage, notified, left, waiters,
                 boundVars>>

-----------------------------------------------------------------------------
(* update_config, send_eviction, signal_recovery_event and close, by the main thread *)

(* With the configuration it has already, this is send_eviction or *)
(* signal_recovery_event.                                          *)
update_config ==
  /\ pc[Main] = "ready"
  /\ admin > 0
  /\ admin' = admin - 1
  /\ config' \in Configs
  /\ limit' = Max({limit, config'.max_conns})
  /\ Goto(Main, "admin_push")
  /\ UNCHANGED <<is_closed, active_count, all_conns, idle_pool, wait_queue, evVars, mxVars, open,
                 panicked, mine, localVars, gets>>

send_eviction ==
  /\ pc[Main] = "admin_push"
  /\ Push
  /\ Goto(Main, "ready")
  /\ UNCHANGED <<poolVars, mxVars, open, panicked, mine, localVars, boundVars>>

CloseBegins ==
  /\ pc[Main] = "ready"
  /\ is_closed' = TRUE
  /\ stop_ch' = TRUE
  /\ Goto(Main, "join")
  /\ UNCHANGED <<config, active_count, all_conns, idle_pool, wait_queue, events, evClosed, mxVars,
                 open, panicked, mine, localVars, boundVars>>

(* Mutant: does not wait for the maintenance thread. *)
CloseJoins_not ==
  /\ pc[Main] = "join"
  /\ LocksIdle(Main, "close_all")

CloseJoins ==
  /\ pc[Main] = "join"
  /\ pc[Maint] = "finished"
  /\ LocksIdle(Main, "close_all")

(* Connections that clients use are closed too. *)
CloseAll ==
  /\ pc[Main] = "close_all"
  /\ allMx = Free
  /\ open' = open \ all_conns
  /\ all_conns' = {}
  /\ idle_pool' = <<>>
  /\ idleMx' = Free
  /\ Goto(Main, "close_queue")
  /\ UNCHANGED <<config, is_closed, active_count, wait_queue, evVars, allMx, createMx, panicked,
                 mine, localVars, boundVars>>

(* Mutant: the queue is not cleared. *)
CloseQueue_keeps ==
  /\ pc[Main] = "close_queue"
  /\ waiters' = [i \in DOMAIN wait_queue |-> <<wait_queue[i], gets[wait_queue[i]]>>]
  /\ Goto(Main, "close_notify")
  /\ UNCHANGED <<poolVars, evVars, mxVars, open, panicked, mine, stage, notified, left, snap,
                 pending, boundVars>>

CloseQueue ==
  /\ pc[Main] = "close_queue"
  /\ waiters' = [i \in DOMAIN wait_queue |-> <<wait_queue[i], gets[wait_queue[i]]>>]
  /\ wait_queue' = <<>>
  /\ Goto(Main, "close_notify")
  /\ UNCHANGED <<config, is_closed, active_count, all_conns, idle_pool, evVars, mxVars, open,
                 panicked, mine, stage, notified, left, snap, pending, boundVars>>

InGet(c) ==
  pc[c] \notin {"idle", "using", "put_sub", "put_check", "reset", "put_all", "put_push"}

(* A get that has returned meanwhile has closed its notify_chan. *)
CloseNotifies ==
  /\ pc[Main] = "close_notify"
  /\ waiters # <<>>
  /\ waiters' = Tail(waiters)
  /\ LET c == Head(waiters)[1] IN
       IF InGet(c) /\ gets[c] = Head(waiters)[2]
       THEN notified' = [notified EXCEPT ![c] = TRUE] /\ UNCHANGED panicked
       ELSE panicked' = TRUE /\ UNCHANGED notified
  /\ UNCHANGED <<poolVars, evVars, mxVars, open, pc, mine, stage, left, snap, pending, boundVars>>

CloseEvents ==
  /\ pc[Main] = "close_notify"
  /\ waiters = <<>>
  /\ evClosed' = TRUE
  /\ Goto(Main, "close_reset")
  /\ UNCHANGED <<poolVars, stop_ch, events, mxVars, open, panicked, mine, localVars, boundVars>>

(* A client between the two steps of put will count down from 0. *)
CloseEnds ==
  /\ pc[Main] = "close_reset"
  /\ active_count' = 0
  /\ Goto(Main, "closed")
  /\ UNCHANGED <<config, is_closed, all_conns, idle_pool, wait_queue, evVars, mxVars, open,
                 panicked, mine, localVars, boundVars>>

-----------------------------------------------------------------------------
CreateStep(p) == CreateLocks(p) \/ CreateSucceeds(p) \/ CreateFails(p)

ClientStep(c) ==
  \/ CreateStep(c)
  \/ TryLocks(c) \/ TryPushes(c) \/ TryTakes(c) \/ TryDrops(c) \/ TryNone(c)
  \/ GetLoops(c) \/ GetPushes(c) \/ GetChecks(c) \/ GetRechecks(c) \/ GetInserts(c) \/ GetCounts(c)
  \/ GetGivesUp(c) \/ GetEnqueues(c) \/ GetWakes(c) \/ GetTimesOut(c)
  \/ PutSubtracts(c) \/ PutChecks(c) \/ PutFails(c) \/ PutLocks(c) \/ PutReturns(c) \/ PutPushes(c)
  \/ PushPanics(c)

PruneStep(p) ==
  \/ CreateStep(p)
  \/ PruneLocks(p) \/ PruneKeeps(p) \/ PruneEvicts(p) \/ PruneUnlocks(p)
  \/ PruneChecks(p) \/ PruneLocksAgain(p) \/ PruneAdds(p)

MaintStep == PruneStep(Maint) \/ MaintStops \/ MaintEvent \/ MaintTimer

MainStep ==
  \/ PruneStep(Main) \/ send_eviction
  \/ CloseJoins \/ CloseAll \/ CloseQueue \/ CloseNotifies \/ CloseEvents \/ CloseEnds

Next ==
  /\ ~panicked
  /\ \/ \E c \in Client : GetBegins(c) \/ PutBegins(c) \/ ClientStep(c)
     \/ MaintStep
     \/ MainStep \/ update_config \/ CloseBegins

Spec == Init /\ [][Next]_vars

(* The operating system runs every thread and the factory returns.  Time       *)
(* passes, so a get that looks at its timeout again and again finds it over.   *)
(* Nobody has to call get, put, update_config or close.                        *)
Fairness ==
  /\ \A c \in Client : /\ WF_vars(~panicked /\ ClientStep(c))
                       /\ SF_vars(~panicked /\ (GetGivesUp(c) \/ GetTimesOut(c)))
  /\ WF_vars(~panicked /\ MaintStep)
  /\ WF_vars(~panicked /\ MainStep)

FairSpec == Spec /\ Fairness

-----------------------------------------------------------------------------
Places ==
  Pruning \cup
  {"idle", "get", "try", "try_push", "try_pop", "get_push", "can_create", "recheck", "insert",
   "count", "enqueue", "waiting", "using", "put_sub", "put_check", "reset", "put_all", "put_push",
   "select", "finished", "ready", "admin_push", "join", "close_all", "close_queue",
   "close_notify", "close_reset", "closed"}

(* Types; the mutexes are held exactly in the places between lock and unlock, *)
(* and a client is in the wait queue only while it waits.                     *)
TypeOK ==
  /\ config \in Configs /\ limit \in Nat
  /\ {is_closed, stop_ch, evClosed, panicked, pending} \subseteq BOOLEAN
  /\ active_count \in Int
  /\ all_conns \subseteq Conn /\ open \subseteq Conn
  /\ idle_pool \in Seq(Conn)
  /\ Range(wait_queue) \subseteq {c \in Client : pc[c] = "waiting"} /\ IsInjective(wait_queue)
  /\ events \in 0 .. eviction_ch_cap
  /\ pc \in [Proc -> Places]
  /\ idleMx = Free <=> \A p \in Proc : pc[p] \notin {"try_push", "try_pop", "put_all", "put_push",
                                                     "look", "add_all", "close_all"}
  /\ allMx = Free <=> \A p \in Proc : pc[p] # "put_push"
  /\ createMx = Free <=> \A p \in Proc : pc[p] # "factory"
  /\ stage \in [Client -> {"none", "first", "second", "last"}]
  /\ \A p \in Proc : mine[p] \in Seq(Conn)
  /\ left \in [Proc -> Nat] /\ snap \in [Proc -> Configs]
  /\ notified \in [Client -> BOOLEAN]

(* A connection is in one place: it is idle once, or in the hands of one      *)
(* process.  Idle connections are open and known to the pool (the assertion   *)
(* idle_conns <= total_conns of connection_concurrent_test.v:65), those in    *)
(* use too until the pool is closed, and the pool never knows more            *)
(* connections than it was ever allowed (total_conns <= max_conns, line 64).  *)
PoolConsistent ==
  /\ IsInjective(idle_pool)
  /\ Range(idle_pool) \subseteq all_conns \cap open
  /\ \A p \in Proc : Range(mine[p]) \cap Range(idle_pool) = {}
  /\ \A p, q \in Proc : p # q => Range(mine[p]) \cap Range(mine[q]) = {}
  /\ ~is_closed => \A c \in Client : pc[c] = "using" => Holds(c) \in all_conns \cap open
  /\ Cardinality(all_conns) <= limit

(* Until close resets it, active_count is the number of "currently checked-out    *)
(* connections" (connection.v:70), although get and put change it at other times *)
(* than the pool, and put looks at it before it counts down without a            *)
(* compare-and-exchange (connection.v:377-380); can_create relies on it.         *)
CheckedOut == {c \in Client : pc[c] \in {"get_push", "using", "put_sub"}}

ActiveCounted == pc[Main] # "closed" => active_count = Cardinality(CheckedOut)

(* Every connection that is open is idle or in somebody's hands, whichever      *)
(* checks failed on the way and whenever the pool was closed; when close has    *)
(* returned, only clients that still hold a connection keep one open.           *)
NoLeak ==
  /\ open \subseteq Range(idle_pool) \cup UNION {Range(mine[p]) : p \in Proc}
  /\ pc[Main] = "closed" => idle_pool = <<>>

(* The eviction channel is full, the thread that holds idle_pool_mutex pushes *)
(* to it, and the thread that would empty it waits for idle_pool_mutex or has *)
(* been stopped.                                                              *)
EvictionDeadlock ==
  /\ events = eviction_ch_cap /\ ~evClosed
  /\ \E c \in Client : idleMx = c /\ pc[c] \in {"try_push", "put_push"}
  /\ pc[Maint] \in {"prune", "add", "finished"}

Busy(p) == pc[p] \notin {"idle", "using", "ready", "closed"}

(* get, with its timeout, put, update_config and close return, whatever order   *)
(* their locks are taken in and whatever fails, unless eviction_ch fills up.    *)
CallsReturn == \A p \in Client \cup {Main} : Busy(p) ~> (~Busy(p) \/ panicked \/ EvictionDeadlock)

=============================================================================
